-------------------------------- MODULE Slab --------------------------------
(***************************************************************************)
(* The slab allocator of src/slab.c, installed as the allocator of the     *)
(* library (slab_alloc_hook, slab_realloc_hook, slab_free_hook) and used   *)
(* directly (otlp_slab_alloc, otlp_slab_free_ptr), by clients that write   *)
(* what they hold and let it grow.                                         *)
(*                                                                         *)
(* A pointer names the area it points into, the arena of the installed     *)
(* ("global") or of the caller's own slab ("local") or the heap of an      *)
(* allocator, and a place there.  Contents are the names of the clients    *)
(* that wrote them, unit by unit.                                          *)
(***************************************************************************)
EXTENDS Naturals, Sequences, FiniteSets

CONSTANTS
    Clients,        \* each holds at most one block
    Capacity,       \* slots of a slab
    SlotRequest,    \* slot size asked for
    Align,          \* OTLP_SLAB_ALIGN
    Sizes,          \* sizes of blocks
    Prev,           \* allocator before the slab: "libc" or "custom"
    NULL,
    MaxCalls        \* bound: calls that allocate

ASSUME SlabAssumption ==
    /\ {Capacity, SlotRequest, Align} \subseteq Nat \ {0} /\ Sizes \subseteq Nat \ {0}
    /\ Prev \in {"libc", "custom"} /\ IsFiniteSet(Clients) /\ NULL \notin Clients
    /\ MaxCalls \in Nat

round_up(v, align) == ((v + align - 1) \div align) * align

SlotSize == round_up(SlotRequest, Align)
Slots == 1..Capacity
Slabs == {"global", "local"}

\* A pointer names an area and a place in it; a slab keeps its free stack, the
\* marks of the slots in use and its statistics.
Areas == Slabs \cup {"libc", "custom"}
Pointers == [area : Areas, i : Nat]
SlabStates == [free : Seq(Slots), used : SUBSET Slots, in_use : Nat,
               hits : Nat, free_hits : Nat, allocs : Nat, frees : Nat,
               fallbacks : Nat, free_fallbacks : Nat]

ASSUME NullAssumption == NULL \notin Pointers /\ NULL \notin SlabStates

VARIABLES
    slab,           \* g_installed_slab and the caller's own slab, or NULL
    ptr, size,      \* what every client holds, or NULL
    via,            \* which of the two interfaces gave it
    mem,            \* contents by pointer
    \* history
    written,        \* units of its block a client has written or had copied
    misplaced,      \* areas of the blocks given to an allocator that did not
                    \* make them
    calls

vars == <<slab, ptr, size, via, mem, written, misplaced, calls>>

Pointer(area, i) == [area |-> area, i |-> i]

\* The free stack is a sequence whose last element is popped first.
NewSlab ==
    [free |-> [k \in Slots |-> Capacity + 1 - k], used |-> {}, in_use |-> 0,
     hits |-> 0, free_hits |-> 0, allocs |-> 0, frees |-> 0,
     fallbacks |-> 0, free_fallbacks |-> 0]

Init ==
    /\ slab = [s \in Slabs |-> NULL]
    /\ ptr = [c \in Clients |-> NULL] /\ size = [c \in Clients |-> 0]
    /\ via = [c \in Clients |-> "global"]
    /\ mem = <<>> /\ written = [c \in Clients |-> 0]
    /\ misplaced = {} /\ calls = 0

---------------------------------------------------------------------------
(* One slab *)

\* Mutant: the top of the stack is read and not taken off.
PopKeeps(s) == [s EXCEPT !.used = @ \cup {s.free[Len(s.free)]},
                         !.in_use = @ + 1, !.hits = @ + 1]

Pop(s) == [s EXCEPT !.free = SubSeq(@, 1, Len(@) - 1),
                    !.used = @ \cup {s.free[Len(s.free)]},
                    !.in_use = @ + 1, !.hits = @ + 1]

Push(s, i) == [s EXCEPT !.free = Append(@, i), !.used = @ \ {i},
                        !.in_use = @ - 1, !.frees = @ + 1, !.free_hits = @ + 1]

\* A pointer of this heap that nobody holds.
Fresh(heap) ==
    LET free == {i \in 1..Cardinality(Clients) + 1 :
                    \A c \in Clients : ptr[c] # Pointer(heap, i)}
    IN  Pointer(heap, CHOOSE i \in free : \A j \in free : i <= j)

\* What an allocation gives: a pointer or NULL, and what becomes of the slab.
Gets(p, s) == [p |-> p, slab |-> s]

\* The heap may be exhausted.
HeapGets(heap, s) == {Gets(Fresh(heap), s), Gets(NULL, s)}

\* From the stack if the block fits and there is a slot, from malloc otherwise.
otlp_slab_alloc(which, n) ==
    LET s == [slab[which] EXCEPT !.allocs = @ + 1] IN
    IF n <= SlotSize /\ s.free # <<>>
    THEN {Gets(Pointer(which, s.free[Len(s.free)]), Pop(s))}
    ELSE HeapGets("libc", [s EXCEPT !.fallbacks = @ + 1])

\* A block too large goes to the previous allocator without being counted.
slab_alloc_hook(n) ==
    IF slab.global = NULL \/ n > SlotSize THEN HeapGets(Prev, slab.global)
    ELSE otlp_slab_alloc("global", n)

\* A pointer into the arena is pushed back, any other is given to Prev.
slab_free_hook(p, s) == IF s # NULL /\ p.area = "global" THEN Push(s, p.i) ELSE s

\* otlp_slab_free_ptr counts every call, and those that go to free.
otlp_slab_free_ptr(p, s) ==
    IF p.area = "local" THEN Push(s, p.i)
    ELSE [s EXCEPT !.frees = @ + 1, !.free_fallbacks = @ + 1]

---------------------------------------------------------------------------
(* Clients *)

Stamped(c, n) == [k \in 1..n |-> c]

\* The client now holds block p of n units, with these contents, of which it
\* relies on the first w.
Holds(c, p, n, contents, w) ==
    /\ ptr' = [ptr EXCEPT ![c] = p]
    /\ size' = [size EXCEPT ![c] = n]
    /\ written' = [written EXCEPT ![c] = w]
    /\ mem' = [q \in (DOMAIN mem \ {ptr[c]}) \cup {p} |-> IF q = p THEN contents ELSE mem[q]]

Drop(c) ==
    /\ ptr' = [ptr EXCEPT ![c] = NULL]
    /\ size' = [size EXCEPT ![c] = 0]
    /\ written' = [written EXCEPT ![c] = 0]
    /\ mem' = [q \in DOMAIN mem \ {ptr[c]} |-> mem[q]]

\* The client asks slab `which` for n units, with these outcomes; an
\* allocation fills nothing.
Allocates(c, n, which, outcomes) ==
    /\ ptr[c] = NULL /\ calls < MaxCalls /\ calls' = calls + 1
    /\ via' = [via EXCEPT ![c] = which]
    /\ \E r \in outcomes :
          /\ slab' = [slab EXCEPT ![which] = r.slab]
          /\ IF r.p = NULL THEN UNCHANGED <<ptr, size, written, mem>>
             ELSE Holds(c, r.p, n, Stamped(NULL, n), 0)
    /\ UNCHANGED misplaced

Malloc(c, n) == Allocates(c, n, "global", slab_alloc_hook(n))

SlabAlloc(c, n) == slab.local # NULL /\ Allocates(c, n, "local", otlp_slab_alloc("local", n))

\* The client fills its block.
Write(c) ==
    /\ ptr[c] # NULL /\ written[c] < size[c]
    /\ Holds(c, ptr[c], size[c], Stamped(c, size[c]), size[c])
    /\ UNCHANGED <<slab, via, misplaced, calls>>

\* otlp_free, and realloc to size 0, through the hook: what is not in the
\* arena goes to Prev.
Free(c) ==
    /\ ptr[c] # NULL /\ via[c] = "global"
    /\ slab' = [slab EXCEPT !.global = slab_free_hook(ptr[c], @)]
    /\ misplaced' = misplaced \cup ({ptr[c].area} \ {"global", Prev})
    /\ Drop(c)
    /\ UNCHANGED <<via, calls>>

\* The caller's own slab: what is not in its arena goes to libc.
SlabFreePtr(c) ==
    /\ ptr[c] # NULL /\ via[c] = "local"
    /\ slab' = [slab EXCEPT !.local = otlp_slab_free_ptr(ptr[c], @)]
    /\ misplaced' = misplaced \cup ({ptr[c].area} \ {"local", "libc"})
    /\ Drop(c)
    /\ UNCHANGED <<via, calls>>

Least(a, b) == IF a < b THEN a ELSE b

\* The first lim units of m in a block of n units; the rest holds anything.
Moved(m, lim, n) ==
    [k \in 1..n |-> IF k <= lim /\ k <= Len(m) THEN m[k] ELSE NULL]

\* A pointer into the arena: a new block, the slot copied as far as it fits,
\* the slot given back.
MoveOut(c, n) ==
    \E r \in slab_alloc_hook(n) :
        IF r.p = NULL
        THEN slab' = [slab EXCEPT !.global = r.slab] /\ UNCHANGED <<ptr, size, written, mem>>
        ELSE /\ slab' = [slab EXCEPT !.global = slab_free_hook(ptr[c], r.slab)]
             /\ Holds(c, r.p, n, Moved(mem[ptr[c]], Least(SlotSize, n), n),
                      Least(written[c], n))

\* Any other pointer: realloc of the previous allocator, which keeps the
\* contents or has no memory.
PrevRealloc(c, n) ==
    /\ misplaced' = misplaced \cup ({ptr[c].area} \ {Prev})
    /\ \/ Holds(c, ptr[c], n, Moved(mem[ptr[c]], n, n), Least(written[c], n))
       \/ UNCHANGED <<ptr, size, written, mem>>
    /\ UNCHANGED slab

\* Mutant: pointers into the arena are not told apart.
NeverInArena(c) == FALSE

InArena(c) == slab.global # NULL /\ ptr[c].area = "global"

\* The client grows or shrinks its block.
Realloc(c, n) ==
    /\ ptr[c] # NULL /\ via[c] = "global" /\ n # size[c]
    /\ calls < MaxCalls /\ calls' = calls + 1
    /\ \/ InArena(c) /\ MoveOut(c, n) /\ UNCHANGED misplaced
       \/ ~InArena(c) /\ PrevRealloc(c, n)
    /\ UNCHANGED via

---------------------------------------------------------------------------
(* Slabs come and go *)

\* otlp_install_slab_allocator; the caller's own slab is made before it, so
\* that the memory of both is Prev's.
Install ==
    /\ slab.global = NULL /\ slab' = [slab EXCEPT !.global = NewSlab]
    /\ UNCHANGED <<ptr, size, via, mem, written, misplaced, calls>>

otlp_slab_create ==
    /\ slab = [s \in Slabs |-> NULL] /\ slab' = [slab EXCEPT !.local = NewSlab]
    /\ UNCHANGED <<ptr, size, via, mem, written, misplaced, calls>>

\* otlp_uninstall_slab_allocator and otlp_slab_free.  "Pointers ... must be
\* freed BEFORE calling uninstall ... their slots are invalidated": those in
\* the arena; of the caller's own slab all, which only it can free.
Destroy(which) ==
    /\ slab[which] # NULL /\ slab' = [slab EXCEPT ![which] = NULL]
    /\ \A c \in Clients : ptr[c] # NULL =>
          ptr[c].area # which /\ (which = "local" => via[c] # "local")
    /\ UNCHANGED <<ptr, size, via, mem, written, misplaced, calls>>

Next ==
    \/ Install \/ otlp_slab_create \/ \E w \in Slabs : Destroy(w)
    \/ \E c \in Clients :
          \/ \E n \in Sizes : Malloc(c, n) \/ SlabAlloc(c, n) \/ Realloc(c, n)
          \/ Write(c) \/ Free(c) \/ SlabFreePtr(c)

Spec == Init /\ [][Next]_vars

---------------------------------------------------------------------------
\* Slots held by clients.
Handed(which) == {ptr[c].i : c \in {d \in Clients : ptr[d] # NULL /\ ptr[d].area = which}}

\* Every slot is either on the free stack, once, or marked used and held by
\* exactly one client; in_use and the statistics agree with that, through any
\* sequence of alloc, realloc, free, overflow and failure.
SlabExact ==
    \A which \in Slabs : slab[which] # NULL =>
        LET s == slab[which] IN
        /\ {s.free[k] : k \in DOMAIN s.free} = Slots \ s.used
        /\ Len(s.free) = Cardinality(Slots \ s.used)
        /\ s.used = Handed(which)
        /\ \A c, d \in Clients : ptr[c] # NULL /\ ptr[c] = ptr[d] => c = d
        /\ s.in_use = Cardinality(s.used) /\ s.in_use = s.hits - s.free_hits
        /\ s.allocs = s.hits + s.fallbacks /\ s.frees = s.free_hits + s.free_fallbacks

\* A client finds in its block what it wrote, also after realloc has moved
\* the block between arena and heap; and every block goes back to the allocator
\* it came from, whatever allocator the slab was installed over, but for what
\* an overflowing slab took from libc's malloc over another allocator.
BlocksIntact ==
    /\ misplaced \subseteq {"libc"} \ {Prev}
    /\ \A c \in Clients : ptr[c] # NULL =>
          \A k \in 1..written[c] : mem[ptr[c]][k] = c

\* What slab.c says of the fallback: "libc malloc is always safe", and slab.h of
\* an installed slab: "everything else falls through to the previously-installed
\* allocator".  Refuted over an allocator of the application's: the block from
\* malloc is freed by the application's free.
FallbackSafe == misplaced = {}
=============================================================================
