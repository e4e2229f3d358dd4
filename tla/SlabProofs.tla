----------------------------- MODULE SlabProofs -----------------------------
(***************************************************************************)
(* Proofs about the slab allocator, for any number of clients, any         *)
(* capacity, slot size and sizes of blocks, and both previous allocators.  *)
(***************************************************************************)
EXTENDS Slab, NatRecursion, FiniteSetTheorems

Types ==
  /\ slab \in [Slabs -> SlabStates \cup {NULL}]
  /\ ptr \in [Clients -> Pointers \cup {NULL}]
  /\ size \in [Clients -> Nat] /\ written \in [Clients -> Nat]
  /\ via \in [Clients -> Slabs]

\* No two clients hold the same block.
Distinct == \A c, d \in Clients : ptr[c] # NULL /\ ptr[c] = ptr[d] => c = d

\* The free stack holds every slot that is not marked used, once, and the
\* counters agree with the marks.
StackOK(s) ==
  /\ s \in SlabStates
  /\ \A i \in Slots : i \notin s.used <=> \E k \in 1..Len(s.free) : s.free[k] = i
  /\ \A j, k \in 1..Len(s.free) : s.free[j] = s.free[k] => j = k
  /\ Len(s.free) + s.in_use = Capacity
  /\ s.in_use = Cardinality(s.used)
  /\ s.in_use + s.free_hits = s.hits
  /\ s.allocs = s.hits + s.fallbacks
  /\ s.frees = s.free_hits + s.free_fallbacks

Stacks == \A w \in Slabs : slab[w] # NULL => StackOK(slab[w])

\* The marked slots are those that some client holds.
Marks ==
  \A w \in Slabs : slab[w] # NULL =>
    \A i \in Slots : i \in slab[w].used <=> \E c \in Clients : ptr[c] = Pointer(w, i)

\* A block in an arena lies in a slot of a slab that exists, fits in it, and
\* came through the interface of that slab.
Arenas ==
  \A c \in Clients : ptr[c] # NULL /\ ptr[c].area \in Slabs =>
    /\ slab[ptr[c].area] # NULL /\ ptr[c].i \in Slots
    /\ size[c] <= SlotSize /\ via[c] = ptr[c].area

\* What comes from the caller's own slab is its or libc's, while it exists;
\* what comes through the hooks and is in no arena is Prev's or libc's.
Origins ==
  \A c \in Clients : ptr[c] # NULL =>
    /\ via[c] = "local" => slab["local"] # NULL /\ ptr[c].area \in {"local", "libc"}
    /\ via[c] = "global" => ptr[c].area \in {"global", Prev, "libc"}

\* A block has its size, and begins with what its client wrote.
Contents ==
  \A c \in Clients : ptr[c] # NULL =>
    /\ ptr[c] \in DOMAIN mem
    /\ mem[ptr[c]] \in Seq(Clients \cup {NULL}) /\ Len(mem[ptr[c]]) = size[c]
    /\ written[c] <= size[c]
    /\ \A k \in 1..written[c] : mem[ptr[c]][k] = c

IInv == Types /\ Distinct /\ Stacks /\ Marks /\ Arenas /\ Origins /\ Contents


(***************************************************************************)
(* One slab                                                                *)
(***************************************************************************)
\* Slots is a finite set, and a set of slots has a number.
LEMMA SlotsFinite ==
  /\ IsFiniteSet(Slots) /\ Cardinality(Slots) = Capacity
  /\ \A U \in SUBSET Slots : IsFiniteSet(U) /\ Cardinality(U) \in Nat
<1>1. Capacity \in Nat /\ 1 \in Int /\ Capacity \in Int /\ 1 <= Capacity
  BY SlabAssumption
<1>2. IsFiniteSet(1..Capacity) /\ Cardinality(1..Capacity) = (Capacity - 1) + 1
  BY <1>1, FS_Interval
<1>3. IsFiniteSet(Slots) /\ Cardinality(Slots) = Capacity
  BY <1>1, <1>2 DEF Slots
<1>4. ASSUME NEW U \in SUBSET Slots PROVE IsFiniteSet(U) /\ Cardinality(U) \in Nat
  BY <1>3, FS_Subset, FS_CardinalityType
<1> QED BY <1>3, <1>4

\* A new slab has every slot on its stack: the loop of otlp_slab_create.
LEMMA NewSlabOK == StackOK(NewSlab) /\ NewSlab.used = {}
<1> DEFINE f == [k \in Slots |-> Capacity + 1 - k]
<1>1. Capacity \in Nat
  BY SlabAssumption
<1>2. f \in [1..Capacity -> Slots] /\ DOMAIN f = 1..Capacity
  BY <1>1 DEF Slots
<1>3. f \in Seq(Slots) /\ Len(f) = Capacity
  BY <1>1, <1>2
<1>4. NewSlab = [free |-> f, used |-> {}, in_use |-> 0,
                 hits |-> 0, free_hits |-> 0, allocs |-> 0, frees |-> 0,
                 fallbacks |-> 0, free_fallbacks |-> 0]
  BY DEF NewSlab
<1>5. Cardinality({}) = 0
  BY FS_EmptySet
<1>6. ASSUME NEW i \in Slots PROVE \E k \in 1..Capacity : f[k] = i
  <2>1. (Capacity + 1) - i \in 1..Capacity /\ (Capacity + 1) - i \in Slots
    BY <1>1 DEF Slots
  <2>2. f[(Capacity + 1) - i] = i
    BY <1>1, <2>1 DEF Slots
  <2> QED BY <2>1, <2>2
<1>7. \A j, k \in 1..Capacity : f[j] = f[k] => j = k
  BY <1>1 DEF Slots
<1> HIDE DEF f
<1>8. NewSlab \in SlabStates /\ NewSlab.free = f /\ NewSlab.used = {} /\ NewSlab.in_use = 0
  BY <1>3, <1>4 DEF SlabStates
<1>9. /\ NewSlab.hits = 0 /\ NewSlab.free_hits = 0 /\ NewSlab.allocs = 0
      /\ NewSlab.frees = 0 /\ NewSlab.fallbacks = 0 /\ NewSlab.free_fallbacks = 0
  BY <1>4
<1> QED BY <1>1, <1>3, <1>5, <1>6, <1>7, <1>8, <1>9 DEF StackOK

\* otlp_slab_alloc takes the top of the stack: a slot that was not marked.
LEMMA PopOK ==
  ASSUME NEW s, StackOK(s), s.free # <<>>
  PROVE  LET t == [s EXCEPT !.allocs = @ + 1]
             i == s.free[Len(s.free)]
         IN  /\ i \in Slots \ s.used /\ t.free = s.free
             /\ StackOK(Pop(t)) /\ Pop(t).used = s.used \cup {i}
<1> DEFINE t == [s EXCEPT !.allocs = @ + 1]
<1> DEFINE i == s.free[Len(s.free)]
<1> DEFINE u == Pop(t)
<1>1. s \in SlabStates
  BY DEF StackOK
<1>2. /\ s.free \in Seq(Slots) /\ s.used \subseteq Slots
      /\ s.in_use \in Nat /\ s.hits \in Nat /\ s.free_hits \in Nat
      /\ s.allocs \in Nat /\ s.frees \in Nat /\ s.fallbacks \in Nat /\ s.free_fallbacks \in Nat
  BY <1>1 DEF SlabStates
<1>3. PICK n \in Nat : n = Len(s.free)
  BY <1>2
<1>4. n # 0 /\ n \in 1..n /\ i = s.free[n] /\ i \in Slots
  BY <1>2, <1>3
<1>5. i \notin s.used
  BY <1>3, <1>4 DEF StackOK
<1>6. t \in SlabStates /\ t.free = s.free /\ t.used = s.used /\ t.in_use = s.in_use
  <2>1. s.allocs + 1 \in Nat
    BY <1>2
  <2> QED BY <1>1, <2>1 DEF SlabStates
<1>7. /\ t.hits = s.hits /\ t.free_hits = s.free_hits /\ t.allocs = s.allocs + 1
      /\ t.frees = s.frees /\ t.fallbacks = s.fallbacks /\ t.free_fallbacks = s.free_fallbacks
  BY <1>1, <1>2 DEF SlabStates
<1> HIDE DEF t
<1>8. /\ u.free = SubSeq(s.free, 1, n - 1) /\ u.used = s.used \cup {i}
      /\ u.in_use = s.in_use + 1 /\ u.hits = s.hits + 1
      /\ u.free_hits = s.free_hits /\ u.allocs = s.allocs + 1
      /\ u.frees = s.frees /\ u.fallbacks = s.fallbacks /\ u.free_fallbacks = s.free_fallbacks
  BY <1>3, <1>6, <1>7 DEF Pop, SlabStates
<1>10. /\ SubSeq(s.free, 1, n - 1) \in Seq(Slots) /\ Len(SubSeq(s.free, 1, n - 1)) = n - 1
       /\ \A k \in 1..(n - 1) : SubSeq(s.free, 1, n - 1)[k] = s.free[k]
  BY <1>2, <1>3, <1>4
<1>11. u \in SlabStates
  <2>1. SubSeq(t.free, 1, Len(t.free) - 1) \in Seq(Slots) /\ t.used \cup {t.free[Len(t.free)]} \subseteq Slots
    BY <1>2, <1>3, <1>4, <1>6, <1>10
  <2>2. t.in_use + 1 \in Nat /\ t.hits + 1 \in Nat
    BY <1>2, <1>6, <1>7
  <2> QED BY <1>6, <2>1, <2>2 DEF Pop, SlabStates
<1> HIDE DEF u
<1>12. ASSUME NEW j \in Slots
       PROVE  j \notin u.used <=> \E k \in 1..Len(u.free) : u.free[k] = j
  <2>1. j \notin s.used <=> \E k \in 1..n : s.free[k] = j
    BY <1>3 DEF StackOK
  <2>2. \A k \in 1..(n - 1) : s.free[k] # i
    <3>1. \A k \in 1..n : s.free[k] = s.free[n] => k = n
      BY <1>3, <1>4 DEF StackOK
    <3> QED BY <1>4, <3>1
  <2>3. (\E k \in 1..Len(u.free) : u.free[k] = j) <=> \E k \in 1..(n - 1) : s.free[k] = j
    BY <1>8, <1>10
  <2>4. CASE j = i
    BY <1>8, <2>2, <2>3, <2>4
  <2>5. CASE j # i
    <3>1. (\E k \in 1..n : s.free[k] = j) <=> \E k \in 1..(n - 1) : s.free[k] = j
      BY <1>4, <2>5
    <3> QED BY <1>8, <2>1, <2>3, <2>5, <3>1
  <2> QED BY <2>4, <2>5
<1>13. \A j, k \in 1..Len(u.free) : u.free[j] = u.free[k] => j = k
  <2>1. \A j, k \in 1..n : s.free[j] = s.free[k] => j = k
    BY <1>3 DEF StackOK
  <2> QED BY <1>4, <1>8, <1>10, <2>1
<1>14. Cardinality(u.used) = Cardinality(s.used) + 1
  <2>1. IsFiniteSet(s.used)
    BY <1>2, SlotsFinite
  <2>2. Cardinality(s.used \cup {i}) = Cardinality(s.used) + 1
    <3> HIDE DEF i
    <3> QED BY <1>5, <2>1, FS_AddElement
  <2> QED BY <1>8, <2>2
<1>15. Len(u.free) + u.in_use = Capacity /\ u.in_use = Cardinality(u.used)
  <2>1. n + s.in_use = Capacity /\ s.in_use = Cardinality(s.used) /\ Capacity \in Nat
    BY <1>3, SlabAssumption DEF StackOK
  <2>2. Len(u.free) = n - 1 /\ u.in_use = s.in_use + 1
    BY <1>8, <1>10
  <2> QED BY <1>2, <1>4, <1>14, <2>1, <2>2
<1>16. /\ u.in_use + u.free_hits = u.hits /\ u.allocs = u.hits + u.fallbacks
       /\ u.frees = u.free_hits + u.free_fallbacks
  <2>1. /\ s.in_use + s.free_hits = s.hits /\ s.allocs = s.hits + s.fallbacks
        /\ s.frees = s.free_hits + s.free_fallbacks
    BY DEF StackOK
  <2>2. u.in_use + u.free_hits = u.hits
    <3>1. PICK x \in Nat, y \in Nat, z \in Nat : x = s.in_use /\ y = s.free_hits /\ z = s.hits
      BY <1>2
    <3>2. x + y = z
      BY <2>1, <3>1
    <3>3. (x + 1) + y = z + 1
      BY <3>2
    <3> QED BY <1>8, <3>1, <3>3, Zenon
  <2>3. u.allocs = u.hits + u.fallbacks
    <3>1. PICK x \in Nat, y \in Nat, z \in Nat : x = s.hits /\ y = s.fallbacks /\ z = s.allocs
      BY <1>2
    <3>2. z = x + y
      BY <2>1, <3>1
    <3>3. z + 1 = (x + 1) + y
      BY <3>2
    <3> QED BY <1>8, <3>1, <3>3, Zenon
  <2> QED BY <1>8, <2>1, <2>2, <2>3
<1>17. StackOK(u)
  BY <1>11, <1>12, <1>13, <1>15, <1>16 DEF StackOK
<1> QED BY <1>4, <1>5, <1>6, <1>8, <1>17 DEF t, u

\* A slot that was marked is pushed back.
LEMMA PushOK ==
  ASSUME NEW s, StackOK(s), NEW i \in s.used
  PROVE  StackOK(Push(s, i)) /\ Push(s, i).used = s.used \ {i}
<1> DEFINE u == Push(s, i)
<1>1. s \in SlabStates
  BY DEF StackOK
<1>2. /\ s.free \in Seq(Slots) /\ s.used \subseteq Slots /\ i \in Slots
      /\ s.in_use \in Nat /\ s.hits \in Nat /\ s.free_hits \in Nat
      /\ s.allocs \in Nat /\ s.frees \in Nat /\ s.fallbacks \in Nat /\ s.free_fallbacks \in Nat
  BY <1>1 DEF SlabStates
<1>3. PICK n \in Nat : n = Len(s.free)
  BY <1>2
<1>4. /\ Append(s.free, i) \in Seq(Slots) /\ Len(Append(s.free, i)) = n + 1
      /\ Append(s.free, i)[n + 1] = i
      /\ \A k \in 1..n : Append(s.free, i)[k] = s.free[k]
  BY <1>2, <1>3
<1>5. Cardinality(s.used \ {i}) = Cardinality(s.used) - 1 /\ Cardinality(s.used) \in Nat
      /\ Cardinality(s.used \ {i}) \in Nat
  <2>1. IsFiniteSet(s.used) /\ s.used \ {i} \in SUBSET Slots
    BY <1>2, SlotsFinite
  <2> QED BY <1>2, <2>1, SlotsFinite, FS_RemoveElement
<1>6. s.in_use - 1 \in Nat /\ s.in_use = Cardinality(s.used)
  <2>1. s.in_use = Cardinality(s.used)
    BY DEF StackOK
  <2> QED BY <1>5, <2>1
<1>7. u \in SlabStates
  <2>1. s.used \ {i} \in SUBSET Slots /\ s.frees + 1 \in Nat /\ s.free_hits + 1 \in Nat
    BY <1>2
  <2> QED BY <1>1, <1>4, <1>6, <2>1 DEF Push, SlabStates
<1>8. /\ u.free = Append(s.free, i) /\ u.used = s.used \ {i}
      /\ u.in_use = s.in_use - 1 /\ u.hits = s.hits
      /\ u.free_hits = s.free_hits + 1 /\ u.allocs = s.allocs
      /\ u.frees = s.frees + 1 /\ u.fallbacks = s.fallbacks /\ u.free_fallbacks = s.free_fallbacks
  BY <1>1 DEF Push, SlabStates
<1> HIDE DEF u
<1>9. \A k \in 1..n : s.free[k] # i
  BY <1>2, <1>3 DEF StackOK
<1>10. ASSUME NEW j \in Slots
       PROVE  j \notin u.used <=> \E k \in 1..Len(u.free) : u.free[k] = j
  <2>1. j \notin s.used <=> \E k \in 1..n : s.free[k] = j
    BY <1>3 DEF StackOK
  <2>2. (\E k \in 1..Len(u.free) : u.free[k] = j) <=> \E k \in 1..(n + 1) : Append(s.free, i)[k] = j
    BY <1>4, <1>8
  <2>3. (\E k \in 1..(n + 1) : Append(s.free, i)[k] = j) <=> j = i \/ \E k \in 1..n : s.free[k] = j
    BY <1>4
  <2> QED BY <1>8, <2>1, <2>2, <2>3
<1>11. ASSUME NEW j \in 1..(n + 1), NEW k \in 1..(n + 1),
              Append(s.free, i)[j] = Append(s.free, i)[k]
       PROVE  j = k
  <2>1. \A p, q \in 1..n : s.free[p] = s.free[q] => p = q
    BY <1>3 DEF StackOK
  <2> QED BY <1>4, <1>9, <1>11, <2>1
<1>12. \A j, k \in 1..Len(u.free) : u.free[j] = u.free[k] => j = k
  BY <1>4, <1>8, <1>11
<1>13. Len(u.free) + u.in_use = Capacity /\ u.in_use = Cardinality(u.used)
  <2>1. n + s.in_use = Capacity /\ Capacity \in Nat
    BY <1>3, SlabAssumption DEF StackOK
  <2>2. Len(u.free) = n + 1 /\ u.in_use = s.in_use - 1
    BY <1>4, <1>8
  <2>3. (n + 1) + (s.in_use - 1) = Capacity
    <3>1. \A x \in Nat : (n + 1) + (x - 1) = n + x
      OBVIOUS
    <3> QED BY <1>2, <2>1, <3>1, Zenon
  <2>4. s.in_use - 1 = Cardinality(s.used \ {i})
    BY <1>5, <1>6
  <2> QED BY <1>8, <2>2, <2>3, <2>4, Zenon
<1>14. /\ u.in_use + u.free_hits = u.hits /\ u.allocs = u.hits + u.fallbacks
       /\ u.frees = u.free_hits + u.free_fallbacks
  <2>1. /\ s.in_use + s.free_hits = s.hits /\ s.allocs = s.hits + s.fallbacks
        /\ s.frees = s.free_hits + s.free_fallbacks
    BY DEF StackOK
  <2>2. (s.in_use - 1) + (s.free_hits + 1) = s.hits
    <3>1. \A x, y \in Nat : (x - 1) + (y + 1) = x + y
      OBVIOUS
    <3> QED BY <1>2, <2>1, <3>1, Zenon
  <2>3. s.frees + 1 = (s.free_hits + 1) + s.free_fallbacks
    <3>1. PICK x \in Nat, y \in Nat, z \in Nat : x = s.free_hits /\ y = s.free_fallbacks /\ z = s.frees
      BY <1>2
    <3>2. z = x + y
      BY <2>1, <3>1
    <3>3. z + 1 = (x + 1) + y
      BY <3>2
    <3> QED BY <3>1, <3>3, Zenon
  <2> QED BY <1>8, <2>1, <2>2, <2>3, Zenon
<1>15. StackOK(u)
  BY <1>7, <1>10, <1>12, <1>13, <1>14 DEF StackOK
<1> QED BY <1>8, <1>15 DEF u

\* A call that goes to malloc or to free is counted and leaves the slots alone.
LEMMA CountOK ==
  ASSUME NEW s, StackOK(s)
  PROVE  LET a == [[s EXCEPT !.allocs = @ + 1] EXCEPT !.fallbacks = @ + 1]
             f == [s EXCEPT !.frees = @ + 1, !.free_fallbacks = @ + 1]
         IN  /\ StackOK(a) /\ a.used = s.used
             /\ StackOK(f) /\ f.used = s.used
<1> DEFINE a == [[s EXCEPT !.allocs = @ + 1] EXCEPT !.fallbacks = @ + 1]
<1> DEFINE f == [s EXCEPT !.frees = @ + 1, !.free_fallbacks = @ + 1]
<1>1. s \in SlabStates
  BY DEF StackOK
<1>2. /\ s.hits \in Nat /\ s.free_hits \in Nat
      /\ s.allocs \in Nat /\ s.frees \in Nat /\ s.fallbacks \in Nat /\ s.free_fallbacks \in Nat
  BY <1>1 DEF SlabStates
<1>3. /\ s.allocs = s.hits + s.fallbacks /\ s.frees = s.free_hits + s.free_fallbacks
      /\ s.in_use + s.free_hits = s.hits
  BY DEF StackOK
<1>4. StackOK(a) /\ a.used = s.used
  <2> DEFINE t == [s EXCEPT !.allocs = @ + 1]
  <2>0. t \in SlabStates /\ t.fallbacks = s.fallbacks
    <3>1. s.allocs + 1 \in Nat
      BY <1>2
    <3> QED BY <1>1, <3>1 DEF SlabStates
  <2>1. a \in SlabStates
    <3>1. t.fallbacks + 1 \in Nat
      BY <1>2, <2>0
    <3> HIDE DEF t
    <3>2. [t EXCEPT !.fallbacks = @ + 1] \in SlabStates
      BY <2>0, <3>1 DEF SlabStates
    <3> QED BY <3>2 DEF t
  <2>2. /\ a.free = s.free /\ a.used = s.used /\ a.in_use = s.in_use /\ a.hits = s.hits
        /\ a.free_hits = s.free_hits /\ a.allocs = s.allocs + 1 /\ a.frees = s.frees
        /\ a.fallbacks = s.fallbacks + 1 /\ a.free_fallbacks = s.free_fallbacks
    BY <1>1 DEF SlabStates
  <2> HIDE DEF a
  <2>3. s.allocs + 1 = s.hits + (s.fallbacks + 1)
    BY <1>2, <1>3
  <2>4. a.allocs = a.hits + a.fallbacks
    BY <2>2, <2>3, Zenon
  <2> QED BY <1>3, <2>1, <2>2, <2>4 DEF StackOK
<1>5. StackOK(f) /\ f.used = s.used
  <2>1. f \in SlabStates
    <3>1. s.frees + 1 \in Nat /\ s.free_fallbacks + 1 \in Nat
      BY <1>2
    <3> QED BY <1>1, <3>1 DEF SlabStates
  <2>2. /\ f.free = s.free /\ f.used = s.used /\ f.in_use = s.in_use /\ f.hits = s.hits
        /\ f.free_hits = s.free_hits /\ f.allocs = s.allocs /\ f.frees = s.frees + 1
        /\ f.fallbacks = s.fallbacks /\ f.free_fallbacks = s.free_fallbacks + 1
    BY <1>1 DEF SlabStates
  <2> HIDE DEF f
  <2>3. s.frees + 1 = s.free_hits + (s.free_fallbacks + 1)
    BY <1>2, <1>3
  <2>4. f.frees = f.free_hits + f.free_fallbacks
    BY <2>2, <2>3, Zenon
  <2> QED BY <1>3, <2>1, <2>2, <2>4 DEF StackOK
<1> QED BY <1>4, <1>5

(***************************************************************************)
(* What an allocation gives                                                *)
(***************************************************************************)
\* A heap always has a place that no client holds.
LEMMA FreshIsFree ==
  ASSUME Types, NEW heap \in Areas
  PROVE  \E i \in Nat : /\ Fresh(heap) = Pointer(heap, i)
                        /\ \A c \in Clients : ptr[c] # Pointer(heap, i)
<1> DEFINE N == Cardinality(Clients)
<1> DEFINE F == {i \in 1..N + 1 : \A c \in Clients : ptr[c] # Pointer(heap, i)}
<1>1. IsFiniteSet(Clients) /\ N \in Nat
  BY SlabAssumption, FS_CardinalityType
<1>2. F # {}
  <2> SUFFICES ASSUME F = {} PROVE FALSE
    OBVIOUS
  <2> DEFINE holder == [i \in 1..N + 1 |-> CHOOSE c \in Clients : ptr[c] = Pointer(heap, i)]
  <2>1. ASSUME NEW i \in 1..N + 1
        PROVE  holder[i] \in Clients /\ ptr[holder[i]] = Pointer(heap, i)
    <3>1. \E c \in Clients : ptr[c] = Pointer(heap, i)
      OBVIOUS
    <3> QED BY <3>1
  <2>2. holder \in [1..N + 1 -> Clients]
    BY <2>1
  <2>3. \A i, j \in 1..N + 1 : i # j => holder[i] # holder[j]
    BY <2>1 DEF Pointer
  <2>4. IsFiniteSet(1..N + 1) /\ Cardinality(1..N + 1) = N + 1
    <3>1. IsFiniteSet(1..N + 1) /\ Cardinality(1..N + 1) = IF 1 > N + 1 THEN 0 ELSE (N + 1) - 1 + 1
      BY <1>1, FS_Interval
    <3> QED BY <1>1, <3>1
  <2>5. Cardinality(1..N + 1) > Cardinality(Clients)
    BY <1>1, <2>4
  <2> HIDE DEF holder, N
  <2>6. \E x, y \in 1..N + 1 : x # y /\ holder[x] = holder[y]
    BY <1>1, <2>2, <2>4, <2>5, FS_PigeonHole
  <2> QED BY <2>3, <2>6
<1>3. F \subseteq Nat
  BY <1>1
<1>4. \E m \in F : \A k \in F : m <= k
  <2> HIDE DEF F
  <2> QED BY <1>2, <1>3, LeastElement
<1> DEFINE m == CHOOSE i \in F : \A j \in F : i <= j
<1>5. m \in F
  BY <1>4
<1>6. Fresh(heap) = Pointer(heap, m)
  BY DEF Fresh
<1> HIDE DEF m
<1> QED BY <1>3, <1>5, <1>6

\* The slab after a call that took no slot.
SameSlots(s, t) == IF s = NULL THEN t = NULL ELSE StackOK(t) /\ t.used = s.used

\* An allocation of n units from slab `which` gives nothing, a block of a heap
\* that nobody holds, or a slot that was not marked.
GivesNothing(r, which) == r.p = NULL /\ SameSlots(slab[which], r.slab)
GivesHeap(r, which, heaps) ==
  /\ SameSlots(slab[which], r.slab)
  /\ \E h \in heaps, i \in Nat : /\ r.p = Pointer(h, i)
                                 /\ \A c \in Clients : ptr[c] # Pointer(h, i)
GivesSlot(r, which, n) ==
  /\ slab[which] # NULL /\ n <= SlotSize
  /\ \E i \in Slots \ slab[which].used :
        /\ r.p = Pointer(which, i)
        /\ StackOK(r.slab) /\ r.slab.used = slab[which].used \cup {i}
Outcome(r, which, heaps, n) ==
  GivesNothing(r, which) \/ GivesHeap(r, which, heaps) \/ GivesSlot(r, which, n)

\* Slabs and pointers are not NULL.
LEMMA NotNull ==
  /\ \A s : StackOK(s) => s # NULL
  /\ \A a \in Areas, i \in Nat : Pointer(a, i) \in Pointers /\ Pointer(a, i) # NULL
BY NullAssumption DEF StackOK, Pointers, Pointer

\* What a heap gives.
LEMMA HeapOutcome ==
  ASSUME Types, NEW which \in Slabs, NEW heap \in {"libc", "custom"}, NEW n, NEW t,
         SameSlots(slab[which], t), NEW r \in HeapGets(heap, t)
  PROVE  Outcome(r, which, {heap}, n)
<1>1. CASE r = Gets(NULL, t)
  BY <1>1 DEF Gets, Outcome, GivesNothing
<1>2. CASE r = Gets(Fresh(heap), t)
  <2>1. heap \in Areas
    BY DEF Areas
  <2>2. PICK i \in Nat : /\ Fresh(heap) = Pointer(heap, i)
                         /\ \A c \in Clients : ptr[c] # Pointer(heap, i)
    BY <2>1, FreshIsFree
  <2>3. r.p = Pointer(heap, i) /\ r.slab = t
    BY <1>2, <2>2 DEF Gets
  <2> QED BY <2>2, <2>3 DEF Outcome, GivesHeap
<1> QED BY <1>1, <1>2 DEF HeapGets

\* What otlp_slab_alloc gives: a slot, or a block of malloc.
LEMMA SlabOutcome ==
  ASSUME Types, Stacks, NEW which \in Slabs, slab[which] # NULL, NEW n \in Nat,
         NEW r \in otlp_slab_alloc(which, n)
  PROVE  Outcome(r, which, {"libc"}, n)
<1> DEFINE s == slab[which]
<1> DEFINE t == [s EXCEPT !.allocs = @ + 1]
<1> DEFINE i == s.free[Len(s.free)]
<1>1. StackOK(s)
  BY DEF Stacks
<1>2. t.free = s.free
  BY <1>1 DEF StackOK, SlabStates
<1>3. CASE n <= SlotSize /\ t.free # <<>>
  <2>1. s.free # <<>>
    BY <1>2, <1>3
  <2>2. i \in Slots \ s.used /\ StackOK(Pop(t)) /\ Pop(t).used = s.used \cup {i}
    <3> HIDE DEF s
    <3> QED BY <1>1, <2>1, PopOK
  <2>3. r = Gets(Pointer(which, t.free[Len(t.free)]), Pop(t))
    BY <1>3 DEF otlp_slab_alloc
  <2> HIDE DEF t
  <2>4. r.p = Pointer(which, i) /\ r.slab = Pop(t)
    BY <1>2, <2>3 DEF Gets
  <2> HIDE DEF i
  <2>5. GivesSlot(r, which, n)
    BY <1>3, <2>2, <2>4 DEF GivesSlot
  <2> QED BY <2>5 DEF Outcome
<1>4. CASE ~ (n <= SlotSize /\ t.free # <<>>)
  <2> DEFINE a == [t EXCEPT !.fallbacks = @ + 1]
  <2>1. r \in HeapGets("libc", a)
    BY <1>4 DEF otlp_slab_alloc
  <2>2. StackOK(a) /\ a.used = s.used
    <3> HIDE DEF s
    <3> QED BY <1>1, CountOK
  <2> HIDE DEF a
  <2>3. SameSlots(slab[which], a)
    BY <2>2 DEF SameSlots
  <2> QED BY <2>1, <2>3, HeapOutcome
<1> QED BY <1>3, <1>4

\* What slab_alloc_hook gives: a slot, or a block of Prev or of malloc.
LEMMA HookOutcome ==
  ASSUME Types, Stacks, NEW n \in Nat, NEW r \in slab_alloc_hook(n)
  PROVE  Outcome(r, "global", {Prev, "libc"}, n)
<1>0. "global" \in Slabs /\ slab.global = slab["global"] /\ Prev \in {"libc", "custom"}
  BY SlabAssumption DEF Slabs
<1>1. CASE slab.global = NULL \/ n > SlotSize
  <2>1. r \in HeapGets(Prev, slab["global"])
    BY <1>0, <1>1 DEF slab_alloc_hook
  <2>2. SameSlots(slab["global"], slab["global"])
    BY <1>0 DEF SameSlots, Stacks
  <2>3. Outcome(r, "global", {Prev}, n)
    BY <1>0, <2>1, <2>2, HeapOutcome
  <2> QED BY <2>3 DEF Outcome, GivesHeap
<1>2. CASE ~ (slab.global = NULL \/ n > SlotSize)
  <2>1. r \in otlp_slab_alloc("global", n) /\ slab["global"] # NULL
    BY <1>0, <1>2 DEF slab_alloc_hook
  <2>2. Outcome(r, "global", {"libc"}, n)
    BY <1>0, <2>1, SlabOutcome
  <2> QED BY <2>2 DEF Outcome, GivesHeap
<1> QED BY <1>1, <1>2

(***************************************************************************)
(* What a step does to the slots and to the blocks                         *)
(***************************************************************************)
\* Slab w becomes s2 and client c holds p, of n units, through slab v; s2 marks
\* what was marked, without the slot of c's old block and with that of its new
\* one.
MarksExchanged(c, w, s2, p) ==
  /\ IF slab[w] = NULL THEN s2 = NULL ELSE StackOK(s2)
  /\ slab[w] # NULL =>
       \A i \in Slots : i \in s2.used <=> \/ p = Pointer(w, i)
                                          \/ i \in slab[w].used /\ ptr[c] # Pointer(w, i)
  /\ \A u \in Slabs \ {w} : \A i \in Slots : p # Pointer(u, i) /\ ptr[c] # Pointer(u, i)
MayHold(c, p, n, v) ==
  p # NULL =>
    /\ \A d \in Clients \ {c} : ptr[d] # p
    /\ p.area \in Slabs =>
         slab[p.area] # NULL /\ p.i \in Slots /\ n <= SlotSize /\ v = p.area
    /\ v = "local" => slab["local"] # NULL /\ p.area \in {"local", "libc"}
    /\ v = "global" => p.area \in {"global", Prev, "libc"}
Exchanged(c, w, s2, p, n, v) ==
  /\ slab' = [slab EXCEPT ![w] = s2] /\ ptr' = [ptr EXCEPT ![c] = p]
  /\ size' = [size EXCEPT ![c] = n] /\ via' = [via EXCEPT ![c] = v]

\* What the invariant says of slots and pointers.
SlotsInv ==
  /\ slab \in [Slabs -> SlabStates \cup {NULL}] /\ ptr \in [Clients -> Pointers \cup {NULL}]
  /\ size \in [Clients -> Nat] /\ via \in [Clients -> Slabs]
  /\ Distinct /\ Stacks /\ Marks /\ Arenas /\ Origins

\* Such an exchange keeps the slots of both slabs exact.
LEMMA SlotsKept ==
  ASSUME IInv, NEW c \in Clients, NEW w \in Slabs, NEW s2, NEW p \in Pointers \cup {NULL},
         NEW n \in Nat, NEW v \in Slabs,
         MarksExchanged(c, w, s2, p), MayHold(c, p, n, v), Exchanged(c, w, s2, p, n, v)
  PROVE  SlotsInv'
<1> USE DEF MarksExchanged, MayHold, Exchanged
<1>0. Types /\ Distinct /\ Stacks /\ Marks /\ Arenas /\ Origins
  BY DEF IInv
<1>1. /\ slab \in [Slabs -> SlabStates \cup {NULL}] /\ ptr \in [Clients -> Pointers \cup {NULL}]
      /\ size \in [Clients -> Nat] /\ via \in [Clients -> Slabs]
  BY <1>0 DEF Types
<1>2. s2 \in SlabStates \cup {NULL} /\ (s2 = NULL <=> slab[w] = NULL)
  BY NotNull DEF StackOK
<1>3. /\ slab' \in [Slabs -> SlabStates \cup {NULL}] /\ ptr' \in [Clients -> Pointers \cup {NULL}]
      /\ size' \in [Clients -> Nat] /\ via' \in [Clients -> Slabs]
  BY <1>1, <1>2
<1>4. /\ ptr'[c] = p /\ size'[c] = n /\ via'[c] = v
      /\ \A d \in Clients \ {c} : ptr'[d] = ptr[d] /\ size'[d] = size[d] /\ via'[d] = via[d]
  BY <1>1
<1>5. slab'[w] = s2 /\ \A u \in Slabs \ {w} : slab'[u] = slab[u]
  BY <1>1
<1>6. \A u \in Slabs : slab'[u] = NULL <=> slab[u] = NULL
  BY <1>2, <1>5
<1>7. Distinct'
  BY <1>0, <1>4 DEF Distinct
<1>8. Stacks'
  BY <1>0, <1>2, <1>5 DEF Stacks
<1>9. ASSUME NEW u \in Slabs, NEW i \in Slots
      PROVE  (\E d \in Clients : ptr'[d] = Pointer(u, i))
                <=> p = Pointer(u, i)
                    \/ (ptr[c] # Pointer(u, i) /\ \E d \in Clients : ptr[d] = Pointer(u, i))
  <2>1. Pointer(u, i) # NULL
    BY NotNull, SlabAssumption DEF Areas, Slots
  <2>2. \A d, e \in Clients : ptr[d] = Pointer(u, i) /\ ptr[e] = Pointer(u, i) => d = e
    BY <1>0, <2>1 DEF Distinct
  <2> QED BY <1>4, <2>2
<1>10. ASSUME NEW u \in Slabs, slab'[u] # NULL, NEW i \in Slots
       PROVE  i \in slab'[u].used <=> \E d \in Clients : ptr'[d] = Pointer(u, i)
  <2>1. i \in slab[u].used <=> \E d \in Clients : ptr[d] = Pointer(u, i)
    BY <1>0, <1>6, <1>10 DEF Marks
  <2>2. CASE u = w
    BY <1>5, <1>6, <1>9, <1>10, <2>1, <2>2
  <2>3. CASE u # w
    BY <1>5, <1>9, <2>1, <2>3
  <2> QED BY <2>2, <2>3
<1>11. Marks'
  BY <1>10 DEF Marks
<1>12. Arenas'
  <2> SUFFICES ASSUME NEW d \in Clients, ptr'[d] # NULL, ptr'[d].area \in Slabs
               PROVE  /\ slab'[ptr'[d].area] # NULL /\ ptr'[d].i \in Slots
                      /\ size'[d] <= SlotSize /\ via'[d] = ptr'[d].area
    BY DEF Arenas
  <2>1. CASE d = c
    BY <1>4, <1>6, <2>1
  <2>2. CASE d # c
    BY <1>0, <1>4, <1>6, <2>2 DEF Arenas
  <2> QED BY <2>1, <2>2
<1>13. Origins'
  <2> SUFFICES ASSUME NEW d \in Clients, ptr'[d] # NULL
               PROVE  /\ via'[d] = "local" => slab'["local"] # NULL /\ ptr'[d].area \in {"local", "libc"}
                      /\ via'[d] = "global" => ptr'[d].area \in {"global", Prev, "libc"}
    BY DEF Origins
  <2>0. "local" \in Slabs
    BY DEF Slabs
  <2>1. CASE d = c
    BY <1>4, <1>6, <2>0, <2>1
  <2>2. CASE d # c
    BY <1>0, <1>4, <1>6, <2>0, <2>2 DEF Origins
  <2> QED BY <2>1, <2>2
<1> QED BY <1>3, <1>7, <1>8, <1>11, <1>12, <1>13 DEF SlotsInv

\* Client c holds p with contents that begin with what it wrote; the blocks of
\* the others are untouched.
LEMMA HoldsKeeps ==
  ASSUME IInv, NEW c \in Clients, NEW p \in Pointers, NEW n \in Nat, NEW w \in Nat, NEW m,
         \A d \in Clients \ {c} : ptr[d] # p, w <= n,
         m \in Seq(Clients \cup {NULL}), Len(m) = n, \A k \in 1..w : m[k] = c,
         Holds(c, p, n, m, w)
  PROVE  written' \in [Clients -> Nat] /\ Contents'
<1>0. Types /\ Distinct /\ Contents
  BY DEF IInv
<1>1. /\ ptr \in [Clients -> Pointers \cup {NULL}]
      /\ size \in [Clients -> Nat] /\ written \in [Clients -> Nat]
  BY <1>0 DEF Types
<1>2. /\ ptr'[c] = p /\ size'[c] = n /\ written'[c] = w
      /\ \A d \in Clients \ {c} : ptr'[d] = ptr[d] /\ size'[d] = size[d] /\ written'[d] = written[d]
      /\ written' \in [Clients -> Nat]
  BY <1>1 DEF Holds
<1>3. mem' = [q \in (DOMAIN mem \ {ptr[c]}) \cup {p} |-> IF q = p THEN m ELSE mem[q]]
  BY DEF Holds
<1>4. /\ p \in DOMAIN mem' /\ mem'[p] = m
      /\ \A q \in DOMAIN mem : q # p /\ q # ptr[c] => q \in DOMAIN mem' /\ mem'[q] = mem[q]
  BY <1>3
<1>5. ASSUME NEW d \in Clients, ptr'[d] # NULL
      PROVE  /\ ptr'[d] \in DOMAIN mem'
             /\ mem'[ptr'[d]] \in Seq(Clients \cup {NULL}) /\ Len(mem'[ptr'[d]]) = size'[d]
             /\ written'[d] <= size'[d]
             /\ \A k \in 1..written'[d] : mem'[ptr'[d]][k] = d
  <2>1. CASE d = c
    BY <1>2, <1>4, <2>1
  <2>2. CASE d # c
    <3>1. ptr'[d] = ptr[d] /\ size'[d] = size[d] /\ written'[d] = written[d]
      BY <1>2, <2>2
    <3>2. ptr[d] # p /\ ptr[d] # ptr[c]
      BY <1>0, <1>5, <2>2, <3>1 DEF Distinct
    <3>3. /\ ptr[d] \in DOMAIN mem
          /\ mem[ptr[d]] \in Seq(Clients \cup {NULL}) /\ Len(mem[ptr[d]]) = size[d]
          /\ written[d] <= size[d]
          /\ \A k \in 1..written[d] : mem[ptr[d]][k] = d
      BY <1>0, <1>5, <3>1 DEF Contents
    <3>4. ptr[d] \in DOMAIN mem' /\ mem'[ptr[d]] = mem[ptr[d]]
      BY <1>4, <3>2, <3>3
    <3> QED BY <3>1, <3>3, <3>4
  <2> QED BY <2>1, <2>2
<1> QED BY <1>2, <1>5 DEF Contents

\* The block of c is gone; those of the others are untouched.
LEMMA DropKeeps ==
  ASSUME IInv, NEW c \in Clients, Drop(c)
  PROVE  written' \in [Clients -> Nat] /\ Contents'
<1>0. Types /\ Distinct /\ Contents
  BY DEF IInv
<1>1. /\ ptr \in [Clients -> Pointers \cup {NULL}]
      /\ size \in [Clients -> Nat] /\ written \in [Clients -> Nat]
  BY <1>0 DEF Types
<1>2. /\ ptr'[c] = NULL
      /\ \A d \in Clients \ {c} : ptr'[d] = ptr[d] /\ size'[d] = size[d] /\ written'[d] = written[d]
      /\ written' \in [Clients -> Nat]
  BY <1>1 DEF Drop
<1>3. \A q \in DOMAIN mem : q # ptr[c] => q \in DOMAIN mem' /\ mem'[q] = mem[q]
  BY DEF Drop
<1>4. ASSUME NEW d \in Clients, ptr'[d] # NULL
      PROVE  /\ ptr'[d] \in DOMAIN mem'
             /\ mem'[ptr'[d]] \in Seq(Clients \cup {NULL}) /\ Len(mem'[ptr'[d]]) = size'[d]
             /\ written'[d] <= size'[d]
             /\ \A k \in 1..written'[d] : mem'[ptr'[d]][k] = d
  <2>1. d # c /\ ptr'[d] = ptr[d] /\ size'[d] = size[d] /\ written'[d] = written[d]
    BY <1>2, <1>4
  <2>2. ptr[d] # ptr[c]
    BY <1>0, <1>4, <2>1 DEF Distinct
  <2>3. /\ ptr[d] \in DOMAIN mem
        /\ mem[ptr[d]] \in Seq(Clients \cup {NULL}) /\ Len(mem[ptr[d]]) = size[d]
        /\ written[d] <= size[d]
        /\ \A k \in 1..written[d] : mem[ptr[d]][k] = d
    BY <1>0, <1>4, <2>1 DEF Contents
  <2> QED BY <1>3, <2>1, <2>2, <2>3
<1> QED BY <1>2, <1>4 DEF Contents

(***************************************************************************)
(* The steps                                                               *)
(***************************************************************************)
\* A pointer is its area and its place.
LEMMA PointerShape ==
  /\ \A p \in Pointers : p = Pointer(p.area, p.i) /\ p.area \in Areas /\ p.i \in Nat
  /\ \A a, b, i, j : Pointer(a, i) = Pointer(b, j) <=> a = b /\ i = j
  /\ \A a, i : Pointer(a, i).area = a /\ Pointer(a, i).i = i
BY DEF Pointers, Pointer

\* At the start no slab exists and nobody holds anything.
LEMMA InitOK == Init => IInv
<1> SUFFICES ASSUME Init PROVE IInv
  OBVIOUS
<1>1. Types
  BY DEF Init, Types, Slabs
<1>2. \A c \in Clients : ptr[c] = NULL
  BY DEF Init
<1>3. \A w \in Slabs : slab[w] = NULL
  BY DEF Init
<1> QED BY <1>1, <1>2, <1>3 DEF IInv, Distinct, Stacks, Marks, Arenas, Origins, Contents

\* A client that holds nothing gets a block, or none.
LEMMA AllocatesKeeps ==
  ASSUME IInv, NEW c \in Clients, NEW n \in Nat, NEW which \in Slabs, NEW outcomes,
         Allocates(c, n, which, outcomes),
         which = "local" => slab["local"] # NULL,
         \A r \in outcomes :
           Outcome(r, which, IF which = "local" THEN {"libc"} ELSE {Prev, "libc"}, n)
  PROVE  IInv'
<1> DEFINE heaps == IF which = "local" THEN {"libc"} ELSE {Prev, "libc"}
<1>0. Types /\ Distinct /\ Stacks /\ Marks /\ Arenas /\ Origins /\ Contents
  BY DEF IInv
<1>1. /\ slab \in [Slabs -> SlabStates \cup {NULL}] /\ ptr \in [Clients -> Pointers \cup {NULL}]
      /\ size \in [Clients -> Nat] /\ via \in [Clients -> Slabs] /\ written \in [Clients -> Nat]
  BY <1>0 DEF Types
<1>2. PICK r \in outcomes :
        /\ slab' = [slab EXCEPT ![which] = r.slab]
        /\ IF r.p = NULL THEN UNCHANGED <<ptr, size, written, mem>>
           ELSE Holds(c, r.p, n, Stamped(NULL, n), 0)
  BY DEF Allocates
<1>3. ptr[c] = NULL /\ via' = [via EXCEPT ![c] = which]
  BY DEF Allocates
<1>4. Outcome(r, which, heaps, n)
  OBVIOUS
<1>5. \A u \in Slabs, i \in Slots : Pointer(u, i) # NULL
  BY NotNull, SlabAssumption DEF Areas, Slots
<1>6. heaps \subseteq {"libc", "custom"} /\ (which = "local" => heaps = {"libc"})
      /\ (which = "global" => heaps = {Prev, "libc"}) /\ Slabs = {"global", "local"}
  BY SlabAssumption DEF Slabs
<1> HIDE DEF heaps
<1>7. CASE r.p = NULL
  <2>1. SameSlots(slab[which], r.slab)
    <3>1. ~GivesHeap(r, which, heaps)
      BY <1>6, <1>7, NotNull DEF GivesHeap, Areas
    <3>2. ~GivesSlot(r, which, n)
      BY <1>5, <1>7 DEF GivesSlot
    <3> QED BY <1>4, <3>1, <3>2 DEF Outcome, GivesNothing
  <2>2. UNCHANGED <<ptr, size, written, mem>>
    BY <1>2, <1>7
  <2>3. ptr' = [ptr EXCEPT ![c] = NULL] /\ size' = [size EXCEPT ![c] = size[c]] /\ size[c] \in Nat
    BY <1>1, <1>3, <2>2
  <2>4. IF slab[which] = NULL THEN r.slab = NULL ELSE StackOK(r.slab)
    BY <2>1 DEF SameSlots
  <2>5. slab[which] # NULL =>
          \A i \in Slots : i \in r.slab.used <=> \/ NULL = Pointer(which, i)
                                                 \/ i \in slab[which].used /\ ptr[c] # Pointer(which, i)
    BY <1>3, <1>5, <2>1 DEF SameSlots
  <2>6. \A u \in Slabs \ {which} : \A i \in Slots : NULL # Pointer(u, i) /\ ptr[c] # Pointer(u, i)
    BY <1>3, <1>5
  <2>7. SlotsInv'
    <3>1. MarksExchanged(c, which, r.slab, NULL)
      BY <1>2, <1>3, <2>3, <2>4, <2>5, <2>6 DEF MarksExchanged
    <3>2. MayHold(c, NULL, size[c], which)
      BY <1>2, <1>3, <2>3, <2>4, <2>5, <2>6 DEF MayHold
    <3>3. Exchanged(c, which, r.slab, NULL, size[c], which)
      BY <1>2, <1>3, <2>3, <2>4, <2>5, <2>6 DEF Exchanged
    <3> QED BY <1>2, <1>3, <2>3, <2>4, <2>5, <2>6, <3>1, <3>2, <3>3, SlotsKept
  <2>8. Contents' /\ written' \in [Clients -> Nat]
    BY <1>0, <1>1, <2>2 DEF Contents
  <2> QED BY <2>7, <2>8 DEF IInv, Types, SlotsInv
<1>8. CASE r.p # NULL
  <2>1. Holds(c, r.p, n, Stamped(NULL, n), 0)
    BY <1>2, <1>8
  <2>2. ptr' = [ptr EXCEPT ![c] = r.p] /\ size' = [size EXCEPT ![c] = n]
    BY <2>1 DEF Holds
  <2>3. GivesHeap(r, which, heaps) \/ GivesSlot(r, which, n)
    BY <1>4, <1>8 DEF Outcome, GivesNothing
  <2>4. /\ r.p \in Pointers
        /\ \A d \in Clients : ptr[d] # r.p
        /\ IF slab[which] = NULL THEN r.slab = NULL ELSE StackOK(r.slab)
        /\ slab[which] # NULL =>
             \A i \in Slots : i \in r.slab.used <=> \/ r.p = Pointer(which, i)
                                                    \/ i \in slab[which].used /\ ptr[c] # Pointer(which, i)
        /\ \A u \in Slabs \ {which} : \A i \in Slots : r.p # Pointer(u, i) /\ ptr[c] # Pointer(u, i)
        /\ r.p.area \in Slabs =>
             slab[r.p.area] # NULL /\ r.p.i \in Slots /\ n <= SlotSize /\ which = r.p.area
        /\ which = "local" => slab["local"] # NULL /\ r.p.area \in {"local", "libc"}
        /\ which = "global" => r.p.area \in {"global", Prev, "libc"}
    <3>1. CASE GivesHeap(r, which, heaps)
      <4>1. PICK h \in heaps, i \in Nat : r.p = Pointer(h, i) /\ \A d \in Clients : ptr[d] # Pointer(h, i)
        BY <3>1 DEF GivesHeap
      <4>2. SameSlots(slab[which], r.slab)
        BY <3>1 DEF GivesHeap
      <4>3. r.p \in Pointers /\ r.p.area = h /\ h \notin Slabs
        BY <1>6, <4>1, NotNull, PointerShape DEF Areas
      <4>4. \A u \in Slabs, j \in Slots : r.p # Pointer(u, j)
        BY <4>3, PointerShape
      <4>5. IF slab[which] = NULL THEN r.slab = NULL ELSE StackOK(r.slab)
        BY <4>2 DEF SameSlots
      <4>6. slab[which] # NULL => r.slab.used = slab[which].used
        BY <4>2 DEF SameSlots
      <4> QED BY <1>3, <1>5, <1>6, <4>1, <4>3, <4>4, <4>5, <4>6
    <3>2. CASE GivesSlot(r, which, n)
      <4>1. PICK i \in Slots \ slab[which].used :
              /\ r.p = Pointer(which, i)
              /\ StackOK(r.slab) /\ r.slab.used = slab[which].used \cup {i}
        BY <3>2 DEF GivesSlot
      <4>2. slab[which] # NULL /\ n <= SlotSize
        BY <3>2 DEF GivesSlot
      <4>3. \A d \in Clients : ptr[d] # Pointer(which, i)
        BY <1>0, <4>1, <4>2 DEF Marks
      <4>4. r.p \in Pointers /\ r.p.area = which /\ r.p.i = i
        BY <4>1, NotNull, PointerShape, SlabAssumption DEF Areas, Slots
      <4>5. \A u \in Slabs, j \in Slots : r.p = Pointer(u, j) <=> u = which /\ j = i
        BY <4>1, PointerShape
      <4> QED BY <1>3, <1>5, <1>6, <4>1, <4>2, <4>3, <4>4, <4>5
    <3> QED BY <2>3, <3>1, <3>2
  <2>5. SlotsInv'
    <3>1. MarksExchanged(c, which, r.slab, r.p)
      BY <1>2, <1>3, <2>2, <2>4 DEF MarksExchanged
    <3>2. MayHold(c, r.p, n, which)
      BY <1>2, <1>3, <2>2, <2>4 DEF MayHold
    <3>3. Exchanged(c, which, r.slab, r.p, n, which)
      BY <1>2, <1>3, <2>2, <2>4 DEF Exchanged
    <3> QED BY <1>2, <1>3, <2>2, <2>4, <3>1, <3>2, <3>3, SlotsKept
  <2>6. /\ Stamped(NULL, n) \in Seq(Clients \cup {NULL}) /\ Len(Stamped(NULL, n)) = n
        /\ 0 <= n /\ \A k \in 1..0 : Stamped(NULL, n)[k] = c
    BY DEF Stamped
  <2>7. Contents' /\ written' \in [Clients -> Nat]
    BY <2>1, <2>4, <2>6, HoldsKeeps
  <2> QED BY <2>5, <2>7 DEF IInv, Types, SlotsInv
<1> QED BY <1>7, <1>8

\* A client that writes keeps its block.
LEMMA WriteKeeps == ASSUME IInv, NEW c \in Clients, Write(c) PROVE IInv'
<1>0. Types /\ Distinct /\ Stacks /\ Marks /\ Arenas /\ Origins /\ Contents
  BY DEF IInv
<1>1. /\ ptr \in [Clients -> Pointers \cup {NULL}] /\ size \in [Clients -> Nat]
      /\ ptr[c] \in Pointers /\ size[c] \in Nat
  BY <1>0 DEF Types, Write
<1> DEFINE m == Stamped(c, size[c])
<1>2. Holds(c, ptr[c], size[c], m, size[c]) /\ UNCHANGED <<slab, via>>
  BY DEF Write
<1>3. ptr' = ptr /\ size' = size
  BY <1>1, <1>2 DEF Holds
<1>4. \A d \in Clients \ {c} : ptr[d] # ptr[c]
  BY <1>0 DEF Write, Distinct
<1>5. /\ m \in Seq(Clients \cup {NULL}) /\ Len(m) = size[c] /\ size[c] <= size[c]
      /\ \A k \in 1..size[c] : m[k] = c
  BY <1>1 DEF Stamped
<1> HIDE DEF m
<1>6. Contents' /\ written' \in [Clients -> Nat]
  BY <1>1, <1>2, <1>4, <1>5, HoldsKeeps
<1> QED BY <1>0, <1>2, <1>3, <1>6 DEF IInv, Types, Distinct, Stacks, Marks, Arenas, Origins

\* Slab w becomes s2 and c holds nothing any more.
LEMMA FreesKeeps ==
  ASSUME IInv, NEW c \in Clients, NEW w \in Slabs, NEW s2, Drop(c), ptr[c] # NULL, via' = via,
         slab' = [slab EXCEPT ![w] = s2], via[c] = w,
         IF slab[w] = NULL THEN s2 = NULL ELSE StackOK(s2),
         slab[w] # NULL =>
           s2.used = IF ptr[c].area = w THEN slab[w].used \ {ptr[c].i} ELSE slab[w].used
  PROVE  IInv'
<1>0. Types /\ Arenas
  BY DEF IInv
<1>1. /\ ptr \in [Clients -> Pointers \cup {NULL}] /\ size \in [Clients -> Nat]
      /\ via \in [Clients -> Slabs] /\ ptr[c] \in Pointers
  BY <1>0 DEF Types
<1>2. /\ ptr' = [ptr EXCEPT ![c] = NULL] /\ size' = [size EXCEPT ![c] = 0]
      /\ via' = [via EXCEPT ![c] = w]
  BY <1>1 DEF Drop
<1>3. \A u \in Slabs, i \in Slots : Pointer(u, i) # NULL
  BY NotNull, SlabAssumption DEF Areas, Slots
<1>4. \A u \in Slabs, i \in Slots : ptr[c] = Pointer(u, i) <=> ptr[c].area = u /\ ptr[c].i = i
  BY <1>1, PointerShape
<1>5. ptr[c].area \in Slabs => ptr[c].area = w
  BY <1>0 DEF Arenas
<1>6. slab[w] # NULL =>
        \A i \in Slots : i \in s2.used <=> \/ NULL = Pointer(w, i)
                                           \/ i \in slab[w].used /\ ptr[c] # Pointer(w, i)
  BY <1>3, <1>4
<1>7. \A u \in Slabs \ {w} : \A i \in Slots : NULL # Pointer(u, i) /\ ptr[c] # Pointer(u, i)
  BY <1>3, <1>4, <1>5
<1>8. SlotsInv'
  <2>1. MarksExchanged(c, w, s2, NULL)
    BY <1>2, <1>6, <1>7 DEF MarksExchanged
  <2>2. MayHold(c, NULL, 0, w)
    BY <1>2, <1>6, <1>7 DEF MayHold
  <2>3. Exchanged(c, w, s2, NULL, 0, w)
    BY <1>2, <1>6, <1>7 DEF Exchanged
  <2> QED BY <1>2, <1>6, <1>7, <2>1, <2>2, <2>3, SlotsKept
<1>9. Contents' /\ written' \in [Clients -> Nat]
  BY DropKeeps
<1> QED BY <1>8, <1>9 DEF IInv, Types, SlotsInv

\* Free through the hook: a slot is pushed back, any other block is Prev's.
LEMMA FreeKeeps == ASSUME IInv, NEW c \in Clients, Free(c) PROVE IInv'
<1> DEFINE s2 == slab_free_hook(ptr[c], slab["global"])
<1>0. Types /\ Stacks /\ Marks /\ Arenas
  BY DEF IInv
<1>1. "global" \in Slabs /\ slab \in [Slabs -> SlabStates \cup {NULL}]
  BY <1>0 DEF Types, Slabs
<1>2. /\ slab' = [slab EXCEPT !["global"] = s2] /\ ptr[c] # NULL /\ via[c] = "global"
      /\ Drop(c) /\ via' = via
  BY DEF Free
<1>3. ptr[c] \in Pointers
  BY <1>0, <1>2 DEF Types
<1>4. IF slab["global"] = NULL THEN s2 = NULL ELSE StackOK(s2)
  <2>1. CASE slab["global"] = NULL
    BY <2>1 DEF slab_free_hook
  <2>2. CASE slab["global"] # NULL /\ ptr[c].area = "global"
    <3>1. StackOK(slab["global"]) /\ ptr[c].i \in slab["global"].used
      BY <1>0, <1>1, <1>2, <1>3, <2>2, PointerShape DEF Stacks, Marks, Arenas
    <3> QED BY <2>2, <3>1, PushOK DEF slab_free_hook
  <2>3. CASE slab["global"] # NULL /\ ptr[c].area # "global"
    BY <1>0, <1>1, <2>3 DEF slab_free_hook, Stacks
  <2> QED BY <2>1, <2>2, <2>3
<1>5. slab["global"] # NULL =>
        s2.used = IF ptr[c].area = "global" THEN slab["global"].used \ {ptr[c].i} ELSE slab["global"].used
  <2>1. CASE slab["global"] # NULL /\ ptr[c].area = "global"
    <3>1. StackOK(slab["global"]) /\ ptr[c].i \in slab["global"].used
      BY <1>0, <1>1, <1>2, <1>3, <2>1, PointerShape DEF Stacks, Marks, Arenas
    <3> QED BY <2>1, <3>1, PushOK DEF slab_free_hook
  <2>2. CASE ~ (slab["global"] # NULL /\ ptr[c].area = "global")
    BY <2>2 DEF slab_free_hook
  <2> QED BY <2>1, <2>2
<1> HIDE DEF s2
<1> QED BY <1>1, <1>2, <1>4, <1>5, FreesKeeps

\* otlp_slab_free_ptr: a slot is pushed back, any other block is libc's.
LEMMA SlabFreePtrKeeps == ASSUME IInv, NEW c \in Clients, SlabFreePtr(c) PROVE IInv'
<1> DEFINE s == slab["local"]
<1> DEFINE s2 == otlp_slab_free_ptr(ptr[c], s)
<1>0. Types /\ Stacks /\ Marks /\ Arenas /\ Origins
  BY DEF IInv
<1>1. "local" \in Slabs /\ slab \in [Slabs -> SlabStates \cup {NULL}]
  BY <1>0 DEF Types, Slabs
<1>2. /\ slab' = [slab EXCEPT !["local"] = s2] /\ ptr[c] # NULL /\ via[c] = "local"
      /\ Drop(c) /\ via' = via
  BY DEF SlabFreePtr
<1>3. ptr[c] \in Pointers /\ slab["local"] # NULL
  BY <1>0, <1>2 DEF Types, Origins
<1>4. StackOK(s)
  BY <1>0, <1>1, <1>3 DEF Stacks
<1>5. /\ StackOK(s2)
      /\ s2.used = IF ptr[c].area = "local" THEN s.used \ {ptr[c].i} ELSE s.used
  <2>1. CASE ptr[c].area = "local"
    <3>1. ptr[c].i \in s.used
      BY <1>0, <1>1, <1>2, <1>3, <2>1, PointerShape DEF Marks, Arenas
    <3> QED BY <1>4, <2>1, <3>1, PushOK DEF otlp_slab_free_ptr
  <2>2. CASE ptr[c].area # "local"
    <3> HIDE DEF s
    <3> QED BY <1>4, <2>2, CountOK DEF otlp_slab_free_ptr
  <2> QED BY <2>1, <2>2
<1> HIDE DEF s2
<1> QED BY <1>1, <1>2, <1>3, <1>5, FreesKeeps

\* A block of n units of which c wrote the first w.
Block(m, n, w, c) ==
  /\ m \in Seq(Clients \cup {NULL}) /\ Len(m) = n
  /\ w \in Nat /\ w <= n /\ \A k \in 1..w : m[k] = c

\* The part of a block that moves is what its client wrote, as far as it fits.
LEMMA MovedKeeps ==
  ASSUME NEW c \in Clients, NEW m, NEW l \in Nat, NEW n \in Nat, NEW lim \in Nat, NEW w \in Nat,
         Block(m, l, w, c), Least(w, n) <= lim
  PROVE  Block(Moved(m, lim, n), n, Least(w, n), c)
<1>1. m \in Seq(Clients \cup {NULL}) /\ l = Len(m) /\ w <= l /\ \A k \in 1..w : m[k] = c
  BY DEF Block
<1>2. Least(w, n) \in Nat /\ Least(w, n) <= n /\ Least(w, n) <= w
  BY DEF Least
<1>3. ASSUME NEW k \in 1..n
      PROVE  (IF k <= lim /\ k <= Len(m) THEN m[k] ELSE NULL) \in Clients \cup {NULL}
  BY <1>1
<1>4. Moved(m, lim, n) \in Seq(Clients \cup {NULL}) /\ Len(Moved(m, lim, n)) = n
  BY <1>3 DEF Moved
<1>5. ASSUME NEW k \in 1..Least(w, n) PROVE Moved(m, lim, n)[k] = c
  <2>1. k \in 1..n /\ k \in 1..w /\ k <= lim /\ k <= l
    BY <1>1, <1>2
  <2> QED BY <1>1, <2>1 DEF Moved
<1> QED BY <1>2, <1>4, <1>5 DEF Block

\* realloc of a block in the arena: the slot goes back when the new block is
\* there, and only then.
LEMMA MoveOutKeeps ==
  ASSUME IInv, NEW c \in Clients, NEW n \in Nat, ptr[c] # NULL, via[c] = "global", via' = via,
         InArena(c), MoveOut(c, n)
  PROVE  IInv'
<1>0. Types /\ Distinct /\ Stacks /\ Marks /\ Arenas /\ Origins /\ Contents
  BY DEF IInv
<1>1. /\ slab \in [Slabs -> SlabStates \cup {NULL}] /\ ptr \in [Clients -> Pointers \cup {NULL}]
      /\ size \in [Clients -> Nat] /\ via \in [Clients -> Slabs] /\ written \in [Clients -> Nat]
      /\ ptr[c] \in Pointers /\ size[c] \in Nat /\ written[c] \in Nat
  BY <1>0 DEF Types
<1> DEFINE s == slab["global"]
<1> DEFINE b == ptr[c].i
<1>2. "global" \in Slabs /\ s # NULL /\ ptr[c].area = "global" /\ ptr[c] = Pointer("global", b)
  BY <1>1, PointerShape DEF InArena, Slabs
<1>3. b \in Slots /\ b \in s.used /\ StackOK(s) /\ size[c] <= SlotSize
  BY <1>0, <1>2 DEF Arenas, Marks, Stacks
<1>4. PICK r \in slab_alloc_hook(n) :
        IF r.p = NULL
        THEN slab' = [slab EXCEPT !["global"] = r.slab] /\ UNCHANGED <<ptr, size, written, mem>>
        ELSE /\ slab' = [slab EXCEPT !["global"] = slab_free_hook(ptr[c], r.slab)]
             /\ Holds(c, r.p, n, Moved(mem[ptr[c]], Least(SlotSize, n), n), Least(written[c], n))
  BY DEF MoveOut
<1>5. Outcome(r, "global", {Prev, "libc"}, n)
  BY <1>0, HookOutcome
<1>6. \A u \in Slabs, i \in Slots : Pointer(u, i) # NULL
  BY NotNull, SlabAssumption DEF Areas, Slots
<1>7. \A u \in Slabs, i \in Slots : ptr[c] = Pointer(u, i) <=> u = "global" /\ i = b
  BY <1>2, PointerShape
<1>8. via' = [via EXCEPT ![c] = "global"]
  BY <1>1
<1>9. Prev \in {"libc", "custom"}
  BY SlabAssumption
<1> HIDE DEF b
<1>10. CASE r.p = NULL
  <2>1. SameSlots(s, r.slab)
    <3>1. ~GivesHeap(r, "global", {Prev, "libc"})
      BY <1>9, <1>10, NotNull DEF GivesHeap, Areas
    <3>2. ~GivesSlot(r, "global", n)
      BY <1>2, <1>6, <1>10 DEF GivesSlot
    <3> QED BY <1>5, <3>1, <3>2 DEF Outcome, GivesNothing
  <2>2. StackOK(r.slab) /\ r.slab.used = s.used
    BY <1>2, <2>1 DEF SameSlots
  <2>3. slab' = [slab EXCEPT !["global"] = r.slab] /\ UNCHANGED <<ptr, size, written, mem>>
    BY <1>4, <1>10
  <2>4. MarksExchanged(c, "global", r.slab, ptr[c])
    BY <1>2, <1>3, <1>7, <2>2 DEF MarksExchanged
  <2>5. MayHold(c, ptr[c], size[c], "global")
    BY <1>0, <1>1, <1>2, <1>3 DEF MayHold, Distinct, Arenas, Origins
  <2>6. Exchanged(c, "global", r.slab, ptr[c], size[c], "global")
    BY <1>1, <1>8, <2>3 DEF Exchanged
  <2>7. SlotsInv'
    BY <1>1, <1>2, <2>4, <2>5, <2>6, SlotsKept
  <2>8. Contents' /\ written' \in [Clients -> Nat]
    BY <1>0, <1>1, <2>3 DEF Contents
  <2> QED BY <2>7, <2>8 DEF IInv, Types, SlotsInv
<1>11. CASE r.p # NULL
  <2> DEFINE s2 == Push(r.slab, b)
  <2> DEFINE m == mem[ptr[c]]
  <2>1. Holds(c, r.p, n, Moved(m, Least(SlotSize, n), n), Least(written[c], n))
    BY <1>4, <1>11
  <2>2. GivesHeap(r, "global", {Prev, "libc"}) \/ GivesSlot(r, "global", n)
    BY <1>5, <1>11 DEF Outcome, GivesNothing
  <2>3. /\ StackOK(r.slab) /\ b \in r.slab.used /\ r.p \in Pointers
        /\ \A d \in Clients : ptr[d] # r.p
        /\ \A i \in Slots : i \in r.slab.used <=> i \in s.used \/ r.p = Pointer("global", i)
        /\ \A u \in Slabs \ {"global"} : \A i \in Slots : r.p # Pointer(u, i)
        /\ r.p.area \in Slabs => r.p.area = "global" /\ r.p.i \in Slots /\ n <= SlotSize
        /\ r.p.area \in {"global", Prev, "libc"}
    <3>1. CASE GivesHeap(r, "global", {Prev, "libc"})
      <4>1. PICK h \in {Prev, "libc"}, i \in Nat :
              r.p = Pointer(h, i) /\ \A d \in Clients : ptr[d] # Pointer(h, i)
        BY <3>1 DEF GivesHeap
      <4>2. StackOK(r.slab) /\ r.slab.used = s.used
        BY <1>2, <3>1 DEF GivesHeap, SameSlots
      <4>3. r.p \in Pointers /\ r.p.area = h /\ h \notin Slabs
        BY <1>9, <4>1, NotNull, PointerShape DEF Areas, Slabs
      <4>4. \A u \in Slabs, j \in Slots : r.p # Pointer(u, j)
        BY <4>3, PointerShape
      <4> QED BY <1>2, <1>3, <4>1, <4>2, <4>3, <4>4
    <3>2. CASE GivesSlot(r, "global", n)
      <4>1. PICK i \in Slots \ s.used :
              r.p = Pointer("global", i) /\ StackOK(r.slab) /\ r.slab.used = s.used \cup {i}
        BY <3>2 DEF GivesSlot
      <4>2. n <= SlotSize
        BY <3>2 DEF GivesSlot
      <4>3. \A d \in Clients : ptr[d] # Pointer("global", i)
        BY <1>0, <1>2, <4>1 DEF Marks
      <4>4. r.p \in Pointers /\ r.p.area = "global" /\ r.p.i = i
        BY <1>2, <4>1, NotNull, PointerShape, SlabAssumption DEF Areas, Slots
      <4>5. \A u \in Slabs, j \in Slots : r.p = Pointer(u, j) <=> u = "global" /\ j = i
        BY <4>1, PointerShape
      <4>6. b \in r.slab.used /\ \A d \in Clients : ptr[d] # r.p
        BY <1>3, <4>1, <4>3
      <4>7. \A j \in Slots : j \in r.slab.used <=> j \in s.used \/ r.p = Pointer("global", j)
        BY <1>2, <4>1, <4>5
      <4>8. \A u \in Slabs \ {"global"} : \A j \in Slots : r.p # Pointer(u, j)
        BY <4>5
      <4> QED BY <4>1, <4>2, <4>4, <4>6, <4>7, <4>8
    <3> QED BY <2>2, <3>1, <3>2
  <2>4. StackOK(s2) /\ s2.used = r.slab.used \ {b}
    BY <2>3, PushOK
  <2>5. r.slab # NULL
    BY <2>3, NotNull
  <2>6. slab_free_hook(ptr[c], r.slab) = s2
    BY <1>2, <2>5 DEF slab_free_hook, b
  <2> HIDE DEF s2
  <2>7. r.p # Pointer("global", b)
    BY <1>2, <2>3
  <2>8. MarksExchanged(c, "global", s2, r.p)
    BY <1>2, <1>7, <2>3, <2>4, <2>7 DEF MarksExchanged
  <2>9. MayHold(c, r.p, n, "global")
    BY <1>2, <2>3 DEF MayHold
  <2>10. Exchanged(c, "global", s2, r.p, n, "global")
    BY <1>4, <1>8, <1>11, <2>1, <2>6 DEF Exchanged, Holds
  <2>11. SlotsInv'
    BY <1>2, <2>3, <2>8, <2>9, <2>10, SlotsKept
  <2>12. /\ m \in Seq(Clients \cup {NULL}) /\ written[c] <= Len(m) /\ written[c] <= SlotSize
         /\ \A k \in 1..written[c] : m[k] = c
    <3>1. SlotSize \in Nat
      BY SlabAssumption DEF SlotSize, round_up
    <3>2. Len(m) = size[c] /\ written[c] <= size[c]
      BY <1>0 DEF Contents
    <3> QED BY <1>0, <1>1, <1>3, <3>1, <3>2 DEF Contents
  <2>13. Least(SlotSize, n) \in Nat /\ Least(written[c], n) <= Least(SlotSize, n)
    <3>1. SlotSize \in Nat
      BY SlabAssumption DEF SlotSize, round_up
    <3> QED BY <1>1, <2>12, <3>1 DEF Least
  <2> DEFINE x == Moved(m, Least(SlotSize, n), n)
  <2> DEFINE w == Least(written[c], n)
  <2>14. /\ x \in Seq(Clients \cup {NULL}) /\ Len(x) = n /\ w \in Nat /\ w <= n
         /\ \A k \in 1..w : x[k] = c
    <3>1. Block(m, size[c], written[c], c)
      BY <1>0, <1>1 DEF Block, Contents
    <3> HIDE DEF m
    <3>2. Block(x, n, w, c)
      BY <1>1, <2>13, <3>1, MovedKeeps
    <3> QED BY <3>2 DEF Block
  <2>15. Contents' /\ written' \in [Clients -> Nat]
    <3> HIDE DEF x, w
    <3>1. Holds(c, r.p, n, x, w)
      BY <2>1 DEF x, w
    <3> QED BY <2>3, <2>14, <3>1, HoldsKeeps
  <2> QED BY <2>11, <2>15 DEF IInv, Types, SlotsInv
<1> QED BY <1>10, <1>11

\* realloc of any other block, by the previous allocator.
LEMMA PrevReallocKeeps ==
  ASSUME IInv, NEW c \in Clients, NEW n \in Nat, ptr[c] # NULL, via[c] = "global", via' = via,
         ~InArena(c), PrevRealloc(c, n)
  PROVE  IInv'
<1>0. Types /\ Distinct /\ Stacks /\ Marks /\ Arenas /\ Origins /\ Contents
  BY DEF IInv
<1>1. /\ slab \in [Slabs -> SlabStates \cup {NULL}] /\ ptr \in [Clients -> Pointers \cup {NULL}]
      /\ size \in [Clients -> Nat] /\ via \in [Clients -> Slabs] /\ written \in [Clients -> Nat]
      /\ ptr[c] \in Pointers /\ size[c] \in Nat /\ written[c] \in Nat
  BY <1>0 DEF Types
<1>2. slab' = slab
  BY DEF PrevRealloc
<1>3. CASE UNCHANGED <<ptr, size, written, mem>>
  BY <1>0, <1>2, <1>3 DEF IInv, Types, Distinct, Stacks, Marks, Arenas, Origins, Contents
<1> DEFINE m == mem[ptr[c]]
<1>4. CASE Holds(c, ptr[c], n, Moved(m, n, n), Least(written[c], n))
  <2>1. "global" \in Slabs /\ Slabs = {"global", "local"}
    BY DEF Slabs
  <2>2. ptr[c].area \notin Slabs /\ ptr[c].area \in {"global", Prev, "libc"}
    <3>1. ptr[c].area \in {"global", Prev, "libc"} /\ Prev \in {"libc", "custom"}
      BY <1>0, SlabAssumption DEF Origins
    <3>2. ptr[c].area # "global"
      BY <1>0, <2>1 DEF Arenas, InArena
    <3> QED BY <2>1, <3>1, <3>2
  <2>3. \A u \in Slabs, i \in Slots : ptr[c] # Pointer(u, i)
    BY <2>2, PointerShape
  <2>4. MarksExchanged(c, "global", slab["global"], ptr[c])
    BY <1>0, <2>1, <2>3 DEF MarksExchanged, Stacks
  <2>5. MayHold(c, ptr[c], n, "global")
    BY <1>0, <2>2 DEF MayHold, Distinct
  <2>6. Exchanged(c, "global", slab["global"], ptr[c], n, "global")
    BY <1>1, <1>2, <1>4 DEF Exchanged, Holds
  <2>7. SlotsInv'
    BY <1>1, <2>1, <2>4, <2>5, <2>6, SlotsKept
  <2>8. /\ m \in Seq(Clients \cup {NULL}) /\ written[c] <= Len(m)
        /\ \A k \in 1..written[c] : m[k] = c
    BY <1>0 DEF Contents
  <2>9. n \in Nat /\ Least(written[c], n) <= n
    BY <1>1 DEF Least
  <2> DEFINE x == Moved(m, n, n)
  <2> DEFINE w == Least(written[c], n)
  <2>10. /\ x \in Seq(Clients \cup {NULL}) /\ Len(x) = n /\ w \in Nat /\ w <= n
         /\ \A k \in 1..w : x[k] = c
    <3>1. Block(m, size[c], written[c], c)
      BY <1>0, <1>1 DEF Block, Contents
    <3> HIDE DEF m
    <3>2. Block(x, n, w, c)
      BY <1>1, <2>9, <3>1, MovedKeeps
    <3> QED BY <3>2 DEF Block
  <2>11. \A d \in Clients \ {c} : ptr[d] # ptr[c]
    BY <1>0 DEF Distinct
  <2>12. Contents' /\ written' \in [Clients -> Nat]
    <3> HIDE DEF x, w
    <3>1. Holds(c, ptr[c], n, x, w)
      BY <1>4 DEF x, w
    <3> QED BY <1>1, <2>10, <2>11, <3>1, HoldsKeeps
  <2> QED BY <2>7, <2>12 DEF IInv, Types, SlotsInv
<1> QED BY <1>3, <1>4 DEF PrevRealloc

\* A slab is made: nobody holds anything in its arena yet.
LEMMA CreateKeeps ==
  ASSUME IInv, NEW w \in Slabs, slab[w] = NULL, slab' = [slab EXCEPT ![w] = NewSlab],
         UNCHANGED <<ptr, size, via, mem, written>>
  PROVE  IInv'
<1>0. Types /\ Distinct /\ Stacks /\ Marks /\ Arenas /\ Origins /\ Contents
  BY DEF IInv
<1>1. /\ slab \in [Slabs -> SlabStates \cup {NULL}] /\ ptr \in [Clients -> Pointers \cup {NULL}]
  BY <1>0 DEF Types
<1>2. StackOK(NewSlab) /\ NewSlab.used = {} /\ NewSlab # NULL /\ NewSlab \in SlabStates
  BY NewSlabOK, NotNull DEF StackOK
<1>3. slab'[w] = NewSlab /\ \A u \in Slabs \ {w} : slab'[u] = slab[u]
  BY <1>1
<1>4. Types'
  BY <1>0, <1>2 DEF Types
<1>5. ASSUME NEW i \in Slots, NEW c \in Clients PROVE ptr[c] # Pointer(w, i)
  <2>1. Pointer(w, i) # NULL /\ Pointer(w, i).area = w
    BY NotNull, PointerShape, SlabAssumption DEF Areas, Slots
  <2> QED BY <1>0, <2>1 DEF Arenas
<1>6. Marks'
  BY <1>0, <1>2, <1>3, <1>5 DEF Marks
<1>7. Stacks'
  BY <1>0, <1>2, <1>3 DEF Stacks
<1>8. \A u \in Slabs : slab[u] # NULL => slab'[u] # NULL
  BY <1>3
<1>9. Arenas' /\ Origins'
  BY <1>0, <1>8 DEF Arenas, Origins, Slabs
<1>10. Distinct' /\ Contents'
  BY <1>0 DEF Distinct, Contents
<1> QED BY <1>4, <1>6, <1>7, <1>9, <1>10 DEF IInv

\* A slab is freed when nothing of it is held.
LEMMA DestroyKeeps == ASSUME IInv, NEW w \in Slabs, Destroy(w) PROVE IInv'
<1>0. Types /\ Distinct /\ Stacks /\ Marks /\ Arenas /\ Origins /\ Contents
  BY DEF IInv
<1>1. /\ slab \in [Slabs -> SlabStates \cup {NULL}] /\ ptr \in [Clients -> Pointers \cup {NULL}]
  BY <1>0 DEF Types
<1>2. /\ UNCHANGED <<ptr, size, via, mem, written>>
      /\ \A c \in Clients : ptr[c] # NULL =>
           ptr[c].area # w /\ (w = "local" => via[c] # "local")
  BY DEF Destroy
<1>3. slab'[w] = NULL /\ \A u \in Slabs \ {w} : slab'[u] = slab[u]
  BY <1>1 DEF Destroy
<1>4. Types'
  BY <1>0, <1>2 DEF Types, Destroy
<1>5. Marks' /\ Stacks'
  BY <1>0, <1>2, <1>3 DEF Marks, Stacks
<1>6. Arenas'
  BY <1>0, <1>2, <1>3 DEF Arenas
<1>7. Origins'
  BY <1>0, <1>2, <1>3 DEF Origins, Slabs
<1>8. Distinct' /\ Contents'
  BY <1>0, <1>2 DEF Distinct, Contents
<1> QED BY <1>4, <1>5, <1>6, <1>7, <1>8 DEF IInv

\* Every step keeps the invariant.
LEMMA StepOK == IInv /\ [Next]_vars => IInv'
<1> SUFFICES ASSUME IInv, [Next]_vars PROVE IInv'
  OBVIOUS
<1>0. /\ Types /\ Stacks /\ "global" \in Slabs /\ "local" \in Slabs /\ Sizes \subseteq Nat
      /\ slab \in [Slabs -> SlabStates \cup {NULL}]
  BY SlabAssumption DEF IInv, Types, Slabs
<1>1. CASE Install
  BY <1>0, <1>1, CreateKeeps DEF Install
<1>2. CASE otlp_slab_create
  BY <1>0, <1>2, CreateKeeps DEF otlp_slab_create
<1>3. ASSUME NEW w \in Slabs, Destroy(w) PROVE IInv'
  BY <1>3, DestroyKeeps
<1>4. ASSUME NEW c \in Clients, NEW n \in Sizes, Malloc(c, n) PROVE IInv'
  <2>1. n \in Nat /\ "global" # "local"
    BY <1>0
  <2>2. \A r \in slab_alloc_hook(n) : Outcome(r, "global", {Prev, "libc"}, n)
    BY <1>0, <2>1, HookOutcome
  <2> QED BY <1>0, <1>4, <2>1, <2>2, AllocatesKeeps DEF Malloc
<1>5. ASSUME NEW c \in Clients, NEW n \in Sizes, SlabAlloc(c, n) PROVE IInv'
  <2>1. n \in Nat /\ slab["local"] # NULL
    BY <1>0, <1>5 DEF SlabAlloc
  <2>2. \A r \in otlp_slab_alloc("local", n) : Outcome(r, "local", {"libc"}, n)
    BY <1>0, <2>1, SlabOutcome
  <2> QED BY <1>0, <1>5, <2>1, <2>2, AllocatesKeeps DEF SlabAlloc
<1>6. ASSUME NEW c \in Clients, NEW n \in Sizes, Realloc(c, n) PROVE IInv'
  <2>1. n \in Nat /\ ptr[c] # NULL /\ via[c] = "global" /\ via' = via
    BY <1>0, <1>6 DEF Realloc
  <2>2. CASE InArena(c) /\ MoveOut(c, n)
    BY <2>1, <2>2, MoveOutKeeps
  <2>3. CASE ~InArena(c) /\ PrevRealloc(c, n)
    BY <2>1, <2>3, PrevReallocKeeps
  <2> QED BY <1>6, <2>2, <2>3 DEF Realloc
<1>7. ASSUME NEW c \in Clients, Write(c) PROVE IInv'
  BY <1>7, WriteKeeps
<1>8. ASSUME NEW c \in Clients, Free(c) PROVE IInv'
  BY <1>8, FreeKeeps
<1>9. ASSUME NEW c \in Clients, SlabFreePtr(c) PROVE IInv'
  BY <1>9, SlabFreePtrKeeps
<1>10. CASE UNCHANGED vars
  BY <1>10 DEF vars, IInv, Types, Distinct, Stacks, Marks, Arenas, Origins, Contents
<1> QED BY <1>1, <1>2, <1>3, <1>4, <1>5, <1>6, <1>7, <1>8, <1>9, <1>10 DEF Next

\* The inductive invariant holds in every state.
THEOREM SlabInvariant == Spec => []IInv
BY InitOK, StepOK, PTL DEF Spec

\* Every slot of a slab is free once or held once, and the statistics say so.
THEOREM SlabExactHolds == Spec => []SlabExact
<1>1. IInv => SlabExact
  <2> SUFFICES ASSUME IInv, NEW w \in Slabs, slab[w] # NULL
               PROVE  LET s == slab[w] IN
                      /\ {s.free[k] : k \in DOMAIN s.free} = Slots \ s.used
                      /\ Len(s.free) = Cardinality(Slots \ s.used)
                      /\ s.used = Handed(w)
                      /\ \A c, d \in Clients : ptr[c] # NULL /\ ptr[c] = ptr[d] => c = d
                      /\ s.in_use = Cardinality(s.used) /\ s.in_use = s.hits - s.free_hits
                      /\ s.allocs = s.hits + s.fallbacks /\ s.frees = s.free_hits + s.free_fallbacks
    BY DEF SlabExact
  <2>0. Types /\ Distinct /\ Stacks /\ Marks /\ Arenas
    BY DEF IInv
  <2>1. PICK s : s = slab[w]
    OBVIOUS
  <2>2. StackOK(s)
    BY <2>0, <2>1 DEF Stacks
  <2>3. s \in SlabStates
    BY <2>2 DEF StackOK
  <2>4. s.free \in Seq(Slots) /\ s.used \subseteq Slots /\ s.in_use \in Nat /\ s.hits \in Nat /\ s.free_hits \in Nat
    BY <2>3 DEF SlabStates
  <2>5. {s.free[k] : k \in DOMAIN s.free} = Slots \ s.used
    <3>1. DOMAIN s.free = 1..Len(s.free) /\ \A k \in 1..Len(s.free) : s.free[k] \in Slots
      BY <2>4
    <3>2. \A i \in Slots : i \notin s.used <=> \E k \in 1..Len(s.free) : s.free[k] = i
      BY <2>2 DEF StackOK
    <3> QED BY <3>1, <3>2
  <2>6. Len(s.free) = Cardinality(Slots \ s.used)
    <3>1. PICK n \in Nat : n = Len(s.free)
      BY <2>4
    <3>2. PICK u \in Nat : u = Cardinality(s.used)
      BY <2>4, SlotsFinite
    <3>3. n + u = Capacity /\ Capacity \in Nat
      BY <2>2, <3>1, <3>2, SlabAssumption DEF StackOK
    <3>4. Cardinality(Slots \ s.used) = Cardinality(Slots) - Cardinality(Slots \cap s.used)
      BY SlotsFinite, FS_Difference
    <3>5. Slots \cap s.used = s.used
      BY <2>4
    <3>6. Cardinality(Slots \ s.used) = Capacity - u
      BY <3>2, <3>4, <3>5, SlotsFinite
    <3> QED BY <3>1, <3>3, <3>6
  <2>7. s.used = Handed(w)
    <3>1. ASSUME NEW i \in Slots PROVE i \in Handed(w) <=> \E c \in Clients : ptr[c] = Pointer(w, i)
      <4>1. Pointer(w, i) # NULL /\ Pointer(w, i).area = w /\ Pointer(w, i).i = i
        BY NotNull, PointerShape, SlabAssumption DEF Areas, Slots
      <4>2. \A c \in Clients : ptr[c] # NULL /\ ptr[c].area = w /\ ptr[c].i = i => ptr[c] = Pointer(w, i)
        BY <2>0, PointerShape DEF Types
      <4> QED BY <4>1, <4>2 DEF Handed
    <3>2. Handed(w) \subseteq Slots
      BY <2>0 DEF Handed, Arenas
    <3>3. \A i \in Slots : i \in s.used <=> \E c \in Clients : ptr[c] = Pointer(w, i)
      BY <2>0, <2>1 DEF Marks
    <3> QED BY <2>4, <3>1, <3>2, <3>3
  <2>8. s.in_use = Cardinality(s.used) /\ s.in_use = s.hits - s.free_hits
    <3>1. s.in_use = Cardinality(s.used) /\ s.in_use + s.free_hits = s.hits
      BY <2>2 DEF StackOK
    <3>2. \A x, y \in Nat : x = (x + y) - y
      OBVIOUS
    <3> QED BY <2>4, <3>1, <3>2
  <2>9. s.allocs = s.hits + s.fallbacks /\ s.frees = s.free_hits + s.free_fallbacks
    BY <2>2 DEF StackOK
  <2> QED BY <2>0, <2>1, <2>5, <2>6, <2>7, <2>8, <2>9 DEF Distinct
<1> QED BY <1>1, SlabInvariant, PTL

\* Whatever allocator the slab was installed over, clients find what they wrote,
\* and slots and blocks of that allocator go back where they came from; so do
\* the blocks malloc gave an overflowing slab, if malloc is that allocator.
THEOREM BlocksIntactHolds == Spec => []BlocksIntact
<1> DEFINE Placed == misplaced \subseteq {"libc"} \ {Prev}
<1>1. Init => Placed
  BY DEF Init
<1>2. IInv /\ Placed /\ [Next]_vars => Placed'
  <2> SUFFICES ASSUME IInv, Placed, [Next]_vars PROVE Placed'
    OBVIOUS
  <2>0. Types /\ Arenas /\ Origins
    BY DEF IInv
  <2>1. CASE Install \/ otlp_slab_create \/ (\E w \in Slabs : Destroy(w)) \/ UNCHANGED vars
    BY <2>1 DEF Install, otlp_slab_create, Destroy, vars
  <2>2. ASSUME NEW c \in Clients, NEW n \in Sizes, Malloc(c, n) \/ SlabAlloc(c, n)
        PROVE  Placed'
    BY <2>2 DEF Malloc, SlabAlloc, Allocates
  <2>3. ASSUME NEW c \in Clients, NEW n \in Sizes, Realloc(c, n) PROVE Placed'
    <3>1. ptr[c] # NULL /\ via[c] = "global"
      BY <2>3 DEF Realloc
    <3>2. CASE InArena(c) /\ UNCHANGED misplaced
      BY <3>2
    <3>3. CASE ~InArena(c) /\ PrevRealloc(c, n)
      <4>1. ptr[c].area # "global"
        BY <2>0, <3>1, <3>3 DEF Arenas, InArena, Slabs
      <4>2. ptr[c].area \in {Prev, "libc"}
        BY <2>0, <3>1, <4>1 DEF Origins
      <4>3. misplaced' = misplaced \cup ({ptr[c].area} \ {Prev})
        BY <3>3 DEF PrevRealloc
      <4> QED BY <4>2, <4>3
    <3> QED BY <2>3, <3>2, <3>3 DEF Realloc
  <2>4. ASSUME NEW c \in Clients, Write(c) PROVE Placed'
    BY <2>4 DEF Write
  <2>5. ASSUME NEW c \in Clients, Free(c) PROVE Placed'
    BY <2>0, <2>5 DEF Free, Origins
  <2>6. ASSUME NEW c \in Clients, SlabFreePtr(c) PROVE Placed'
    BY <2>0, <2>6 DEF SlabFreePtr, Origins
  <2> QED BY <2>1, <2>2, <2>3, <2>4, <2>5, <2>6 DEF Next
<1>3. IInv /\ Placed => BlocksIntact
  BY DEF IInv, Contents, BlocksIntact
<1> QED BY <1>1, <1>2, <1>3, SlabInvariant, PTL DEF Spec
=============================================================================
