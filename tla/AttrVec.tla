------------------------------ MODULE AttrVec ------------------------------
(***************************************************************************)
(* Attributes and the growing attribute vectors of src/internal_util.c,    *)
(* over an allocator any call of which may fail.                           *)
(*                                                                         *)
(* The heap is seen by one API call as a record: the number of blocks in   *)
(* use, the number of allocations the call has made, and which of them     *)
(* fail.  Memory is counted, not addressed: freeing a structure takes away *)
(* the number of blocks it points to.                                      *)
(*                                                                         *)
(* Strings and byte arrays are sequences of numbers, a scalar is a         *)
(* sequence of one number; all pointers may be NULL.  The public interface *)
(* builds arrays and key-value lists of scalars only (value_fill), so a    *)
(* value is at most two levels deep.                                       *)
(***************************************************************************)
EXTENDS Integers, Sequences, SequencesExt

CONSTANTS
    NULL,        \* the null pointer
    FirstCap,    \* capacity a vector starts with (4 in the code)
    BadOctet     \* an octet that makes a string invalid UTF-8

\* A text is a string, an octet array or a list of numbers.
Text == Seq(Int)
Opt(S) == S \cup {NULL}

ASSUME FirstCapAssumption == FirstCap \in Nat \ {0}
ASSUME NullAssumption == NULL \notin Text

---------------------------------------------------------------------------
(* The allocator *)

Heap(live, fails) == [live |-> live, made |-> 0, fails |-> fails]

CanAlloc(h) == h.made + 1 \notin h.fails

Bit(b) == IF b THEN 1 ELSE 0

otlp_malloc(h) ==
    [h EXCEPT !.made = @ + 1, !.live = @ + Bit(CanAlloc(h))]

\* On success the old block, if there was one, is replaced by the new one.
otlp_realloc(h, had) ==
    [h EXCEPT !.made = @ + 1, !.live = @ + Bit(CanAlloc(h) /\ ~had)]

otlp_free(h, n) == [h EXCEPT !.live = @ - n]

\* The result of a call: the heap, a status and the object it worked on.
Result(h, st, o) == [h |-> h, st |-> st, o |-> o]

AndThen(r, F(_, _)) == IF r.st = "OK" THEN F(r.h, r.o) ELSE r

\* The status is kept, the object goes into a larger one.
Into(r, F(_)) == Result(r.h, r.st, F(r.o))

otlp_dup_str(h, s) ==
    IF s = NULL THEN Result(h, "OK", NULL)
    ELSE IF CanAlloc(h) THEN Result(otlp_malloc(h), "OK", s)
    ELSE Result(otlp_malloc(h), "NOMEM", NULL)

otlp_str_is_utf8(s) == s = NULL \/ \A i \in DOMAIN s : s[i] # BadOctet

OrEmpty(s) == IF s = NULL THEN <<>> ELSE s

---------------------------------------------------------------------------
(* Attributes: ptr is the owned payload (string, octets, or the array      *)
(* header), vec the element array of an ARRAY or KVLIST.  An entry of a    *)
(* KVLIST is an attribute with a key.                                      *)

NoAttr == [key |-> NULL, type |-> "STRING", ptr |-> FALSE, vec |-> FALSE,
           val |-> <<>>, items |-> <<>>]

Scalars == {"BOOL", "INT64", "DOUBLE"}
Types == Scalars \cup {"STRING", "BYTES", "ARRAY", "KVLIST"}

ScalarAttr == [key : Opt(Text), type : Types, ptr : BOOLEAN, vec : {FALSE},
               val : Opt(Text), items : {<<>>}]
Attr == [key : Opt(Text), type : Types, ptr : BOOLEAN, vec : BOOLEAN,
         val : Opt(Text), items : Seq(ScalarAttr)]

SumOf(s) ==
    LET t[i \in 0..Len(s)] == IF i = 0 THEN 0 ELSE t[i - 1] + s[i] IN t[Len(s)]

ScalarBlocks(a) == Bit(a.key # NULL) + Bit(a.ptr)

AttrBlocks(a) ==
    ScalarBlocks(a) + Bit(a.vec) + SumOf([i \in DOMAIN a.items |-> ScalarBlocks(a.items[i])])

ItemBlocks(items) == SumOf([i \in DOMAIN items |-> AttrBlocks(items[i])])

otlp_attribute_release_value(h, a) ==
    Result(otlp_free(h, AttrBlocks(a) - Bit(a.key # NULL)), "OK",
           [NoAttr EXCEPT !.key = a.key])

otlp_attribute_free(h, a) ==
    otlp_free(otlp_attribute_release_value(h, a).h, Bit(a.key # NULL))

\* "do free(&items[i]) while (i-- > 0)": the failing element and all elements
\* before it, each with otlp_attribute_free.
FreeBuilt(h, items) == otlp_free(h, ItemBlocks(items))

\* Make elements until one fails; the failing one is kept, half-built.
MakeEach(h, src, Make(_, _)) ==
    LET Add(done, e) == Result(e.h, e.st, Append(done, e.o))
        r[i \in 0..Len(src)] ==
            IF i = 0 THEN Result(h, "OK", <<>>)
            ELSE IF r[i - 1].st # "OK" THEN r[i - 1]
            ELSE Add(r[i - 1].o, Make(r[i - 1].h, src[i]))
    IN  r[Len(src)]

\* attr_copy_one of a scalar, string or byte attribute.
\* A key that cannot be copied leaves the null attribute behind.
CopyScalar(h, src) ==
    LET key == otlp_dup_str(h, src.key)
        g   == key.h
        dst == [NoAttr EXCEPT !.key = key.o, !.type = src.type]
    IN  IF key.st # "OK" THEN Result(g, "NOMEM", NoAttr)
        ELSE IF ~src.ptr THEN Result(g, "OK", [dst EXCEPT !.val = src.val])
        ELSE IF CanAlloc(g)
             THEN Result(otlp_malloc(g), "OK",
                         [dst EXCEPT !.ptr = TRUE, !.val = src.val])
        ELSE Result(otlp_malloc(g), "NOMEM", dst)

\* The element array is asked for even when there are no elements.
CopyNested(h, src) ==
    LET head  == otlp_malloc(h)
        array == otlp_malloc(head)
        dst   == [NoAttr EXCEPT !.type = src.type]
        Filled(each) ==
            IF each.st # "OK" THEN Result(otlp_free(FreeBuilt(each.h, each.o), 2), each.st, dst)
            ELSE Result(each.h, "OK", [dst EXCEPT !.ptr = TRUE, !.vec = TRUE, !.items = each.o])
    IN  IF ~src.ptr THEN Result(h, "OK", dst)
        ELSE IF ~CanAlloc(h) THEN Result(head, "NOMEM", dst)
        ELSE IF ~CanAlloc(head) THEN Result(otlp_free(array, 1), "NOMEM", dst)
        ELSE Filled(MakeEach(array, src.items, CopyScalar))

attr_copy_one(h, src) ==
    LET key == otlp_dup_str(h, src.key) IN
    IF src.type \notin {"ARRAY", "KVLIST"} THEN CopyScalar(h, src)
    ELSE IF key.st # "OK" THEN Result(key.h, "NOMEM", NoAttr)
    ELSE Into(CopyNested(key.h, src), LAMBDA a : [a EXCEPT !.key = key.o])

otlp_attribute_copy_all(h, src) ==
    LET AllOrNone(each) ==
            IF each.st = "OK" THEN each ELSE Result(FreeBuilt(each.h, each.o), "NOMEM", <<>>)
    IN  AllOrNone(MakeEach(h, src, attr_copy_one))

---------------------------------------------------------------------------
(* Building values from the public types.  A public value has a type and a *)
(* val; octets with a length but no data have val NULL.                    *)

PlainValue == [type : Types, val : Opt(Text)]
Entry == [key : Opt(Text), type : Types, val : Opt(Text)]

IsValue(v) ==
    /\ v.type \in Types
    /\ v.val \in CASE v.type = "ARRAY"  -> Opt(Seq(PlainValue))
                   [] v.type = "KVLIST" -> Opt(Seq(Entry))
                   [] OTHER             -> Opt(Text)

value_fill(h, v) ==
    LET text == otlp_dup_str(h, OrEmpty(v.val)) IN
    CASE v.type = "STRING" /\ ~otlp_str_is_utf8(v.val) -> Result(h, "UTF8", NoAttr)
      [] v.type = "STRING" /\ otlp_str_is_utf8(v.val) ->
            IF text.st = "OK"
            THEN Result(text.h, "OK", [NoAttr EXCEPT !.ptr = TRUE, !.val = text.o])
            ELSE Result(text.h, text.st, NoAttr)
      [] v.type = "BYTES" ->
            LET b == [NoAttr EXCEPT !.type = "BYTES"] IN
            IF v.val = <<>> THEN Result(h, "OK", b)
            ELSE IF v.val = NULL THEN Result(h, "NOMEM", b)
            ELSE IF CanAlloc(h)
                 THEN Result(otlp_malloc(h), "OK", [b EXCEPT !.ptr = TRUE, !.val = v.val])
                 ELSE Result(otlp_malloc(h), "NOMEM", b)
      [] v.type \in Scalars ->
            Result(h, "OK", [NoAttr EXCEPT !.type = v.type, !.val = v.val])
      [] OTHER -> Result(h, "INVALID_ARGUMENT", NoAttr)

\* An entry of a key-value list: the value first, then the key.
EntryFill(h, e) ==
    LET value == value_fill(h, e)
        key   == otlp_dup_str(value.h, e.key)
    IN  IF e.key = NULL THEN Result(h, "NULL", NoAttr)
        ELSE IF ~otlp_str_is_utf8(e.key) THEN Result(h, "UTF8", NoAttr)
        ELSE IF value.st # "OK" THEN value
        ELSE Result(key.h, key.st, [value.o EXCEPT !.key = key.o])

\* The array header, the element array if there are elements, the elements.
BuildNested(h, type, src, Fill(_, _)) ==
    LET head  == otlp_malloc(h)
        array == IF src = <<>> THEN head ELSE otlp_malloc(head)
        own   == 1 + Bit(src # <<>>)
        Filled(each) ==
            IF each.st # "OK"
            THEN Result(otlp_free(FreeBuilt(each.h, each.o), own), each.st, NoAttr)
            ELSE Result(each.h, "OK", [NoAttr EXCEPT !.type = type, !.ptr = TRUE,
                                                     !.vec = src # <<>>, !.items = each.o])
    IN  IF ~CanAlloc(h) THEN Result(head, "NOMEM", NoAttr)
        ELSE IF src # <<>> /\ ~CanAlloc(head)
             THEN Result(otlp_free(array, 1), "NOMEM", NoAttr)
        ELSE Filled(MakeEach(array, src, Fill))

otlp_attr_array_build(h, items) ==
    IF items = NULL THEN Result(h, "NULL", NoAttr)
    ELSE BuildNested(h, "ARRAY", items, value_fill)

otlp_attr_kvlist_build(h, entries) ==
    IF entries = NULL THEN Result(h, "NULL", NoAttr)
    ELSE BuildNested(h, "KVLIST", entries, EntryFill)

---------------------------------------------------------------------------
(* Vectors: items up to n, and the capacity; the array exists iff cap > 0. *)

Vec == [items : Seq(Attr), cap : Nat]

NoVec == [items |-> <<>>, cap |-> 0]

\* Mutant: the last attribute is not looked at.
FindButLast(vec, key) == {i \in DOMAIN vec.items : i # Len(vec.items) /\ vec.items[i].key = key}

otlp_attr_list_find(vec, key) == {i \in DOMAIN vec.items : vec.items[i].key = key}

Lesser(a, b) == IF a < b THEN a ELSE b

\* The capacity after growing: FirstCap, then doubled, never above max.
GrownCap(cap, max) == IF cap = 0 THEN Lesser(FirstCap, max) ELSE Lesser(2 * cap, max)

\* The slot for key, as the vector with an empty value there.
otlp_attr_vec_reserve(h, vec, max, key) ==
    LET found == otlp_attr_list_find(vec, key)
        full  == Len(vec.items) = vec.cap
        g     == IF full THEN otlp_realloc(h, vec.cap > 0) ELSE h
        roomy == IF full THEN [vec EXCEPT !.cap = GrownCap(vec.cap, max)] ELSE vec
        name  == otlp_dup_str(g, key)
    IN  IF found # {}
        THEN LET i == CHOOSE j \in found : \A k \in found : j <= k IN
             LET a == otlp_attribute_release_value(h, vec.items[i]) IN
             Result(a.h, "OK", [vec |-> [vec EXCEPT !.items[i] = a.o], idx |-> i])
        ELSE IF Len(vec.items) >= max
             THEN Result(h, "OVERFLOW", [vec |-> vec, idx |-> 0])
        ELSE IF full /\ ~CanAlloc(h)
             THEN Result(g, "NOMEM", [vec |-> vec, idx |-> 0])
        ELSE IF ~otlp_str_is_utf8(key)
             THEN Result(g, "UTF8", [vec |-> roomy, idx |-> 0])
        ELSE IF name.st # "OK"
             THEN Result(name.h, "NOMEM", [vec |-> roomy, idx |-> 0])
        ELSE Result(name.h, "OK",
                [vec |-> [roomy EXCEPT !.items = Append(@, [NoAttr EXCEPT !.key = name.o])],
                 idx |-> Len(vec.items) + 1])

\* Mutant: the value is not freed when there is no slot for it.
StoreLeaks(b, vec, max, key) ==
    LET PutIn(slot) ==
            IF slot.st # "OK" THEN Result(slot.h, slot.st, slot.o.vec)
            ELSE Result(slot.h, "OK",
                    [slot.o.vec EXCEPT !.items[slot.o.idx] = [b.o EXCEPT !.key = key]])
    IN  IF b.st # "OK" THEN Result(b.h, b.st, vec)
        ELSE PutIn(otlp_attr_vec_reserve(b.h, vec, max, key))

\* A value built beforehand is put into the reserved slot, or freed if there
\* is none: the fill itself cannot fail.
Store(b, vec, max, key) ==
    LET PutIn(slot) ==
            IF slot.st # "OK"
            THEN Result(otlp_attribute_free(slot.h, b.o), slot.st, slot.o.vec)
            ELSE Result(slot.h, "OK",
                    [slot.o.vec EXCEPT !.items[slot.o.idx] = [b.o EXCEPT !.key = key]])
    IN  IF b.st # "OK" THEN Result(b.h, b.st, vec)
        ELSE PutIn(otlp_attr_vec_reserve(b.h, vec, max, key))

\* A value with no data is refused here, unlike in value_fill.
otlp_attr_vec_set(h, vec, max, key, v) ==
    IF key = NULL THEN Result(h, "NULL", vec)
    ELSE IF v.type = "BYTES" /\ v.val = NULL THEN Result(h, "NULL", vec)
    ELSE Store(value_fill(h, v), vec, max, key)

otlp_attr_vec_set_array(h, vec, max, key, items) ==
    IF key = NULL THEN Result(h, "NULL", vec)
    ELSE Store(otlp_attr_array_build(h, items), vec, max, key)

otlp_attr_vec_set_kvlist(h, vec, max, key, entries) ==
    IF key = NULL THEN Result(h, "NULL", vec)
    ELSE Store(otlp_attr_kvlist_build(h, entries), vec, max, key)

\* Any of the three, by the type of the value.
SetAny(h, vec, max, key, v) ==
    CASE v.type = "ARRAY"  -> otlp_attr_vec_set_array(h, vec, max, key, v.val)
      [] v.type = "KVLIST" -> otlp_attr_vec_set_kvlist(h, vec, max, key, v.val)
      [] OTHER             -> otlp_attr_vec_set(h, vec, max, key, v)

otlp_attr_vec_copy(h, src) ==
    LET Copied(all) ==
            IF all.st # "OK" THEN Result(otlp_free(all.h, 1), "NOMEM", NoVec)
            ELSE Result(all.h, "OK", [items |-> all.o, cap |-> Len(src.items)])
    IN  IF src.items = <<>> THEN Result(h, "OK", NoVec)
        ELSE IF ~CanAlloc(h) THEN Result(otlp_malloc(h), "NOMEM", NoVec)
        ELSE Copied(otlp_attribute_copy_all(otlp_malloc(h), src.items))

VecBlocks(vec) == IF vec.cap = 0 THEN 0 ELSE 1 + ItemBlocks(vec.items)

otlp_attr_vec_free(h, vec) == otlp_free(h, VecBlocks(vec))
=============================================================================
