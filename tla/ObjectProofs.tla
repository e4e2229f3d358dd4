---------------------------- MODULE ObjectProofs ----------------------------
(***************************************************************************)
(* Whatever calls are made on a span, metric or log record and whichever   *)
(* allocation fails in them, the object and its clone stay whole and own   *)
(* exactly the blocks in use.                                              *)
(*                                                                         *)
(* The blocks of an object are a sum over its parts (AttrBlocks,           *)
(* VecBlocks, SpanBlocks, MetricBlocks, LogBlocks).  Every function of the *)
(* objects has a contract: what it returns is whole, and the heap has      *)
(* changed by the blocks the object has gained or lost (Uses, Changed,     *)
(* SpanChanged, Cloned, Built, ...).  A call is then one step of CInv.     *)
(***************************************************************************)
EXTENDS ObjectCalls, NatRecursion, SequenceTheorems, TLAPS

---------------------------------------------------------------------------
(* Sums *)

\* The partial sums of n integers: what the definition of Sum chooses.
LEMMA PartialSums ==
  ASSUME NEW n \in Nat, NEW s \in [1..n -> Int]
  PROVE  \E t \in [0..n -> Int] :
           /\ t[0] = 0
           /\ \A i \in 1..n : t[i] = t[i - 1] + s[i]
           /\ SumOf(s) = t[n]
<1> DEFINE F(u) == [i \in 0..Len(s) |-> IF i = 0 THEN 0 ELSE u[i - 1] + s[i]]
<1> DEFINE t == CHOOSE u : u = F(u)
<1>0. Len(s) = n
  BY LenProperties
<1>1. SumOf(s) = t[n]
  BY <1>0 DEF SumOf
<1> DEFINE d == [p \in Nat \X Int |-> IF p[1] + 1 \in 1..n THEN p[2] + s[p[1] + 1] ELSE 0]
<1>2. PICK g : FollowsUpTo(g, Int, 0, d, n)
  <2>1. d \in Steps(Int) /\ 0 \in Int
    BY DEF Steps
  <2> HIDE DEF d
  <2> QED BY <2>1, RecursionUpTo
<1>3. /\ g \in [0..n -> Int] /\ g[0] = 0
      /\ \A i \in 0..(n - 1) : g[i + 1] = g[i] + s[i + 1]
  <2>1. /\ g \in [0..n -> Int] /\ g[0] = 0
        /\ \A i \in 0..(n - 1) : g[i + 1] = d[<<i, g[i]>>]
    <3> HIDE DEF d
    <3> QED BY <1>2 DEF FollowsUpTo
  <2>2. ASSUME NEW i \in 0..(n - 1) PROVE d[<<i, g[i]>>] = g[i] + s[i + 1]
    BY <2>1
  <2> QED BY <2>1, <2>2
<1>4. \A i \in 1..n : g[i] = g[i - 1] + s[i]
  BY <1>3
<1>5. g = F(g)
  BY <1>3, <1>4, <1>0
<1>6. t = F(t)
  BY <1>5
<1> HIDE DEF t
<1>7. t[0] = 0 /\ \A i \in 1..n : t[i] = t[i - 1] + s[i]
  BY <1>6, <1>0
<1>8. \A i \in 0..n : t[i] = g[i]
  <2> DEFINE S == {i \in Nat : i \in 0..n => t[i] = g[i]}
  <2>1. 0 \in S
    BY <1>3, <1>7
  <2>2. \A i \in Nat : i \in S => i + 1 \in S
    BY <1>4, <1>7
  <2>3. Nat \subseteq S
    <3> HIDE DEF S
    <3> QED BY <2>1, <2>2, SetInduction
  <2> QED BY <2>3
<1>9. t = g
  BY <1>8, <1>6, <1>3, <1>0
<1> QED BY <1>1, <1>3, <1>4, <1>9

\* A sum of integers is an integer.
LEMMA SumType ==
  ASSUME NEW n \in Nat, NEW s \in [1..n -> Int]
  PROVE  SumOf(s) \in Int
BY PartialSums

\* The sum of nothing.
LEMMA SumNone == ASSUME NEW s \in [1..0 -> Int] PROVE SumOf(s) = 0
BY PartialSums

\* A sum of natural numbers is one.
LEMMA SumNat ==
  ASSUME NEW n \in Nat, NEW s \in [1..n -> Nat]
  PROVE  SumOf(s) \in Nat
<1>0. s \in [1..n -> Int]
  OBVIOUS
<1>1. PICK t \in [0..n -> Int] :
        t[0] = 0 /\ (\A i \in 1..n : t[i] = t[i - 1] + s[i]) /\ SumOf(s) = t[n]
  BY <1>0, PartialSums
<1> DEFINE S == {i \in Nat : i \in 0..n => t[i] \in Nat}
<1>2. 0 \in S
  BY <1>1
<1>3. \A i \in Nat : i \in S => i + 1 \in S
  BY <1>1
<1>4. Nat \subseteq S
  <2> HIDE DEF S
  <2> QED BY <1>2, <1>3, SetInduction
<1> QED BY <1>1, <1>4

\* One number more.
LEMMA SumAppend ==
  ASSUME NEW n \in Nat, NEW s \in [1..n -> Int], NEW r \in [1..(n + 1) -> Int],
         \A i \in 1..n : r[i] = s[i]
  PROVE  SumOf(r) = SumOf(s) + r[n + 1]
<1>1. PICK t \in [0..n -> Int] :
        t[0] = 0 /\ (\A i \in 1..n : t[i] = t[i - 1] + s[i]) /\ SumOf(s) = t[n]
  BY PartialSums
<1>2. PICK u \in [0..(n + 1) -> Int] :
        u[0] = 0 /\ (\A i \in 1..(n + 1) : u[i] = u[i - 1] + r[i]) /\ SumOf(r) = u[n + 1]
  <2>1. n + 1 \in Nat
    OBVIOUS
  <2> HIDE DEF SumOf
  <2> QED BY <2>1, PartialSums
<1> DEFINE S == {i \in Nat : i \in 0..n => t[i] = u[i]}
<1>3. 0 \in S
  BY <1>1, <1>2
<1>4. \A i \in Nat : i \in S => i + 1 \in S
  BY <1>1, <1>2
<1>5. Nat \subseteq S
  <2> HIDE DEF S
  <2> QED BY <1>3, <1>4, SetInduction
<1> QED BY <1>1, <1>2, <1>5

\* One number replaced.
LEMMA SumReplace ==
  ASSUME NEW n \in Nat, NEW s \in [1..n -> Int], NEW r \in [1..n -> Int], NEW k \in 1..n,
         \A i \in 1..n : i # k => r[i] = s[i]
  PROVE  SumOf(r) = SumOf(s) + r[k] - s[k]
<1>1. PICK t \in [0..n -> Int] :
        t[0] = 0 /\ (\A i \in 1..n : t[i] = t[i - 1] + s[i]) /\ SumOf(s) = t[n]
  BY PartialSums
<1>2. PICK u \in [0..n -> Int] :
        u[0] = 0 /\ (\A i \in 1..n : u[i] = u[i - 1] + r[i]) /\ SumOf(r) = u[n]
  BY PartialSums
<1> DEFINE S == {i \in Nat : i \in 0..n =>
                   u[i] = IF i < k THEN t[i] ELSE t[i] + r[k] - s[k]}
<1>3. 0 \in S
  BY <1>1, <1>2
<1>4. ASSUME NEW i \in Nat, i \in S PROVE i + 1 \in S
  <2>1. CASE i + 1 \in 0..n
    <3>1. t[i + 1] = t[i] + s[i + 1] /\ u[i + 1] = u[i] + r[i + 1]
      BY <1>1, <1>2, <2>1
    <3>2. /\ i < k => u[i] = t[i]
          /\ ~ (i < k) => u[i] = t[i] + r[k] - s[k]
      BY <2>1, <1>4
    <3>3. t[i] \in Int /\ u[i] \in Int /\ r[k] \in Int /\ s[k] \in Int
      BY <2>1
    <3>4. u[i + 1] = IF i + 1 < k THEN t[i + 1] ELSE t[i + 1] + r[k] - s[k]
      <4>4. CASE i + 1 = k
        <5> i < k
          BY <4>4
        <5>0. u[i] = t[i] /\ r[i + 1] = r[k] /\ s[i + 1] = s[k]
          BY <3>2, <4>4
        <5>1. u[i + 1] = t[i] + r[k] /\ t[i + 1] = t[i] + s[k]
          BY <3>1, <5>0
        <5>2. PICK a \in Int, b \in Int, c \in Int : a = t[i] /\ b = r[k] /\ c = s[k]
          BY <3>3, Zenon
        <5>3. a + b = (a + c) + b - c
          OBVIOUS
        <5>4. u[i + 1] = t[i + 1] + r[k] - s[k]
          BY <5>1, <5>2, <5>3, Zenon
        <5> QED BY <5>4, <4>4
      <4>5. CASE i + 1 # k
        <5>1. r[i + 1] = s[i + 1]
          BY <4>5, <2>1
        <5>0. s[i + 1] \in Int
          BY <2>1
        <5>2. CASE i < k
          BY <5>1, <5>2, <5>0, <3>1, <3>2, <3>3, <4>5
        <5>3. CASE ~ (i < k)
          <6>1. u[i] = t[i] + r[k] - s[k] /\ ~ (i + 1 < k)
            BY <5>3, <3>2
          <6>2. PICK a \in Int, b \in Int, c \in Int, d \in Int :
                   a = t[i] /\ b = r[k] /\ c = s[k] /\ d = s[i + 1]
            BY <3>3, <5>0, Zenon
          <6>3. u[i] = a + b - c /\ u[i + 1] = u[i] + d /\ t[i + 1] = a + d
            BY <6>1, <6>2, <5>1, <3>1, Zenon
          <6>4. u[i + 1] = t[i + 1] + r[k] - s[k]
            <7>1. (a + b - c) + d = (a + d) + b - c
              OBVIOUS
            <7> QED BY <6>2, <6>3, <7>1, Zenon
          <6> QED BY <6>1, <6>4
        <5> QED BY <5>2, <5>3
      <4> QED BY <4>4, <4>5
    <3> QED BY <3>4
  <2>2. CASE i + 1 \notin 0..n
    BY <2>2
  <2> QED BY <2>1, <2>2
<1>5. Nat \subseteq S
  <2> HIDE DEF S
  <2> QED BY <1>3, <1>4, SetInduction
<1> QED BY <1>1, <1>2, <1>5

---------------------------------------------------------------------------
(* Blocks of attributes *)

\* A flag counts as nothing or as one.
LEMMA BitType == ASSUME NEW b PROVE Bit(b) \in {0, 1}
BY DEF Bit

\* What an attribute owns is counted by a natural number.
LEMMA ScalarBlocksType == ASSUME NEW a PROVE ScalarBlocks(a) \in Nat
<1>1. Bit(a.key # NULL) \in {0, 1} /\ Bit(a.ptr) \in {0, 1}
  BY BitType
<1> QED BY <1>1 DEF ScalarBlocks

\* The blocks of an attribute are a number.
LEMMA AttrBlocksType == ASSUME NEW a \in Attr PROVE AttrBlocks(a) \in Nat
<1> DEFINE n == Len(a.items)
<1> DEFINE s == [i \in DOMAIN a.items |-> ScalarBlocks(a.items[i])]
<1>1. a.items \in Seq(ScalarAttr) /\ n \in Nat /\ DOMAIN a.items = 1..n
  BY DEF Attr
<1>2. s \in [1..n -> Nat]
  BY <1>1, ScalarBlocksType
<1>3. SumOf(s) \in Nat
  <2> HIDE DEF s, n
  <2> QED BY <1>1, <1>2, SumNat
<1>4. Bit(a.vec) \in Nat /\ ScalarBlocks(a) \in Nat
  BY BitType, ScalarBlocksType
<1> QED BY <1>3, <1>4 DEF AttrBlocks

\* A scalar attribute is an attribute, and its blocks are counted alike.
LEMMA ScalarAttrBlocks ==
  ASSUME NEW a \in ScalarAttr
  PROVE  a \in Attr /\ AttrBlocks(a) = ScalarBlocks(a)
<1>1. a \in Attr
  <2>1. {<<>>} \subseteq Seq(ScalarAttr) /\ {FALSE} \subseteq BOOLEAN
    OBVIOUS
  <2> QED BY <2>1 DEF ScalarAttr, Attr
<1>2. a.items = <<>> /\ a.vec = FALSE
  BY DEF ScalarAttr
<1>3. SumOf([i \in DOMAIN a.items |-> ScalarBlocks(a.items[i])]) = 0
  <2>1. [i \in DOMAIN a.items |-> ScalarBlocks(a.items[i])] \in [1..0 -> Int]
    BY <1>2, ScalarBlocksType
  <2> QED BY <2>1, SumNone
<1>4. ScalarBlocks(a) \in Nat
  BY ScalarBlocksType
<1> QED BY <1>1, <1>2, <1>3, <1>4 DEF AttrBlocks, Bit

\* Blocks of a list of attributes: none, one more, one replaced.
LEMMA ItemBlocksType == ASSUME NEW q \in Seq(Attr) PROVE ItemBlocks(q) \in Nat
<1>1. Len(q) \in Nat /\ DOMAIN q = 1..Len(q) /\ \A i \in 1..Len(q) : q[i] \in Attr
  OBVIOUS
<1>2. [i \in DOMAIN q |-> AttrBlocks(q[i])] \in [1..Len(q) -> Nat]
  BY <1>1, AttrBlocksType
<1> QED BY <1>1, <1>2, SumNat DEF ItemBlocks

\* No attributes own no blocks.
LEMMA ItemBlocksNone == ItemBlocks(<<>>) = 0
<1>1. [i \in DOMAIN <<>> |-> AttrBlocks(<<>>[i])] \in [1..0 -> Int]
  OBVIOUS
<1> QED BY <1>1, SumNone DEF ItemBlocks

\* One attribute more owns its blocks more.
LEMMA ItemBlocksAppend ==
  ASSUME NEW q \in Seq(Attr), NEW a \in Attr
  PROVE  ItemBlocks(Append(q, a)) = ItemBlocks(q) + AttrBlocks(a)
<1> DEFINE n == Len(q)
<1> DEFINE p == Append(q, a)
<1> DEFINE s == [i \in DOMAIN q |-> AttrBlocks(q[i])]
<1> DEFINE r == [i \in DOMAIN p |-> AttrBlocks(p[i])]
<1>1. n \in Nat /\ DOMAIN q = 1..n /\ \A i \in 1..n : q[i] \in Attr
  OBVIOUS
<1>2. DOMAIN p = 1..(n + 1) /\ p[n + 1] = a /\ \A i \in 1..n : p[i] = q[i]
  OBVIOUS
<1> HIDE DEF p, n
<1>3. s \in [1..n -> Int]
  BY <1>1, AttrBlocksType
<1>4. r \in [1..(n + 1) -> Int] /\ r[n + 1] = AttrBlocks(a) /\ \A i \in 1..n : r[i] = s[i]
  <2>1. n + 1 \in 1..(n + 1) /\ \A i \in 1..n : i \in 1..(n + 1)
    BY <1>1
  <2>2. \A i \in 1..(n + 1) : p[i] \in Attr
    BY <1>1, <1>2
  <2> QED BY <1>1, <1>2, <2>1, <2>2, AttrBlocksType
<1>5. ItemBlocks(q) = SumOf(s) /\ ItemBlocks(p) = SumOf(r)
  BY DEF ItemBlocks
<1> HIDE DEF s, r
<1>6. SumOf(r) = SumOf(s) + r[n + 1]
  BY <1>1, <1>3, <1>4, SumAppend
<1> QED BY <1>4, <1>5, <1>6 DEF p

\* Replacing an attribute exchanges its blocks.
LEMMA ItemBlocksReplace ==
  ASSUME NEW q \in Seq(Attr), NEW k \in 1..Len(q), NEW a \in Attr
  PROVE  ItemBlocks([q EXCEPT ![k] = a]) = ItemBlocks(q) + AttrBlocks(a) - AttrBlocks(q[k])
<1> DEFINE n == Len(q)
<1> DEFINE p == [q EXCEPT ![k] = a]
<1> DEFINE s == [i \in DOMAIN q |-> AttrBlocks(q[i])]
<1> DEFINE r == [i \in DOMAIN p |-> AttrBlocks(p[i])]
<1>1. n \in Nat /\ DOMAIN q = 1..n /\ \A i \in 1..n : q[i] \in Attr
  OBVIOUS
<1>2. DOMAIN p = 1..n /\ p[k] = a /\ \A i \in 1..n : i # k => p[i] = q[i]
  BY <1>1
<1>0. k \in 1..n
  OBVIOUS
<1> HIDE DEF p, n
<1>3. s \in [1..n -> Int] /\ s[k] = AttrBlocks(q[k])
  BY <1>0, <1>1, AttrBlocksType
<1>4. r \in [1..n -> Int] /\ r[k] = AttrBlocks(a) /\ \A i \in 1..n : i # k => r[i] = s[i]
  <2>1. \A i \in 1..n : p[i] \in Attr
    BY <1>1, <1>2
  <2> QED BY <1>0, <1>1, <1>2, <2>1, AttrBlocksType
<1>5. ItemBlocks(q) = SumOf(s) /\ ItemBlocks(p) = SumOf(r)
  BY DEF ItemBlocks
<1> HIDE DEF s, r
<1>6. SumOf(r) = SumOf(s) + r[k] - s[k]
  BY <1>0, <1>1, <1>3, <1>4, SumReplace
<1> QED BY <1>3, <1>4, <1>5, <1>6 DEF p

---------------------------------------------------------------------------
(* The allocator *)

Heaps == [live : Int, made : Int, fails : SUBSET Int]

\* A result has a heap, a status and an object, and nothing else.
IsResult(r) == r = Result(r.h, r.st, r.o)

Statuses == {"OK", "NULL", "NOMEM", "UTF8", "INVALID_ARGUMENT", "OVERFLOW"}

\* The heap of a result is that of the call, with n blocks more in use.
Uses(h, r, n) ==
  IsResult(r) /\ r.st \in Statuses /\ r.h \in Heaps /\ r.h.live = h.live + n

\* The parts of a result.
LEMMA ResultParts ==
  ASSUME NEW h, NEW st, NEW o
  PROVE  /\ Result(h, st, o).h = h /\ Result(h, st, o).st = st /\ Result(h, st, o).o = o
         /\ IsResult(Result(h, st, o))
BY DEF Result, IsResult

\* A heap with other counts.
LEMMA HeapWith ==
  ASSUME NEW h \in Heaps, NEW n \in Int, NEW m \in Int
  PROVE  LET g == [h EXCEPT !.made = m, !.live = n] IN g \in Heaps /\ g.live = n
<1>1. [h EXCEPT !.made = m, !.live = n] \in Heaps
  BY Zenon DEF Heaps
<1>2. DOMAIN h = {"live", "made", "fails"}
  BY DEF Heaps
<1> QED BY <1>1, <1>2

\* A heap with another number of blocks in use is a heap.
LEMMA HeapWithLive ==
  ASSUME NEW h \in Heaps, NEW n \in Int
  PROVE  LET g == [h EXCEPT !.live = n] IN g \in Heaps /\ g.live = n
<1>1. [h EXCEPT !.live = n] \in Heaps
  BY Zenon DEF Heaps
<1>2. DOMAIN h = {"live", "made", "fails"}
  BY DEF Heaps
<1> QED BY <1>1, <1>2

\* The counts of a heap are numbers.
LEMMA HeapNumbers == ASSUME NEW h \in Heaps PROVE h.live \in Int /\ h.made + 1 \in Int
<1>1. h.live \in Int /\ h.made \in Int
  BY DEF Heaps
<1> QED BY <1>1

\* What asking for memory and giving it back do to the blocks in use.
LEMMA MallocUses ==
  ASSUME NEW h \in Heaps
  PROVE  otlp_malloc(h) \in Heaps /\ otlp_malloc(h).live = h.live + Bit(CanAlloc(h))
<1> DEFINE n == h.live + Bit(CanAlloc(h))
<1> DEFINE m == h.made + 1
<1>1. n \in Int /\ m \in Int
  BY BitType, HeapNumbers
<1>2. otlp_malloc(h) = [h EXCEPT !.made = m, !.live = n]
  BY DEF otlp_malloc
<1> HIDE DEF n, m
<1>3. [h EXCEPT !.made = m, !.live = n] \in Heaps /\ [h EXCEPT !.made = m, !.live = n].live = n
  BY Zenon, <1>1, HeapWith
<1>4. otlp_malloc(h) \in Heaps /\ otlp_malloc(h).live = n
  BY <1>2, <1>3
<1> QED BY <1>4 DEF n

\* A reallocation that succeeds uses a block more only when there was none.
LEMMA ReallocUses ==
  ASSUME NEW h \in Heaps, NEW had \in BOOLEAN
  PROVE  /\ otlp_realloc(h, had) \in Heaps
         /\ otlp_realloc(h, had).live = h.live + Bit(CanAlloc(h) /\ ~ had)
<1> DEFINE n == h.live + Bit(CanAlloc(h) /\ ~ had)
<1> DEFINE m == h.made + 1
<1>1. n \in Int /\ m \in Int
  BY BitType, HeapNumbers
<1>2. otlp_realloc(h, had) = [h EXCEPT !.made = m, !.live = n]
  BY DEF otlp_realloc
<1> HIDE DEF n, m
<1>3. [h EXCEPT !.made = m, !.live = n] \in Heaps /\ [h EXCEPT !.made = m, !.live = n].live = n
  BY Zenon, <1>1, HeapWith
<1>4. otlp_realloc(h, had) \in Heaps /\ otlp_realloc(h, had).live = n
  BY <1>2, <1>3
<1> QED BY <1>4 DEF n

\* Freeing n blocks leaves n fewer in use.
LEMMA FreeUses ==
  ASSUME NEW h \in Heaps, NEW n \in Int
  PROVE  otlp_free(h, n) \in Heaps /\ otlp_free(h, n).live = h.live - n
<1> DEFINE m == h.live - n
<1>1. m \in Int
  BY HeapNumbers
<1>2. otlp_free(h, n) = [h EXCEPT !.live = m]
  BY DEF otlp_free
<1> HIDE DEF m
<1>3. otlp_free(h, n) \in Heaps /\ otlp_free(h, n).live = m
  BY <1>1, <1>2, HeapWithLive
<1> QED BY <1>3 DEF m

\* A copied string is there, or it is NULL, and a block is in use for it.
LEMMA DupStrUses ==
  ASSUME NEW h \in Heaps, NEW s
  PROVE  LET r == otlp_dup_str(h, s) IN
         /\ Uses(h, r, Bit(r.o # NULL))
         /\ r.st \in {"OK", "NOMEM"}
         /\ r.st = "OK" => r.o = s
         /\ r.st # "OK" => r.o = NULL
<1>1. CASE s = NULL
  <2>1. otlp_dup_str(h, s) = Result(h, "OK", NULL)
    BY <1>1 DEF otlp_dup_str
  <2>2. h.live + 0 = h.live
    BY DEF Heaps
  <2> QED BY <1>1, <2>1, <2>2, ResultParts DEF Uses, Bit, Statuses
<1>2. CASE s # NULL /\ CanAlloc(h)
  <2>1. otlp_dup_str(h, s) = Result(otlp_malloc(h), "OK", s)
    BY <1>2 DEF otlp_dup_str
  <2> QED BY <1>2, <2>1, MallocUses, ResultParts DEF Uses, Bit, Statuses
<1>3. CASE s # NULL /\ ~ CanAlloc(h)
  <2>1. otlp_dup_str(h, s) = Result(otlp_malloc(h), "NOMEM", NULL)
    BY <1>3 DEF otlp_dup_str
  <2> QED BY <1>3, <2>1, MallocUses, ResultParts DEF Uses, Bit, Statuses
<1> QED BY <1>1, <1>2, <1>3

---------------------------------------------------------------------------
(* Values *)

\* A call made an attribute, half-built perhaps, and uses its blocks.
Makes(h, r) == r.o \in Attr /\ Uses(h, r, AttrBlocks(r.o))
MakesScalar(h, r) == r.o \in ScalarAttr /\ Uses(h, r, ScalarBlocks(r.o))

\* What makes a scalar attribute makes an attribute.
LEMMA MakesScalarMakes ==
  ASSUME NEW h, NEW r, MakesScalar(h, r) PROVE Makes(h, r)
BY ScalarAttrBlocks DEF Makes, MakesScalar

\* An empty string and a missing one are texts.
LEMMA TextFacts ==
  /\ <<>> \in Text /\ <<>> # NULL /\ NULL \in Opt(Text)
  /\ \A s \in Text : s \in Opt(Text) /\ s # NULL
  /\ \A s \in Opt(Text) : s # NULL => s \in Text
  /\ \A s \in Opt(Text) : OrEmpty(s) \in Text
<1>1. <<>> \in Text
  BY DEF Text
<1> QED BY <1>1, NullAssumption DEF Opt, OrEmpty

\* An attribute with another type.
LEMMA AttrWithType ==
  ASSUME NEW a \in ScalarAttr, NEW t \in Types
  PROVE  LET b == [a EXCEPT !.type = t] IN b \in ScalarAttr /\ b.key = a.key /\ b.ptr = a.ptr
<1>1. [a EXCEPT !.type = t] \in ScalarAttr
  BY Zenon DEF ScalarAttr
<1>2. DOMAIN a = {"key", "type", "ptr", "vec", "val", "items"}
  BY DEF ScalarAttr
<1> QED BY <1>1, <1>2

\* With another value.
LEMMA AttrWithVal ==
  ASSUME NEW a \in ScalarAttr, NEW v \in Opt(Text)
  PROVE  LET b == [a EXCEPT !.val = v] IN b \in ScalarAttr /\ b.key = a.key /\ b.ptr = a.ptr
<1>1. [a EXCEPT !.val = v] \in ScalarAttr
  BY Zenon DEF ScalarAttr
<1>2. DOMAIN a = {"key", "type", "ptr", "vec", "val", "items"}
  BY DEF ScalarAttr
<1> QED BY <1>1, <1>2

\* With another key.
LEMMA AttrWithKey ==
  ASSUME NEW a \in ScalarAttr, NEW k \in Opt(Text)
  PROVE  LET b == [a EXCEPT !.key = k] IN b \in ScalarAttr /\ b.key = k /\ b.ptr = a.ptr
<1>1. [a EXCEPT !.key = k] \in ScalarAttr
  BY Zenon DEF ScalarAttr
<1>2. DOMAIN a = {"key", "type", "ptr", "vec", "val", "items"}
  BY DEF ScalarAttr
<1> QED BY <1>1, <1>2

\* With another type and value.
LEMMA AttrWithTypeVal ==
  ASSUME NEW a \in ScalarAttr, NEW t \in Types, NEW v \in Opt(Text)
  PROVE  LET b == [a EXCEPT !.type = t, !.val = v] IN b \in ScalarAttr /\ b.key = a.key /\ b.ptr = a.ptr
<1>1. [a EXCEPT !.type = t, !.val = v] \in ScalarAttr
  BY Zenon DEF ScalarAttr
<1>2. DOMAIN a = {"key", "type", "ptr", "vec", "val", "items"}
  BY DEF ScalarAttr
<1> QED BY <1>1, <1>2

\* With another key and type.
LEMMA AttrWithKeyType ==
  ASSUME NEW a \in ScalarAttr, NEW k \in Opt(Text), NEW t \in Types
  PROVE  LET b == [a EXCEPT !.key = k, !.type = t] IN b \in ScalarAttr /\ b.key = k /\ b.ptr = a.ptr
<1>1. [a EXCEPT !.key = k, !.type = t] \in ScalarAttr
  BY Zenon DEF ScalarAttr
<1>2. DOMAIN a = {"key", "type", "ptr", "vec", "val", "items"}
  BY DEF ScalarAttr
<1> QED BY <1>1, <1>2

\* With a payload or none, and its value.
LEMMA AttrWithPtrVal ==
  ASSUME NEW a \in ScalarAttr, NEW p \in BOOLEAN, NEW v \in Opt(Text)
  PROVE  LET b == [a EXCEPT !.ptr = p, !.val = v] IN b \in ScalarAttr /\ b.key = a.key /\ b.ptr = p
<1>1. [a EXCEPT !.ptr = p, !.val = v] \in ScalarAttr
  BY Zenon DEF ScalarAttr
<1>2. DOMAIN a = {"key", "type", "ptr", "vec", "val", "items"}
  BY DEF ScalarAttr
<1> QED BY <1>1, <1>2

\* The null attribute.
LEMMA NoAttrFacts ==
  NoAttr \in ScalarAttr /\ NoAttr.key = NULL /\ NoAttr.ptr = FALSE /\ ScalarBlocks(NoAttr) = 0
<1>1. <<>> \in Opt(Text) /\ NULL \in Opt(Text) /\ "STRING" \in Types
  BY TextFacts DEF Types
<1>2. NoAttr \in ScalarAttr
  BY <1>1 DEF NoAttr, ScalarAttr
<1>3. NoAttr.key = NULL /\ NoAttr.ptr = FALSE
  BY DEF NoAttr
<1> QED BY <1>2, <1>3 DEF ScalarBlocks, Bit

\* An attribute without a key owns its payload only.
LEMMA KeylessBlocks ==
  ASSUME NEW a, a.key = NULL PROVE ScalarBlocks(a) = Bit(a.ptr)
BY DEF ScalarBlocks, Bit

\* value_fill makes a scalar attribute without a key; one that fails leaves
\* nothing behind.
LEMMA ValueFillMakes ==
  ASSUME NEW h \in Heaps, NEW v, v.type \in Types,
         v.type \notin {"ARRAY", "KVLIST"} => v.val \in Opt(Text)
  PROVE  LET r == value_fill(h, v) IN
         /\ MakesScalar(h, r) /\ r.o.key = NULL
         /\ r.st # "OK" => ScalarBlocks(r.o) = 0
<1> DEFINE r == value_fill(h, v)
<1> DEFINE Good(q) == MakesScalar(h, q) /\ q.o.key = NULL /\ (q.st # "OK" => ScalarBlocks(q.o) = 0)
<1> SUFFICES Good(r)
  OBVIOUS
<1>0. h.live \in Int /\ h.live + 0 = h.live /\ Bit(TRUE) = 1 /\ Bit(FALSE) = 0
  BY DEF Heaps, Bit
<1>1. {"STRING", "BYTES", "BOOL", "INT64", "DOUBLE"} \subseteq Types
  BY DEF Types, Scalars
\* Nothing was asked for, or nothing was given.
<1>2. ASSUME NEW x \in Statuses, NEW g \in Heaps, g.live = h.live,
             NEW a \in ScalarAttr, a.key = NULL, a.ptr = FALSE
      PROVE  Good(Result(g, x, a))
  <2>1. ScalarBlocks(a) = 0
    BY <1>0, <1>2, KeylessBlocks
  <2> QED BY <1>0, <1>2, <2>1, ResultParts DEF MakesScalar, Uses
\* One block was given.
<1>3. ASSUME NEW g \in Heaps, g.live = h.live + 1,
             NEW a \in ScalarAttr, a.key = NULL, a.ptr = TRUE
      PROVE  Good(Result(g, "OK", a))
  <2>1. ScalarBlocks(a) = 1
    BY <1>0, <1>3, KeylessBlocks
  <2> QED BY <1>3, <2>1, ResultParts DEF MakesScalar, Uses, Statuses
<1> HIDE DEF Good, r
<1>4. CASE v.type = "STRING" /\ otlp_str_is_utf8(v.val)
  <2> DEFINE d == otlp_dup_str(h, OrEmpty(v.val))
  <2>1. /\ Uses(h, d, Bit(d.o # NULL)) /\ d.st \in {"OK", "NOMEM"}
        /\ (d.st = "OK" => d.o = OrEmpty(v.val)) /\ (d.st # "OK" => d.o = NULL)
    BY DupStrUses
  <2>2. OrEmpty(v.val) \in Text
    BY <1>4, TextFacts
  <2> HIDE DEF d
  <2>3. CASE d.st = "OK"
    <3>1. r = Result(d.h, "OK", [NoAttr EXCEPT !.ptr = TRUE, !.val = d.o])
      BY <1>4, <2>3 DEF value_fill, Scalars, d, r
    <3>2. d.o \in Opt(Text) /\ Bit(d.o # NULL) = 1
      BY <1>0, <2>1, <2>2, <2>3, TextFacts
    <3>3. d.h \in Heaps /\ d.h.live = h.live + 1
      BY <2>1, <3>2 DEF Uses
    <3>4. LET c == [NoAttr EXCEPT !.ptr = TRUE, !.val = d.o] IN
          c \in ScalarAttr /\ c.key = NULL /\ c.ptr = TRUE
      BY <3>2, NoAttrFacts, AttrWithPtrVal
    <3> QED BY <1>3, <3>1, <3>3, <3>4
  <2>4. CASE d.st # "OK"
    <3>1. r = Result(d.h, d.st, NoAttr)
      BY <1>4, <2>4 DEF value_fill, Scalars, d, r
    <3>2. Bit(d.o # NULL) = 0
      BY <1>0, <2>1, <2>4
    <3>3. d.h \in Heaps /\ d.h.live = h.live /\ d.st \in Statuses
      BY <1>0, <2>1, <3>2 DEF Uses
    <3> QED BY <1>2, <3>1, <3>3, NoAttrFacts
  <2> QED BY <2>3, <2>4
<1>5. CASE v.type = "BYTES"
  <2> DEFINE b == [NoAttr EXCEPT !.type = "BYTES"]
  <2>1. v.val \in Opt(Text)
    BY <1>5
  <2>2. b \in ScalarAttr /\ b.key = NULL /\ b.ptr = FALSE
    BY <1>1, NoAttrFacts, AttrWithType
  <2>3. LET c == [b EXCEPT !.ptr = TRUE, !.val = v.val] IN
        c \in ScalarAttr /\ c.key = NULL /\ c.ptr = TRUE
    <3> HIDE DEF b
    <3> QED BY <2>1, <2>2, AttrWithPtrVal
  <2>4. r = IF v.val = <<>> THEN Result(h, "OK", b)
            ELSE IF v.val = NULL THEN Result(h, "NOMEM", b)
            ELSE IF CanAlloc(h)
                 THEN Result(otlp_malloc(h), "OK", [b EXCEPT !.ptr = TRUE, !.val = v.val])
                 ELSE Result(otlp_malloc(h), "NOMEM", b)
    BY <1>5 DEF value_fill, Scalars, r
  <2>5. otlp_malloc(h) \in Heaps /\ otlp_malloc(h).live = h.live + Bit(CanAlloc(h))
    BY MallocUses
  <2> HIDE DEF b
  <2>6. CASE CanAlloc(h) /\ r = Result(otlp_malloc(h), "OK", [b EXCEPT !.ptr = TRUE, !.val = v.val])
    BY <1>0, <1>3, <2>3, <2>5, <2>6 DEF Bit
  <2>7. CASE ~ CanAlloc(h) /\ r = Result(otlp_malloc(h), "NOMEM", b)
    BY <1>0, <1>2, <2>2, <2>5, <2>7 DEF Bit, Statuses
  <2>8. CASE \E x \in Statuses : r = Result(h, x, b)
    BY <1>2, <2>2, <2>8
  <2> QED BY <2>4, <2>6, <2>7, <2>8 DEF Statuses
<1>6. CASE v.type \in Scalars
  <2>1. r = Result(h, "OK", [NoAttr EXCEPT !.type = v.type, !.val = v.val])
    BY <1>6 DEF value_fill, Scalars, r
  <2>2. v.val \in Opt(Text)
    BY <1>6 DEF Scalars
  <2>3. LET b == [NoAttr EXCEPT !.type = v.type, !.val = v.val] IN
        b \in ScalarAttr /\ b.key = NULL /\ b.ptr = FALSE
    BY <2>2, NoAttrFacts, AttrWithTypeVal
  <2> QED BY <1>2, <2>1, <2>3 DEF Statuses
<1>7. CASE v.type \in {"ARRAY", "KVLIST"} \/ (v.type = "STRING" /\ ~ otlp_str_is_utf8(v.val))
  <2>1. r = Result(h, "UTF8", NoAttr) \/ r = Result(h, "INVALID_ARGUMENT", NoAttr)
    BY <1>7 DEF value_fill, Scalars, r
  <2> QED BY <1>2, <2>1, NoAttrFacts DEF Statuses
<1> QED BY <1>4, <1>5, <1>6, <1>7 DEF Types

\* An entry of a key-value list: value and key, or what there is of them.
LEMMA EntryFillMakes ==
  ASSUME NEW h \in Heaps, NEW e \in Entry
  PROVE  LET r == EntryFill(h, e) IN MakesScalar(h, r) /\ (r.st = "OK" => r.o.key = e.key)
<1> DEFINE r == EntryFill(h, e)
<1> DEFINE value == value_fill(h, e)
<1> DEFINE key == otlp_dup_str(value.h, e.key)
<1>1. e.key \in Opt(Text) /\ e.type \in Types /\ e.val \in Opt(Text)
  BY DEF Entry
<1>2. /\ MakesScalar(h, value) /\ value.o.key = NULL /\ value.o \in ScalarAttr
      /\ value.h \in Heaps /\ value.h.live = h.live + ScalarBlocks(value.o)
  BY <1>1, ValueFillMakes DEF MakesScalar, Uses
<1>3. /\ Uses(value.h, key, Bit(key.o # NULL))
      /\ key.o = e.key \/ key.o = NULL
      /\ key.st = "OK" => key.o = e.key
  BY <1>2, DupStrUses
<1>4. r = IF e.key = NULL THEN Result(h, "NULL", NoAttr)
          ELSE IF ~ otlp_str_is_utf8(e.key) THEN Result(h, "UTF8", NoAttr)
          ELSE IF value.st # "OK" THEN value
          ELSE Result(key.h, key.st, [value.o EXCEPT !.key = key.o])
  BY DEF EntryFill
<1> DEFINE Good(x) == MakesScalar(h, x) /\ (x.st = "OK" => x.o.key = e.key)
<1> SUFFICES Good(r)
  OBVIOUS
<1> HIDE DEF r, key, value
<1>5. CASE \E x \in {"NULL", "UTF8"} : r = Result(h, x, NoAttr)
  <2>1. h.live + 0 = h.live
    BY HeapNumbers
  <2> QED BY <1>5, <2>1, NoAttrFacts, ResultParts DEF MakesScalar, Uses, Statuses
<1>6. CASE value.st # "OK" /\ r = value
  BY <1>2, <1>6
<1>7. CASE r = Result(key.h, key.st, [value.o EXCEPT !.key = key.o])
  <2> DEFINE a == [value.o EXCEPT !.key = key.o]
  <2>1. key.o \in Opt(Text)
    BY <1>1, <1>3, TextFacts
  <2>2. a \in ScalarAttr /\ a.key = key.o /\ a.ptr = value.o.ptr
    BY <1>2, <2>1, AttrWithKey
  <2> HIDE DEF a
  <2>3. ScalarBlocks(a) = Bit(key.o # NULL) + Bit(value.o.ptr)
    BY <2>2 DEF ScalarBlocks
  <2>4. ScalarBlocks(value.o) = Bit(value.o.ptr)
    BY <1>2, KeylessBlocks
  <2>5. key.h.live = h.live + ScalarBlocks(a) /\ key.h \in Heaps /\ key.st \in Statuses
    <3>1. key.h.live = (h.live + Bit(value.o.ptr)) + Bit(key.o # NULL)
      BY <1>2, <1>3, <2>4 DEF Uses
    <3>2. h.live \in Int /\ Bit(value.o.ptr) \in Int /\ Bit(key.o # NULL) \in Int
      BY HeapNumbers, BitType
    <3> QED BY <1>3, <2>3, <3>1, <3>2 DEF Uses
  <2>6. r = Result(key.h, key.st, a)
    BY <1>7 DEF a
  <2>7. MakesScalar(h, r)
    BY <2>2, <2>5, <2>6, ResultParts DEF MakesScalar, Uses
  <2> QED BY <1>3, <2>2, <2>6, <2>7, ResultParts
<1> QED BY <1>4, <1>5, <1>6, <1>7

\* The copy of an attribute that is no list.
LEMMA CopyScalarMakes ==
  ASSUME NEW h \in Heaps, NEW src \in Attr
  PROVE  LET r == CopyScalar(h, src) IN
         MakesScalar(h, r) /\ (r.st = "OK" => r.o.key = src.key)
<1> DEFINE r == CopyScalar(h, src)
<1> DEFINE key == otlp_dup_str(h, src.key)
<1> DEFINE g == key.h
<1> DEFINE dst == [NoAttr EXCEPT !.key = key.o, !.type = src.type]
<1>1. src.key \in Opt(Text) /\ src.type \in Types /\ src.val \in Opt(Text)
  BY DEF Attr
<1>2. /\ Uses(h, key, Bit(key.o # NULL)) /\ g \in Heaps
      /\ key.st = "OK" => key.o = src.key
      /\ key.st # "OK" => key.o = NULL
  BY DupStrUses DEF Uses
<1>3. key.o \in Opt(Text)
  BY <1>1, <1>2, TextFacts
<1>4. dst \in ScalarAttr /\ dst.key = key.o /\ dst.ptr = FALSE
  <2>1. ASSUME NEW k \in Opt(Text), NEW t \in Types
        PROVE  LET b == [NoAttr EXCEPT !.key = k, !.type = t] IN
               b \in ScalarAttr /\ b.key = k /\ b.ptr = NoAttr.ptr
    <3> DEFINE a == NoAttr
    <3>1. a \in ScalarAttr
      BY NoAttrFacts
    <3> HIDE DEF a
    <3>2. LET b == [a EXCEPT !.key = k, !.type = t] IN
               b \in ScalarAttr /\ b.key = k /\ b.ptr = a.ptr
      BY Zenon, <3>1, AttrWithKeyType
    <3> QED BY <3>2 DEF a
  <2> DEFINE k == key.o
  <2> DEFINE t == src.type
  <2>2. k \in Opt(Text) /\ t \in Types
    BY <1>1, <1>3
  <2> HIDE DEF k, t
  <2>3. LET b == [NoAttr EXCEPT !.key = k, !.type = t] IN
               b \in ScalarAttr /\ b.key = k /\ b.ptr = NoAttr.ptr
    BY <2>1, <2>2
  <2>4. dst = [NoAttr EXCEPT !.key = k, !.type = t]
    BY DEF k, t
  <2> HIDE DEF dst
  <2>5. dst \in ScalarAttr /\ dst.key = k /\ dst.ptr = NoAttr.ptr
    BY <2>3, <2>4
  <2> QED BY <2>5, NoAttrFacts DEF k
<1> DEFINE plain == [dst EXCEPT !.val = src.val]
<1> DEFINE full == [dst EXCEPT !.ptr = TRUE, !.val = src.val]
<1>5. plain \in ScalarAttr /\ plain.key = key.o /\ plain.ptr = FALSE
  <2> HIDE DEF dst
  <2> QED BY <1>1, <1>4, AttrWithVal
<1>6. full \in ScalarAttr /\ full.key = key.o /\ full.ptr = TRUE
  <2> HIDE DEF dst
  <2> QED BY <1>1, <1>4, AttrWithPtrVal
<1>7. r = IF key.st # "OK" THEN Result(g, "NOMEM", NoAttr)
          ELSE IF ~ src.ptr THEN Result(g, "OK", plain)
          ELSE IF CanAlloc(g) THEN Result(otlp_malloc(g), "OK", full)
          ELSE Result(otlp_malloc(g), "NOMEM", dst)
  BY DEF CopyScalar
<1>8. /\ g.live = h.live + Bit(key.o # NULL) /\ h.live \in Int
      /\ otlp_malloc(g) \in Heaps /\ otlp_malloc(g).live = g.live + Bit(CanAlloc(g))
      /\ Bit(TRUE) = 1 /\ Bit(FALSE) = 0 /\ Bit(key.o # NULL) \in Int
      /\ CanAlloc(g) => otlp_malloc(g).live = g.live + 1
      /\ ~ CanAlloc(g) => otlp_malloc(g).live = g.live + 0
  BY <1>2, MallocUses, HeapNumbers, BitType DEF Uses, Bit
<1>9. /\ ScalarBlocks(dst) = Bit(key.o # NULL) + 0
      /\ ScalarBlocks(plain) = Bit(key.o # NULL) + 0
      /\ ScalarBlocks(full) = Bit(key.o # NULL) + 1
  <2> HIDE DEF dst, plain, full
  <2> QED BY <1>4, <1>5, <1>6, <1>8 DEF ScalarBlocks
<1> DEFINE Good(q) == MakesScalar(h, q) /\ (q.st = "OK" => q.o.key = src.key)
<1> SUFFICES Good(r)
  OBVIOUS
<1> HIDE DEF r, key, dst, plain, full, g
<1>10. CASE key.st # "OK" /\ r = Result(g, "NOMEM", NoAttr)
  <2>1. g.live = h.live + 0
    BY <1>2, <1>8, <1>10 DEF Bit
  <2> QED BY <1>2, <1>10, <2>1, NoAttrFacts, ResultParts DEF MakesScalar, Uses, Statuses
<1>11. CASE key.st = "OK" /\ r = Result(g, "OK", plain)
  <2>1. g.live = h.live + ScalarBlocks(plain)
    BY <1>8, <1>9
  <2> QED BY <1>2, <1>5, <1>11, <2>1, ResultParts DEF MakesScalar, Uses, Statuses
<1>12. CASE key.st = "OK" /\ CanAlloc(g) /\ r = Result(otlp_malloc(g), "OK", full)
  <2>1. otlp_malloc(g).live = (h.live + Bit(key.o # NULL)) + 1
    BY <1>8, <1>12
  <2>2. otlp_malloc(g).live = h.live + ScalarBlocks(full)
    <3> DEFINE x == Bit(key.o # NULL)
    <3>1. x \in Int /\ h.live \in Int
      BY <1>8
    <3>2. ScalarBlocks(full) = x + 1 /\ otlp_malloc(g).live = (h.live + x) + 1
      BY <1>9, <2>1
    <3> HIDE DEF x
    <3> QED BY <3>1, <3>2
  <2> QED BY <1>2, <1>6, <1>8, <1>12, <2>2, ResultParts DEF MakesScalar, Uses, Statuses
<1>13. CASE ~ CanAlloc(g) /\ r = Result(otlp_malloc(g), "NOMEM", dst)
  <2>1. otlp_malloc(g).live = h.live + ScalarBlocks(dst)
    BY <1>8, <1>9, <1>13
  <2> QED BY <1>4, <1>8, <1>13, <2>1, ResultParts DEF MakesScalar, Uses, Statuses
<1> QED BY <1>7, <1>10, <1>11, <1>12, <1>13

\* Results of calls whose object is of a set.
Made(S) == [h : Heaps, st : Statuses, o : S]

\* A call that uses n blocks, with an object of S, is a result of that set.
LEMMA UsesMade ==
  ASSUME NEW h, NEW r, NEW n, Uses(h, r, n), NEW S, r.o \in S
  PROVE  r \in Made(S) /\ r.h.live = h.live + n
BY DEF Uses, Made, IsResult, Result

\* g are the results of making n elements by q one after the other until one
\* fails.  The blocks in use are those of the elements there are, and if none
\* failed they are all there, each under its key.
MakesAll(g, n, h, q, K) ==
  /\ g[0] = Result(h, "OK", <<>>)
  /\ \A i \in 1..n :
        g[i] = IF g[i - 1].st # "OK" THEN g[i - 1]
               ELSE LET e == q[i][g[i - 1].h]
                    IN  Result(e.h, e.st, Append(g[i - 1].o, e.o))
  /\ g[n].h.live = h.live + ItemBlocks(g[n].o)
  /\ g[n].st = "OK" => Len(g[n].o) = n /\ \A j \in 1..n : g[n].o[j].key = K[j]

\* What a constructor of elements does, as functions of the heap.
Makers(n, S, K) ==
  {q \in [1..n -> [Heaps -> Made(S)]] :
     \A i \in 1..n, x \in Heaps :
        /\ q[i][x].h.live = x.live + AttrBlocks(q[i][x].o)
        /\ q[i][x].st = "OK" => q[i][x].o.key = K[i]}

\* Elements can be made one after the other.
LEMMA EachMade ==
  ASSUME NEW S \in SUBSET Attr, NEW n \in Nat, NEW h \in Heaps, NEW K,
         NEW q \in Makers(n, S, K)
  PROVE  \E g \in [0..n -> Made(Seq(S))] : MakesAll(g, n, h, q, K)
<1>0. /\ q \in [1..n -> [Heaps -> Made(S)]]
      /\ \A i \in 1..n, x \in Heaps :
            /\ q[i][x].h.live = x.live + AttrBlocks(q[i][x].o)
            /\ q[i][x].st = "OK" => q[i][x].o.key = K[i]
  BY DEF Makers
<1> DEFINE V == Made(Seq(S))
<1> DEFINE Next(i, r) == IF r.st # "OK" THEN r
                         ELSE LET e == q[i][r.h] IN Result(e.h, e.st, Append(r.o, e.o))
<1> DEFINE d == [p \in Nat \X V |-> IF p[1] + 1 \in 1..n THEN Next(p[1] + 1, p[2]) ELSE p[2]]
<1> DEFINE z == Result(h, "OK", <<>>)
<1>1. z \in V
  BY DEF Result, Made, Statuses
<1>2. ASSUME NEW i \in 1..n, NEW r \in V PROVE Next(i, r) \in V
  <2> DEFINE e == q[i][r.h]
  <2>1. r.h \in Heaps /\ r.st \in Statuses /\ r.o \in Seq(S)
    BY DEF Made
  <2>2. e \in Made(S)
    BY <1>0, <2>1
  <2>3. e.h \in Heaps /\ e.st \in Statuses /\ e.o \in S
    <3> HIDE DEF e
    <3> QED BY <2>2 DEF Made
  <2>4. Append(r.o, e.o) \in Seq(S)
    <3> HIDE DEF e
    <3> QED BY <2>1, <2>3
  <2>5. Result(e.h, e.st, Append(r.o, e.o)) \in V
    <3> HIDE DEF e
    <3> QED BY <2>3, <2>4 DEF Result, Made
  <2> QED BY <2>5
<1>3. d \in Steps(V)
  <2> HIDE DEF Next, V
  <2>1. \A p \in Nat \X V : p[1] \in Nat /\ p[2] \in V
    OBVIOUS
  <2>2. \A p \in Nat \X V : d[p] \in V
    BY <1>2, <2>1
  <2> QED BY <2>2 DEF Steps
<1>4. PICK g : FollowsUpTo(g, V, z, d, n)
  <2> HIDE DEF d, V, z
  <2> QED BY <1>1, <1>3, RecursionUpTo
<1>5. /\ g \in [0..n -> V] /\ g[0] = z
      /\ \A i \in 0..(n - 1) : g[i + 1] = Next(i + 1, g[i])
  <2>1. /\ g \in [0..n -> V] /\ g[0] = z
        /\ \A i \in 0..(n - 1) : g[i + 1] = d[<<i, g[i]>>]
    <3> HIDE DEF d, V, z
    <3> QED BY <1>4 DEF FollowsUpTo
  <2>2. ASSUME NEW i \in 0..(n - 1) PROVE d[<<i, g[i]>>] = Next(i + 1, g[i])
    <3>1. i \in Nat /\ g[i] \in V /\ i + 1 \in 1..n
      BY <2>1
    <3> HIDE DEF Next, V
    <3> QED BY <3>1
  <2> HIDE DEF Next, V, z, d
  <2> QED BY <2>1, <2>2
<1> DEFINE Inv(i) == /\ g[i].h.live = h.live + ItemBlocks(g[i].o)
                     /\ g[i].st = "OK" => Len(g[i].o) = i /\ \A j \in 1..i : g[i].o[j].key = K[j]
<1>6. Inv(0)
  <2>1. g[0].h = h /\ g[0].o = <<>> /\ g[0].st = "OK"
    BY <1>5, ResultParts
  <2> QED BY <2>1, ItemBlocksNone, HeapNumbers
<1>7. ASSUME NEW i \in Nat, i < n, Inv(i) PROVE Inv(i + 1)
  <2> DEFINE r == g[i]
  <2> DEFINE e == q[i + 1][r.h]
  <2>1. i \in 0..n /\ i \in 0..(n - 1) /\ i + 1 \in 1..n /\ i + 1 \in 0..n
    BY <1>7
  <2>2. r \in V /\ g[i + 1] = Next(i + 1, r)
    BY <1>5, <2>1
  <2>3. r.h \in Heaps /\ r.st \in Statuses /\ r.o \in Seq(S) /\ r.o \in Seq(Attr)
    BY <2>2 DEF Made
  <2>4. CASE r.st # "OK"
    BY <1>7, <2>2, <2>4
  <2>5. CASE r.st = "OK"
    <3>1. e \in Made(S)
      BY <1>0, <2>1, <2>3
    <3>2. e.h.live = r.h.live + AttrBlocks(e.o) /\ (e.st = "OK" => e.o.key = K[i + 1])
      BY <1>0, <2>1, <2>3
    <3>3. g[i + 1] = Result(e.h, e.st, Append(r.o, e.o))
      BY <2>2, <2>5
    <3> HIDE DEF e
    <3>4. e.o \in Attr /\ AttrBlocks(e.o) \in Nat
      BY <3>1, AttrBlocksType DEF Made
    <3>5. g[i + 1].h = e.h /\ g[i + 1].st = e.st /\ g[i + 1].o = Append(r.o, e.o)
      BY <3>3 DEF Result
    <3>6. r.h.live = h.live + ItemBlocks(r.o) /\ Len(r.o) = i /\ \A j \in 1..i : r.o[j].key = K[j]
      BY <1>7, <2>5
    <3> HIDE DEF r
    <3>7. ItemBlocks(Append(r.o, e.o)) = ItemBlocks(r.o) + AttrBlocks(e.o)
      BY <2>3, <3>4, ItemBlocksAppend
    <3>8. ItemBlocks(r.o) \in Nat /\ h.live \in Int
      BY <2>3, ItemBlocksType, HeapNumbers
    <3>9. g[i + 1].h.live = h.live + ItemBlocks(g[i + 1].o)
      BY <3>2, <3>4, <3>5, <3>6, <3>7, <3>8
    <3>10. ASSUME e.st = "OK"
           PROVE  Len(Append(r.o, e.o)) = i + 1 /\ \A j \in 1..(i + 1) : Append(r.o, e.o)[j].key = K[j]
      <4>1. /\ Len(Append(r.o, e.o)) = i + 1 /\ Append(r.o, e.o)[i + 1] = e.o
            /\ \A j \in 1..i : Append(r.o, e.o)[j] = r.o[j]
        BY <2>3, <3>6
      <4> QED BY <3>2, <3>6, <3>10, <4>1
    <3> QED BY <3>5, <3>9, <3>10
  <2> QED BY <2>4, <2>5
<1>8. Inv(n)
  <2> DEFINE T == {i \in Nat : i <= n => Inv(i)}
  <2> HIDE DEF Inv
  <2>1. 0 \in T
    BY <1>6
  <2>2. \A i \in Nat : i \in T => i + 1 \in T
    BY <1>7
  <2>3. Nat \subseteq T
    <3> HIDE DEF T
    <3> QED BY <2>1, <2>2, SetInduction
  <2> QED BY <2>3
<1>9. \A i \in 1..n : g[i] = Next(i, g[i - 1])
  <2> HIDE DEF Next
  <2>1. ASSUME NEW i \in 1..n PROVE g[i] = Next(i, g[i - 1])
    <3>1. i - 1 \in 0..(n - 1) /\ (i - 1) + 1 = i
      OBVIOUS
    <3> QED BY <1>5, <3>1
  <2> QED BY <2>1
<1>10. MakesAll(g, n, h, q, K)
  BY <1>5, <1>8, <1>9 DEF MakesAll
<1> QED BY <1>5, <1>10

\* The elements of an array: scalars without keys.
LEMMA EachValueFill ==
  ASSUME NEW h \in Heaps, NEW src \in Seq(PlainValue)
  PROVE  LET r == MakeEach(h, src, value_fill) IN
         /\ r \in Made(Seq(ScalarAttr)) /\ r.h.live = h.live + ItemBlocks(r.o)
         /\ r.st = "OK" => Len(r.o) = Len(src) /\ \A j \in 1..Len(src) : r.o[j].key = NULL
<1> DEFINE n == Len(src)
<1> DEFINE Next(i, r) == IF r.st # "OK" THEN r
                         ELSE LET e == value_fill(r.h, src[i])
                              IN  Result(e.h, e.st, Append(r.o, e.o))
<1> DEFINE F(u) == [i \in 0..n |-> IF i = 0 THEN Result(h, "OK", <<>>) ELSE Next(i, u[i - 1])]
<1> DEFINE t == CHOOSE u : u = F(u)
<1> DEFINE m == MakeEach(h, src, value_fill)
<1>1. m = t[n]
  BY DEF MakeEach
<1> HIDE DEF m
<1> DEFINE q == [i \in 1..n |-> [x \in Heaps |-> value_fill(x, src[i])]]
<1> DEFINE K == [i \in 1..n |-> NULL]
<1>2. n \in Nat /\ \A i \in 1..n : src[i] \in PlainValue
  OBVIOUS
<1>3. ASSUME NEW i \in 1..n, NEW x \in Heaps
      PROVE  LET e == value_fill(x, src[i]) IN
             /\ e \in Made(ScalarAttr) /\ e.h.live = x.live + AttrBlocks(e.o)
             /\ e.st = "OK" => e.o.key = NULL
  <2> DEFINE e == value_fill(x, src[i])
  <2>1. src[i].type \in Types /\ src[i].val \in Opt(Text)
    BY <1>2 DEF PlainValue
  <2>2. MakesScalar(x, e) /\ (e.st = "OK" => e.o.key = NULL)
    BY <2>1, ValueFillMakes
  <2>3. AttrBlocks(e.o) = ScalarBlocks(e.o)
    <3> HIDE DEF e
    <3> QED BY <2>2, ScalarAttrBlocks DEF MakesScalar
  <2> HIDE DEF e
  <2>4. /\ e \in Made(ScalarAttr) /\ e.h.live = x.live + AttrBlocks(e.o)
        /\ e.st = "OK" => e.o.key = NULL
    BY <2>2, <2>3, UsesMade DEF MakesScalar
  <2> QED BY <2>4 DEF e
<1>4. q \in Makers(n, ScalarAttr, K)
  <2>1. q \in [1..n -> [Heaps -> Made(ScalarAttr)]]
    BY <1>3
  <2>2. \A i \in 1..n, x \in Heaps :
           /\ q[i][x].h.live = x.live + AttrBlocks(q[i][x].o)
           /\ q[i][x].st = "OK" => q[i][x].o.key = K[i]
    BY <1>3
  <2> HIDE DEF q, K
  <2> QED BY <2>1, <2>2 DEF Makers
<1>5. PICK g \in [0..n -> Made(Seq(ScalarAttr))] : MakesAll(g, n, h, q, K)
  <2>1. ScalarAttr \in SUBSET Attr
    BY ScalarAttrBlocks
  <2> HIDE DEF q, K, n
  <2> QED BY <1>2, <1>4, <2>1, EachMade
<1>6. \A i \in 1..n : g[i] = Next(i, g[i - 1])
  <2>1. ASSUME NEW i \in 1..n PROVE g[i] = Next(i, g[i - 1])
    <3>1. i - 1 \in 0..n
      BY <1>2
    <3>2. g[i - 1] \in Made(Seq(ScalarAttr))
      BY <3>1
    <3>3. g[i - 1].h \in Heaps
      BY <3>2 DEF Made
    <3>4. q[i][g[i - 1].h] = value_fill(g[i - 1].h, src[i])
      BY <3>3
    <3>5. g[i] = IF g[i - 1].st # "OK" THEN g[i - 1]
                 ELSE LET e == q[i][g[i - 1].h]
                      IN  Result(e.h, e.st, Append(g[i - 1].o, e.o))
      <4> HIDE DEF q, K, n
      <4> QED BY <1>5 DEF MakesAll
    <3> QED BY <3>4, <3>5
  <2> QED BY <2>1
<1>7. /\ g[0] = Result(h, "OK", <<>>) /\ g[n].h.live = h.live + ItemBlocks(g[n].o)
      /\ g[n].st = "OK" => Len(g[n].o) = n /\ \A j \in 1..n : g[n].o[j].key = NULL
  <2>1. /\ g[0] = Result(h, "OK", <<>>) /\ g[n].h.live = h.live + ItemBlocks(g[n].o)
        /\ g[n].st = "OK" => Len(g[n].o) = n /\ \A j \in 1..n : g[n].o[j].key = K[j]
    <3> HIDE DEF q, K, n
    <3> QED BY <1>5 DEF MakesAll
  <2> QED BY <2>1
<1>8. t = F(t)
  <2>1. g = F(g)
    <3> HIDE DEF Next
    <3> QED BY <1>6, <1>7
  <2> QED BY <2>1
<1> DEFINE T == {i \in Nat : i \in 0..n => t[i] = g[i]}
<1>9. Nat \subseteq T
  <2> HIDE DEF Next, t
  <2>1. 0 \in T
    BY <1>2, <1>7, <1>8
  <2>2. \A i \in Nat : i \in T => i + 1 \in T
    BY <1>2, <1>6, <1>8
  <2> HIDE DEF T
  <2> QED BY <2>1, <2>2, SetInduction
<1>10. m = g[n] /\ g[n] \in Made(Seq(ScalarAttr))
  BY <1>1, <1>2, <1>9
<1> HIDE DEF t
<1> QED BY <1>7, <1>10 DEF m

\* The entries of a key-value list.
LEMMA EachEntryFill ==
  ASSUME NEW h \in Heaps, NEW src \in Seq(Entry)
  PROVE  LET r == MakeEach(h, src, EntryFill) IN
         /\ r \in Made(Seq(ScalarAttr)) /\ r.h.live = h.live + ItemBlocks(r.o)
         /\ r.st = "OK" => Len(r.o) = Len(src) /\ \A j \in 1..Len(src) : r.o[j].key = src[j].key
<1> DEFINE n == Len(src)
<1> DEFINE Next(i, r) == IF r.st # "OK" THEN r
                         ELSE LET e == EntryFill(r.h, src[i])
                              IN  Result(e.h, e.st, Append(r.o, e.o))
<1> DEFINE F(u) == [i \in 0..n |-> IF i = 0 THEN Result(h, "OK", <<>>) ELSE Next(i, u[i - 1])]
<1> DEFINE t == CHOOSE u : u = F(u)
<1> DEFINE m == MakeEach(h, src, EntryFill)
<1>1. m = t[n]
  BY DEF MakeEach
<1> HIDE DEF m
<1> DEFINE q == [i \in 1..n |-> [x \in Heaps |-> EntryFill(x, src[i])]]
<1> DEFINE K == [i \in 1..n |-> src[i].key]
<1>2. n \in Nat /\ \A i \in 1..n : src[i] \in Entry
  OBVIOUS
<1>3. ASSUME NEW i \in 1..n, NEW x \in Heaps
      PROVE  LET e == EntryFill(x, src[i]) IN
             /\ e \in Made(ScalarAttr) /\ e.h.live = x.live + AttrBlocks(e.o)
             /\ e.st = "OK" => e.o.key = src[i].key
  <2> DEFINE e == EntryFill(x, src[i])
  <2>2. MakesScalar(x, e) /\ (e.st = "OK" => e.o.key = src[i].key)
    BY <1>2, EntryFillMakes
  <2>3. AttrBlocks(e.o) = ScalarBlocks(e.o)
    <3> HIDE DEF e
    <3> QED BY <2>2, ScalarAttrBlocks DEF MakesScalar
  <2> HIDE DEF e
  <2>4. /\ e \in Made(ScalarAttr) /\ e.h.live = x.live + AttrBlocks(e.o)
        /\ e.st = "OK" => e.o.key = src[i].key
    BY <2>2, <2>3, UsesMade DEF MakesScalar
  <2> QED BY <2>4 DEF e
<1>4. q \in Makers(n, ScalarAttr, K)
  <2>1. q \in [1..n -> [Heaps -> Made(ScalarAttr)]]
    BY <1>3
  <2>2. \A i \in 1..n, x \in Heaps :
           /\ q[i][x].h.live = x.live + AttrBlocks(q[i][x].o)
           /\ q[i][x].st = "OK" => q[i][x].o.key = K[i]
    BY <1>3
  <2> HIDE DEF q, K
  <2> QED BY <2>1, <2>2 DEF Makers
<1>5. PICK g \in [0..n -> Made(Seq(ScalarAttr))] : MakesAll(g, n, h, q, K)
  <2>1. ScalarAttr \in SUBSET Attr
    BY ScalarAttrBlocks
  <2> HIDE DEF q, K, n
  <2> QED BY <1>2, <1>4, <2>1, EachMade
<1>6. \A i \in 1..n : g[i] = Next(i, g[i - 1])
  <2>1. ASSUME NEW i \in 1..n PROVE g[i] = Next(i, g[i - 1])
    <3>1. i - 1 \in 0..n
      BY <1>2
    <3>2. g[i - 1] \in Made(Seq(ScalarAttr))
      BY <3>1
    <3>3. g[i - 1].h \in Heaps
      BY <3>2 DEF Made
    <3>4. q[i][g[i - 1].h] = EntryFill(g[i - 1].h, src[i])
      BY <3>3
    <3>5. g[i] = IF g[i - 1].st # "OK" THEN g[i - 1]
                 ELSE LET e == q[i][g[i - 1].h]
                      IN  Result(e.h, e.st, Append(g[i - 1].o, e.o))
      <4> HIDE DEF q, K, n
      <4> QED BY <1>5 DEF MakesAll
    <3> QED BY <3>4, <3>5
  <2> QED BY <2>1
<1>7. /\ g[0] = Result(h, "OK", <<>>) /\ g[n].h.live = h.live + ItemBlocks(g[n].o)
      /\ g[n].st = "OK" => Len(g[n].o) = n /\ \A j \in 1..n : g[n].o[j].key = src[j].key
  <2>1. /\ g[0] = Result(h, "OK", <<>>) /\ g[n].h.live = h.live + ItemBlocks(g[n].o)
        /\ g[n].st = "OK" => Len(g[n].o) = n /\ \A j \in 1..n : g[n].o[j].key = K[j]
    <3> HIDE DEF q, K, n
    <3> QED BY <1>5 DEF MakesAll
  <2> QED BY <2>1
<1>8. t = F(t)
  <2>1. g = F(g)
    <3> HIDE DEF Next
    <3> QED BY <1>6, <1>7
  <2> QED BY <2>1
<1> DEFINE T == {i \in Nat : i \in 0..n => t[i] = g[i]}
<1>9. Nat \subseteq T
  <2> HIDE DEF Next, t
  <2>1. 0 \in T
    BY <1>2, <1>7, <1>8
  <2>2. \A i \in Nat : i \in T => i + 1 \in T
    BY <1>2, <1>6, <1>8
  <2> HIDE DEF T
  <2> QED BY <2>1, <2>2, SetInduction
<1>10. m = g[n] /\ g[n] \in Made(Seq(ScalarAttr))
  BY <1>1, <1>2, <1>9
<1> HIDE DEF t
<1> QED BY <1>7, <1>10 DEF m

\* The copies of scalars.
LEMMA EachCopyScalar ==
  ASSUME NEW h \in Heaps, NEW src \in Seq(ScalarAttr)
  PROVE  LET r == MakeEach(h, src, CopyScalar) IN
         /\ r \in Made(Seq(ScalarAttr)) /\ r.h.live = h.live + ItemBlocks(r.o)
         /\ r.st = "OK" => Len(r.o) = Len(src) /\ \A j \in 1..Len(src) : r.o[j].key = src[j].key
<1> DEFINE n == Len(src)
<1> DEFINE Next(i, r) == IF r.st # "OK" THEN r
                         ELSE LET e == CopyScalar(r.h, src[i])
                              IN  Result(e.h, e.st, Append(r.o, e.o))
<1> DEFINE F(u) == [i \in 0..n |-> IF i = 0 THEN Result(h, "OK", <<>>) ELSE Next(i, u[i - 1])]
<1> DEFINE t == CHOOSE u : u = F(u)
<1> DEFINE m == MakeEach(h, src, CopyScalar)
<1>1. m = t[n]
  BY DEF MakeEach
<1> HIDE DEF m
<1> DEFINE q == [i \in 1..n |-> [x \in Heaps |-> CopyScalar(x, src[i])]]
<1> DEFINE K == [i \in 1..n |-> src[i].key]
<1>2. n \in Nat /\ \A i \in 1..n : src[i] \in ScalarAttr
  OBVIOUS
<1>3. ASSUME NEW i \in 1..n, NEW x \in Heaps
      PROVE  LET e == CopyScalar(x, src[i]) IN
             /\ e \in Made(ScalarAttr) /\ e.h.live = x.live + AttrBlocks(e.o)
             /\ e.st = "OK" => e.o.key = src[i].key
  <2> DEFINE e == CopyScalar(x, src[i])
  <2>2. MakesScalar(x, e) /\ (e.st = "OK" => e.o.key = src[i].key)
    <3>1. src[i] \in Attr
      BY <1>2, ScalarAttrBlocks
    <3> QED BY <3>1, CopyScalarMakes
  <2>3. AttrBlocks(e.o) = ScalarBlocks(e.o)
    <3> HIDE DEF e
    <3> QED BY <2>2, ScalarAttrBlocks DEF MakesScalar
  <2> HIDE DEF e
  <2>4. /\ e \in Made(ScalarAttr) /\ e.h.live = x.live + AttrBlocks(e.o)
        /\ e.st = "OK" => e.o.key = src[i].key
    BY <2>2, <2>3, UsesMade DEF MakesScalar
  <2> QED BY <2>4 DEF e
<1>4. q \in Makers(n, ScalarAttr, K)
  <2>1. q \in [1..n -> [Heaps -> Made(ScalarAttr)]]
    BY <1>3
  <2>2. \A i \in 1..n, x \in Heaps :
           /\ q[i][x].h.live = x.live + AttrBlocks(q[i][x].o)
           /\ q[i][x].st = "OK" => q[i][x].o.key = K[i]
    BY <1>3
  <2> HIDE DEF q, K
  <2> QED BY <2>1, <2>2 DEF Makers
<1>5. PICK g \in [0..n -> Made(Seq(ScalarAttr))] : MakesAll(g, n, h, q, K)
  <2>1. ScalarAttr \in SUBSET Attr
    BY ScalarAttrBlocks
  <2> HIDE DEF q, K, n
  <2> QED BY <1>2, <1>4, <2>1, EachMade
<1>6. \A i \in 1..n : g[i] = Next(i, g[i - 1])
  <2>1. ASSUME NEW i \in 1..n PROVE g[i] = Next(i, g[i - 1])
    <3>1. i - 1 \in 0..n
      BY <1>2
    <3>2. g[i - 1] \in Made(Seq(ScalarAttr))
      BY <3>1
    <3>3. g[i - 1].h \in Heaps
      BY <3>2 DEF Made
    <3>4. q[i][g[i - 1].h] = CopyScalar(g[i - 1].h, src[i])
      BY <3>3
    <3>5. g[i] = IF g[i - 1].st # "OK" THEN g[i - 1]
                 ELSE LET e == q[i][g[i - 1].h]
                      IN  Result(e.h, e.st, Append(g[i - 1].o, e.o))
      <4> HIDE DEF q, K, n
      <4> QED BY <1>5 DEF MakesAll
    <3> QED BY <3>4, <3>5
  <2> QED BY <2>1
<1>7. /\ g[0] = Result(h, "OK", <<>>) /\ g[n].h.live = h.live + ItemBlocks(g[n].o)
      /\ g[n].st = "OK" => Len(g[n].o) = n /\ \A j \in 1..n : g[n].o[j].key = src[j].key
  <2>1. /\ g[0] = Result(h, "OK", <<>>) /\ g[n].h.live = h.live + ItemBlocks(g[n].o)
        /\ g[n].st = "OK" => Len(g[n].o) = n /\ \A j \in 1..n : g[n].o[j].key = K[j]
    <3> HIDE DEF q, K, n
    <3> QED BY <1>5 DEF MakesAll
  <2> QED BY <2>1
<1>8. t = F(t)
  <2>1. g = F(g)
    <3> HIDE DEF Next
    <3> QED BY <1>6, <1>7
  <2> QED BY <2>1
<1> DEFINE T == {i \in Nat : i \in 0..n => t[i] = g[i]}
<1>9. Nat \subseteq T
  <2> HIDE DEF Next, t
  <2>1. 0 \in T
    BY <1>2, <1>7, <1>8
  <2>2. \A i \in Nat : i \in T => i + 1 \in T
    BY <1>2, <1>6, <1>8
  <2> HIDE DEF T
  <2> QED BY <2>1, <2>2, SetInduction
<1>10. m = g[n] /\ g[n] \in Made(Seq(ScalarAttr))
  BY <1>1, <1>2, <1>9
<1> HIDE DEF t
<1> QED BY <1>7, <1>10 DEF m

\* The elements of a list are scalars: their blocks are those of a list of
\* attributes.
LEMMA AttrBlocksSplit ==
  ASSUME NEW a \in Attr
  PROVE  /\ AttrBlocks(a) = Bit(a.key # NULL) + Bit(a.ptr) + Bit(a.vec) + ItemBlocks(a.items)
         /\ ItemBlocks(a.items) \in Nat /\ a.items \in Seq(Attr)
<1> DEFINE q == a.items
<1>1. q \in Seq(ScalarAttr)
  BY DEF Attr
<1>2. DOMAIN q = 1..Len(q) /\ \A i \in 1..Len(q) : q[i] \in ScalarAttr
  BY <1>1
<1>3. \A i \in DOMAIN q : AttrBlocks(q[i]) = ScalarBlocks(q[i])
  <2> HIDE DEF q
  <2> QED BY <1>2, ScalarAttrBlocks
<1>4. [i \in DOMAIN q |-> ScalarBlocks(q[i])] = [i \in DOMAIN q |-> AttrBlocks(q[i])]
  BY <1>3
<1>5. ItemBlocks(q) = SumOf([i \in DOMAIN q |-> ScalarBlocks(q[i])])
  BY <1>4 DEF ItemBlocks
<1>6. q \in Seq(Attr)
  <2>1. ScalarAttr \subseteq Attr
    BY ScalarAttrBlocks
  <2> HIDE DEF q
  <2> QED BY <1>1, <2>1
<1>7. ItemBlocks(q) \in Nat
  BY <1>6, ItemBlocksType
<1>8. AttrBlocks(a) = ScalarBlocks(a) + Bit(a.vec) + ItemBlocks(q)
  BY <1>5 DEF AttrBlocks
<1> QED BY <1>6, <1>7, <1>8 DEF ScalarBlocks

\* A list of scalars that has no key yet.
LEMMA NoAttrWithItems ==
  ASSUME NEW t \in Types, NEW v \in BOOLEAN, NEW q \in Seq(ScalarAttr)
  PROVE  LET b == [NoAttr EXCEPT !.type = t, !.ptr = TRUE, !.vec = v, !.items = q] IN
         b \in Attr /\ b.key = NULL /\ AttrBlocks(b) = 1 + Bit(v) + ItemBlocks(q)
<1> DEFINE a == NoAttr
<1>0. a \in ScalarAttr /\ a.key = NULL
  BY NoAttrFacts
<1> HIDE DEF a
<1> DEFINE b == [a EXCEPT !.type = t, !.ptr = TRUE, !.vec = v, !.items = q]
<1>1. a \in Attr /\ TRUE \in BOOLEAN
  BY <1>0, ScalarAttrBlocks
<1>2. b \in Attr
  BY Zenon, <1>1 DEF Attr
<1>3. DOMAIN a = {"key", "type", "ptr", "vec", "val", "items"}
  BY <1>0 DEF ScalarAttr
<1>4. b.key = NULL /\ b.ptr = TRUE /\ b.vec = v /\ b.items = q
  BY <1>0, <1>3
<1> HIDE DEF b
<1>5. /\ AttrBlocks(b) = Bit(b.key # NULL) + Bit(b.ptr) + Bit(b.vec) + ItemBlocks(b.items)
      /\ ItemBlocks(b.items) \in Nat
  BY <1>2, AttrBlocksSplit
<1>6. Bit(b.key # NULL) = 0 /\ Bit(b.ptr) = 1 /\ Bit(v) \in {0, 1}
  BY <1>4 DEF Bit
<1>7. AttrBlocks(b) = 1 + Bit(v) + ItemBlocks(q)
  BY <1>4, <1>5, <1>6
<1> QED BY <1>2, <1>4, <1>7 DEF b, a

\* A key and a list are copied alike.
LEMMA AttrWithItemsOnly ==
  ASSUME NEW a \in ScalarAttr, NEW q \in Seq(ScalarAttr), a.key = NULL
  PROVE  LET b == [a EXCEPT !.ptr = TRUE, !.vec = TRUE, !.items = q] IN
         b \in Attr /\ b.key = NULL /\ AttrBlocks(b) = 2 + ItemBlocks(q)
<1> DEFINE b == [a EXCEPT !.ptr = TRUE, !.vec = TRUE, !.items = q]
<1>1. a \in Attr /\ TRUE \in BOOLEAN
  BY ScalarAttrBlocks
<1>2. b \in Attr
  BY Zenon, <1>1 DEF Attr
<1>3. DOMAIN a = {"key", "type", "ptr", "vec", "val", "items"}
  BY DEF ScalarAttr
<1>4. b.key = NULL /\ b.ptr = TRUE /\ b.vec = TRUE /\ b.items = q
  BY <1>3
<1> HIDE DEF b
<1>5. /\ AttrBlocks(b) = Bit(b.key # NULL) + Bit(b.ptr) + Bit(b.vec) + ItemBlocks(b.items)
      /\ ItemBlocks(b.items) \in Nat
  BY <1>2, AttrBlocksSplit
<1>6. Bit(b.key # NULL) = 0 /\ Bit(b.ptr) = 1 /\ Bit(b.vec) = 1
  BY <1>4 DEF Bit
<1>7. AttrBlocks(b) = 2 + ItemBlocks(q)
  BY <1>4, <1>5, <1>6
<1> QED BY <1>2, <1>4, <1>7 DEF b

\* An attribute that had no key is given one.
LEMMA AttrWithNewKey ==
  ASSUME NEW a \in Attr, NEW k \in Opt(Text), a.key = NULL
  PROVE  LET b == [a EXCEPT !.key = k] IN
         b \in Attr /\ b.key = k /\ AttrBlocks(b) = AttrBlocks(a) + Bit(k # NULL)
<1> DEFINE b == [a EXCEPT !.key = k]
<1>2. b \in Attr
  BY Zenon DEF Attr
<1>3. DOMAIN a = {"key", "type", "ptr", "vec", "val", "items"}
  BY DEF Attr
<1>4. b.key = k /\ b.ptr = a.ptr /\ b.vec = a.vec /\ b.items = a.items
  BY <1>3
<1> HIDE DEF b
<1>5. /\ AttrBlocks(b) = Bit(b.key # NULL) + Bit(b.ptr) + Bit(b.vec) + ItemBlocks(b.items)
      /\ AttrBlocks(a) = Bit(a.key # NULL) + Bit(a.ptr) + Bit(a.vec) + ItemBlocks(a.items)
      /\ ItemBlocks(a.items) \in Nat
  BY <1>2, AttrBlocksSplit
<1>6. Bit(a.key # NULL) = 0 /\ Bit(a.ptr) \in {0, 1} /\ Bit(a.vec) \in {0, 1} /\ Bit(k # NULL) \in {0, 1}
  BY DEF Bit
<1>7. AttrBlocks(b) = AttrBlocks(a) + Bit(k # NULL)
  BY <1>4, <1>5, <1>6
<1> QED BY <1>2, <1>4, <1>7 DEF b

\* The heap of a result.
LEMMA UsesHeap == ASSUME NEW h, NEW r, NEW n, Uses(h, r, n) PROVE r.h \in Heaps /\ r.h.live = h.live + n
BY DEF Uses

\* A result with no object to speak of, and as many blocks in use as before.
LEMMA UsesNothing ==
  ASSUME NEW h \in Heaps, NEW g \in Heaps, NEW x \in Statuses, NEW a \in ScalarAttr,
         g.live = h.live, ScalarBlocks(a) = 0
  PROVE  Makes(h, Result(g, x, a))
<1>1. a \in Attr /\ AttrBlocks(a) = 0 /\ h.live + 0 = h.live
  BY ScalarAttrBlocks, HeapNumbers
<1> QED BY <1>1, ResultParts DEF Makes, Uses

\* The array header, the element array and the elements of a list, or nothing.
LEMMA NestedMakes ==
  ASSUME NEW h \in Heaps, NEW two \in BOOLEAN, NEW each, NEW a \in ScalarAttr, NEW full \in Attr,
         a.key = NULL, a.ptr = FALSE, full.key = NULL,
         LET head == otlp_malloc(h)
             array == IF two THEN otlp_malloc(head) ELSE head
         IN  CanAlloc(h) /\ (two => CanAlloc(head))
             => /\ each \in Made(Seq(ScalarAttr))
                /\ each.h.live = array.live + ItemBlocks(each.o)
                /\ AttrBlocks(full) = 1 + Bit(two) + ItemBlocks(each.o)
  PROVE  LET head == otlp_malloc(h)
             array == IF two THEN otlp_malloc(head) ELSE head
             r == IF ~ CanAlloc(h) THEN Result(head, "NOMEM", a)
                  ELSE IF two /\ ~ CanAlloc(head) THEN Result(otlp_free(array, 1), "NOMEM", a)
                  ELSE IF each.st # "OK"
                       THEN Result(otlp_free(FreeBuilt(each.h, each.o), 1 + Bit(two)), each.st, a)
                  ELSE Result(each.h, "OK", full)
         IN  Makes(h, r) /\ r.o.key = NULL /\ (r.st # "OK" => r.o = a)
<1> DEFINE head == otlp_malloc(h)
<1> DEFINE array == IF two THEN otlp_malloc(head) ELSE head
<1> DEFINE r == IF ~ CanAlloc(h) THEN Result(head, "NOMEM", a)
                  ELSE IF two /\ ~ CanAlloc(head) THEN Result(otlp_free(array, 1), "NOMEM", a)
                  ELSE IF each.st # "OK"
                       THEN Result(otlp_free(FreeBuilt(each.h, each.o), 1 + Bit(two)), each.st, a)
                  ELSE Result(each.h, "OK", full)
<1> DEFINE Good(x) == Makes(h, x) /\ x.o.key = NULL /\ (x.st # "OK" => x.o = a)
<1> SUFFICES Good(r)
  OBVIOUS
<1>1. /\ head \in Heaps /\ head.live = h.live + Bit(CanAlloc(h)) /\ h.live \in Int
      /\ otlp_malloc(head) \in Heaps
      /\ otlp_malloc(head).live = head.live + Bit(CanAlloc(head))
      /\ Bit(TRUE) = 1 /\ Bit(FALSE) = 0
  BY MallocUses, HeapNumbers DEF Bit
<1>2. ScalarBlocks(a) = 0
  BY DEF ScalarBlocks, Bit
<1>3. ASSUME NEW g \in Heaps, NEW x \in Statuses, g.live = h.live PROVE Good(Result(g, x, a))
  BY <1>2, <1>3, UsesNothing, ResultParts
<1>4. array \in Heaps
  BY <1>1
<1>5. ASSUME CanAlloc(h), two => CanAlloc(head)
      PROVE  array.live = h.live + 1 + Bit(two)
  BY <1>1, <1>5 DEF Bit
<1>6. CanAlloc(h) /\ (two => CanAlloc(head))
             => /\ each \in Made(Seq(ScalarAttr))
                /\ each.h.live = array.live + ItemBlocks(each.o)
                /\ AttrBlocks(full) = 1 + Bit(two) + ItemBlocks(each.o)
  OBVIOUS
<1> HIDE DEF Good, head, array
<1>7. CASE ~ CanAlloc(h)
  <2>1. head.live = h.live
    BY <1>1, <1>7 DEF Bit
  <2> QED BY <1>1, <1>3, <1>7, <2>1 DEF Statuses
<1>8. CASE CanAlloc(h) /\ two /\ ~ CanAlloc(head)
  <2>1. array.live = h.live + 1
    BY <1>1, <1>8 DEF Bit, array
  <2>2. otlp_free(array, 1) \in Heaps /\ otlp_free(array, 1).live = h.live
    <3>1. otlp_free(array, 1) \in Heaps /\ otlp_free(array, 1).live = array.live - 1
      BY <1>4, FreeUses
    <3> QED BY <1>1, <2>1, <3>1
  <2> QED BY <1>3, <1>8, <2>2 DEF Statuses
<1>9. CASE CanAlloc(h) /\ (two => CanAlloc(head))
  <2>1. /\ each.h \in Heaps /\ each.st \in Statuses /\ each.o \in Seq(ScalarAttr)
        /\ each.h.live = h.live + (1 + Bit(two)) + ItemBlocks(each.o)
    <3>1. each.h.live = (h.live + 1 + Bit(two)) + ItemBlocks(each.o)
      BY <1>5, <1>6, <1>9
    <3>2. Bit(two) \in Int
      BY BitType
    <3> QED BY <1>1, <1>6, <1>9, <3>1, <3>2 DEF Made
  <2>2. each.o \in Seq(Attr) /\ ItemBlocks(each.o) \in Nat
    <3>1. ScalarAttr \subseteq Attr
      BY ScalarAttrBlocks
    <3>2. each.o \in Seq(Attr)
      BY <2>1, <3>1
    <3> QED BY <3>2, ItemBlocksType
  <2>3. 1 + Bit(two) \in Int
    BY BitType
  <2> DEFINE c == 1 + Bit(two)
  <2> HIDE DEF c
  <2>4. c \in Int /\ each.h.live = h.live + c + ItemBlocks(each.o)
    BY <2>1, <2>3 DEF c
  <2>5. CASE each.st # "OK"
    <3> DEFINE f == FreeBuilt(each.h, each.o)
    <3>1. f \in Heaps /\ f.live = h.live + c
      <4>1. f \in Heaps /\ f.live = each.h.live - ItemBlocks(each.o)
        <5>1. f = otlp_free(each.h, ItemBlocks(each.o))
          BY DEF FreeBuilt
        <5>2. each.h \in Heaps /\ ItemBlocks(each.o) \in Int
          BY <2>1, <2>2
        <5> HIDE DEF f
        <5> QED BY <5>1, <5>2, FreeUses
      <4> HIDE DEF f
      <4> QED BY <1>1, <2>2, <2>4, <4>1
    <3> HIDE DEF f
    <3>2. otlp_free(f, c) \in Heaps /\ otlp_free(f, c).live = h.live
      <4>1. otlp_free(f, c) \in Heaps /\ otlp_free(f, c).live = f.live - c
        BY <2>4, <3>1, FreeUses
      <4> QED BY <1>1, <2>4, <3>1, <4>1
    <3>3. Good(Result(otlp_free(f, c), each.st, a))
      BY <1>3, <2>1, <3>2
    <3> QED BY <1>9, <2>5, <3>3 DEF f, c
  <2>6. CASE each.st = "OK"
    <3>1. r = Result(each.h, "OK", full)
      BY <1>9, <2>6
    <3>2. AttrBlocks(full) = c + ItemBlocks(each.o)
      BY <1>6, <1>9 DEF c
    <3>3. each.h.live = h.live + AttrBlocks(full)
      BY <1>1, <2>2, <2>4, <3>2
    <3> HIDE DEF r
    <3> QED BY <2>1, <3>1, <3>3, ResultParts DEF Good, Makes, Uses, Statuses
  <2> QED BY <2>5, <2>6
<1> QED BY <1>7, <1>8, <1>9

\* An array built from its elements.
LEMMA ArrayBuildMakes ==
  ASSUME NEW h \in Heaps, NEW items \in Opt(Seq(PlainValue))
  PROVE  LET r == otlp_attr_array_build(h, items) IN
         Makes(h, r) /\ r.o.key = NULL /\ (r.st # "OK" => AttrBlocks(r.o) = 0)
<1> DEFINE r == otlp_attr_array_build(h, items)
<1>1. CASE items = NULL
  <2>1. r = Result(h, "NULL", NoAttr)
    BY <1>1 DEF otlp_attr_array_build
  <2>2. NoAttr \in ScalarAttr /\ ScalarBlocks(NoAttr) = 0 /\ AttrBlocks(NoAttr) = 0
    BY NoAttrFacts, ScalarAttrBlocks
  <2> HIDE DEF r
  <2>3. Makes(h, r) /\ r.o = NoAttr
    BY <2>1, <2>2, UsesNothing, ResultParts DEF Statuses
  <2> QED BY <2>2, <2>3, NoAttrFacts DEF r
<1>2. CASE items # NULL
  <2> DEFINE two == items # <<>>
  <2> DEFINE head == otlp_malloc(h)
  <2> DEFINE array == IF two THEN otlp_malloc(head) ELSE head
  <2> DEFINE each == MakeEach(array, items, value_fill)
  <2> DEFINE full == [NoAttr EXCEPT !.type = "ARRAY", !.ptr = TRUE, !.vec = two, !.items = each.o]
  <2>1. items \in Seq(PlainValue)
    BY <1>2 DEF Opt
  <2>2. array \in Heaps
    BY MallocUses
  <2>3. each \in Made(Seq(ScalarAttr)) /\ each.h.live = array.live + ItemBlocks(each.o)
    <3> HIDE DEF array
    <3> QED BY <2>1, <2>2, EachValueFill
  <2>4. each.o \in Seq(ScalarAttr)
    <3> HIDE DEF each
    <3> QED BY <2>3 DEF Made
  <2>5. full \in Attr /\ full.key = NULL /\ AttrBlocks(full) = 1 + Bit(two) + ItemBlocks(each.o)
    <3>1. "ARRAY" \in Types /\ two \in BOOLEAN
      BY DEF Types
    <3> DEFINE q == each.o
    <3> DEFINE a == "ARRAY"
    <3>2. q \in Seq(ScalarAttr) /\ a \in Types
      BY <2>4, <3>1
    <3> HIDE DEF each, two, q, a
    <3>3. LET b == [NoAttr EXCEPT !.type = a, !.ptr = TRUE, !.vec = two, !.items = q] IN
          b \in Attr /\ b.key = NULL /\ AttrBlocks(b) = 1 + Bit(two) + ItemBlocks(q)
      BY Zenon, <3>1, <3>2, NoAttrWithItems
    <3> QED BY <3>3 DEF q, a
  <2>6. r = IF ~ CanAlloc(h) THEN Result(head, "NOMEM", NoAttr)
            ELSE IF two /\ ~ CanAlloc(head) THEN Result(otlp_free(array, 1), "NOMEM", NoAttr)
            ELSE IF each.st # "OK"
                 THEN Result(otlp_free(FreeBuilt(each.h, each.o), 1 + Bit(two)), each.st, NoAttr)
            ELSE Result(each.h, "OK", full)
    BY <1>2 DEF otlp_attr_array_build, BuildNested
  <2>7. Makes(h, r) /\ r.o.key = NULL /\ (r.st # "OK" => r.o = NoAttr)
    <3>1. two \in BOOLEAN
      OBVIOUS
    <3> HIDE DEF each, two, full, r
    <3> QED BY <2>3, <2>5, <2>6, <3>1, NoAttrFacts, NestedMakes
  <2>8. AttrBlocks(NoAttr) = 0
    BY NoAttrFacts, ScalarAttrBlocks
  <2> HIDE DEF r
  <2> QED BY <2>7, <2>8 DEF r
<1> QED BY <1>1, <1>2
\* A key-value list built from its entries.
LEMMA KvlistBuildMakes ==
  ASSUME NEW h \in Heaps, NEW entries \in Opt(Seq(Entry))
  PROVE  LET r == otlp_attr_kvlist_build(h, entries) IN
         Makes(h, r) /\ r.o.key = NULL /\ (r.st # "OK" => AttrBlocks(r.o) = 0)
<1> DEFINE r == otlp_attr_kvlist_build(h, entries)
<1>1. CASE entries = NULL
  <2>1. r = Result(h, "NULL", NoAttr)
    BY <1>1 DEF otlp_attr_kvlist_build
  <2>2. NoAttr \in ScalarAttr /\ ScalarBlocks(NoAttr) = 0 /\ AttrBlocks(NoAttr) = 0
    BY NoAttrFacts, ScalarAttrBlocks
  <2> HIDE DEF r
  <2>3. Makes(h, r) /\ r.o = NoAttr
    BY <2>1, <2>2, UsesNothing, ResultParts DEF Statuses
  <2> QED BY <2>2, <2>3, NoAttrFacts DEF r
<1>2. CASE entries # NULL
  <2> DEFINE two == entries # <<>>
  <2> DEFINE head == otlp_malloc(h)
  <2> DEFINE array == IF two THEN otlp_malloc(head) ELSE head
  <2> DEFINE each == MakeEach(array, entries, EntryFill)
  <2> DEFINE full == [NoAttr EXCEPT !.type = "KVLIST", !.ptr = TRUE, !.vec = two, !.items = each.o]
  <2>1. entries \in Seq(Entry)
    BY <1>2 DEF Opt
  <2>2. array \in Heaps
    BY MallocUses
  <2>3. each \in Made(Seq(ScalarAttr)) /\ each.h.live = array.live + ItemBlocks(each.o)
    <3> HIDE DEF array
    <3> QED BY <2>1, <2>2, EachEntryFill
  <2>4. each.o \in Seq(ScalarAttr)
    <3> HIDE DEF each
    <3> QED BY <2>3 DEF Made
  <2>5. full \in Attr /\ full.key = NULL /\ AttrBlocks(full) = 1 + Bit(two) + ItemBlocks(each.o)
    <3>1. "KVLIST" \in Types /\ two \in BOOLEAN
      BY DEF Types
    <3> DEFINE q == each.o
    <3> DEFINE a == "KVLIST"
    <3>2. q \in Seq(ScalarAttr) /\ a \in Types
      BY <2>4, <3>1
    <3> HIDE DEF each, two, q, a
    <3>3. LET b == [NoAttr EXCEPT !.type = a, !.ptr = TRUE, !.vec = two, !.items = q] IN
          b \in Attr /\ b.key = NULL /\ AttrBlocks(b) = 1 + Bit(two) + ItemBlocks(q)
      BY Zenon, <3>1, <3>2, NoAttrWithItems
    <3> QED BY <3>3 DEF q, a
  <2>6. r = IF ~ CanAlloc(h) THEN Result(head, "NOMEM", NoAttr)
            ELSE IF two /\ ~ CanAlloc(head) THEN Result(otlp_free(array, 1), "NOMEM", NoAttr)
            ELSE IF each.st # "OK"
                 THEN Result(otlp_free(FreeBuilt(each.h, each.o), 1 + Bit(two)), each.st, NoAttr)
            ELSE Result(each.h, "OK", full)
    BY <1>2 DEF otlp_attr_kvlist_build, BuildNested
  <2>7. Makes(h, r) /\ r.o.key = NULL /\ (r.st # "OK" => r.o = NoAttr)
    <3>1. two \in BOOLEAN
      OBVIOUS
    <3> HIDE DEF each, two, full, r
    <3> QED BY <2>3, <2>5, <2>6, <3>1, NoAttrFacts, NestedMakes
  <2>8. AttrBlocks(NoAttr) = 0
    BY NoAttrFacts, ScalarAttrBlocks
  <2> HIDE DEF r
  <2> QED BY <2>7, <2>8 DEF r
<1> QED BY <1>1, <1>2

\* The copy of a list, with what its elements point to.
LEMMA CopyNestedMakes ==
  ASSUME NEW h \in Heaps, NEW src \in Attr
  PROVE  LET r == CopyNested(h, src) IN Makes(h, r) /\ r.o.key = NULL
<1> DEFINE r == CopyNested(h, src)
<1> DEFINE dst == [NoAttr EXCEPT !.type = src.type]
<1>1. src.type \in Types /\ src.items \in Seq(ScalarAttr) /\ src.ptr \in BOOLEAN
  BY DEF Attr
<1>2. dst \in ScalarAttr /\ dst.key = NULL /\ dst.ptr = FALSE
  BY <1>1, NoAttrFacts, AttrWithType
<1>3. ScalarBlocks(dst) = 0
  <2> HIDE DEF dst
  <2> QED BY <1>2 DEF ScalarBlocks, Bit
<1>4. CASE ~ src.ptr
  <2>1. r = Result(h, "OK", dst)
    BY <1>4 DEF CopyNested
  <2> HIDE DEF dst, r
  <2>2. Makes(h, r) /\ r.o = dst
    BY <1>2, <1>3, <2>1, UsesNothing, ResultParts DEF Statuses
  <2> QED BY <1>2, <2>2 DEF r
<1>5. CASE src.ptr
  <2> DEFINE two == TRUE
  <2> DEFINE head == otlp_malloc(h)
  <2> DEFINE array == IF two THEN otlp_malloc(head) ELSE head
  <2> DEFINE each == MakeEach(array, src.items, CopyScalar)
  <2> DEFINE full == [dst EXCEPT !.ptr = TRUE, !.vec = TRUE, !.items = each.o]
  <2>2. array \in Heaps
    BY MallocUses
  <2>3. each \in Made(Seq(ScalarAttr)) /\ each.h.live = array.live + ItemBlocks(each.o)
    <3> HIDE DEF array
    <3> QED BY <1>1, <2>2, EachCopyScalar
  <2>4. full \in Attr /\ full.key = NULL /\ AttrBlocks(full) = 2 + ItemBlocks(each.o)
    <3> DEFINE q == each.o
    <3>1. q \in Seq(ScalarAttr)
      <4> HIDE DEF each
      <4> QED BY <2>3 DEF Made
    <3> HIDE DEF q, dst
    <3>2. LET b == [dst EXCEPT !.ptr = TRUE, !.vec = TRUE, !.items = q] IN
         b \in Attr /\ b.key = NULL /\ AttrBlocks(b) = 2 + ItemBlocks(q)
      BY Zenon, <1>2, <3>1, AttrWithItemsOnly
    <3> QED BY <3>2 DEF q
  <2>5. AttrBlocks(full) = 1 + Bit(two) + ItemBlocks(each.o)
    <3>1. 1 + Bit(two) = 2
      BY DEF Bit
    <3> HIDE DEF full, each, two
    <3> QED BY <2>4, <3>1
  <2>6. r = IF ~ CanAlloc(h) THEN Result(head, "NOMEM", dst)
            ELSE IF two /\ ~ CanAlloc(head) THEN Result(otlp_free(array, 1), "NOMEM", dst)
            ELSE IF each.st # "OK"
                 THEN Result(otlp_free(FreeBuilt(each.h, each.o), 1 + Bit(two)), each.st, dst)
            ELSE Result(each.h, "OK", full)
    <3>1. 1 + Bit(two) = 2
      BY DEF Bit
    <3> HIDE DEF dst
    <3> QED BY <1>5, <3>1 DEF CopyNested, dst
  <2>7. Makes(h, r) /\ r.o.key = NULL
    <3>1. two \in BOOLEAN
      OBVIOUS
    <3> HIDE DEF each, two, full, r, dst
    <3> QED BY <1>2, <2>3, <2>4, <2>5, <2>6, <3>1, NestedMakes
  <2> HIDE DEF r
  <2> QED BY <2>7 DEF r
<1> QED BY <1>1, <1>4, <1>5

\* The copy of an attribute, half-built if a call for memory fails; one that
\* does not fail has the key.
LEMMA CopyOneMakes ==
  ASSUME NEW h \in Heaps, NEW src \in Attr
  PROVE  LET r == attr_copy_one(h, src) IN Makes(h, r) /\ (r.st = "OK" => r.o.key = src.key)
<1> DEFINE r == attr_copy_one(h, src)
<1> DEFINE key == otlp_dup_str(h, src.key)
<1> DEFINE c == CopyNested(key.h, src)
<1>1. r = IF src.type \notin {"ARRAY", "KVLIST"} THEN CopyScalar(h, src)
          ELSE IF key.st # "OK" THEN Result(key.h, "NOMEM", NoAttr)
          ELSE Result(c.h, c.st, [c.o EXCEPT !.key = key.o])
  BY DEF attr_copy_one, Into
<1>2. src.key \in Opt(Text)
  BY DEF Attr
<1>3. /\ Uses(h, key, Bit(key.o # NULL)) /\ key.h \in Heaps
      /\ key.h.live = h.live + Bit(key.o # NULL)
      /\ key.st = "OK" => key.o = src.key
      /\ key.st # "OK" => key.o = NULL
  BY DupStrUses DEF Uses
<1>4. key.o \in Opt(Text)
  BY <1>2, <1>3, TextFacts
<1>5. Makes(key.h, c) /\ c.o.key = NULL
  BY <1>3, CopyNestedMakes
<1> DEFINE Good(x) == Makes(h, x) /\ (x.st = "OK" => x.o.key = src.key)
<1> SUFFICES Good(r)
  OBVIOUS
<1> HIDE DEF key, c, r
<1>6. CASE r = CopyScalar(h, src)
  <2>1. MakesScalar(h, r) /\ (r.st = "OK" => r.o.key = src.key)
    BY <1>6, CopyScalarMakes
  <2> QED BY <2>1, MakesScalarMakes
<1>7. CASE key.st # "OK" /\ r = Result(key.h, "NOMEM", NoAttr)
  <2>1. key.h.live = h.live
    BY <1>3, <1>7, HeapNumbers DEF Bit
  <2>2. Makes(h, r) /\ r.st = "NOMEM"
    BY <1>3, <1>7, <2>1, NoAttrFacts, UsesNothing, ResultParts DEF Statuses
  <2> QED BY <2>2
<1>8. CASE key.st = "OK" /\ r = Result(c.h, c.st, [c.o EXCEPT !.key = key.o])
  <2> DEFINE a == [c.o EXCEPT !.key = key.o]
  <2>1. a \in Attr /\ a.key = key.o /\ AttrBlocks(a) = AttrBlocks(c.o) + Bit(key.o # NULL)
    BY <1>4, <1>5, AttrWithNewKey DEF Makes
  <2> HIDE DEF a
  <2>2. c.h \in Heaps /\ c.st \in Statuses /\ c.h.live = key.h.live + AttrBlocks(c.o)
    BY <1>5 DEF Makes, Uses
  <2>3. AttrBlocks(c.o) \in Int /\ Bit(key.o # NULL) \in Int /\ h.live \in Int
    BY <1>5, AttrBlocksType, BitType, HeapNumbers DEF Makes
  <2>4. c.h.live = h.live + AttrBlocks(a)
    BY <1>3, <2>1, <2>2, <2>3
  <2>5. r = Result(c.h, c.st, a)
    BY <1>8 DEF a
  <2> QED BY <1>3, <1>8, <2>1, <2>2, <2>4, <2>5, ResultParts DEF Makes, Uses
<1> QED BY <1>1, <1>6, <1>7, <1>8
\* The copies of attributes.
LEMMA EachCopyOne ==
  ASSUME NEW h \in Heaps, NEW src \in Seq(Attr)
  PROVE  LET r == MakeEach(h, src, attr_copy_one) IN
         /\ r \in Made(Seq(Attr)) /\ r.h.live = h.live + ItemBlocks(r.o)
         /\ r.st = "OK" => Len(r.o) = Len(src) /\ \A j \in 1..Len(src) : r.o[j].key = src[j].key
<1> DEFINE n == Len(src)
<1> DEFINE Next(i, r) == IF r.st # "OK" THEN r
                         ELSE LET e == attr_copy_one(r.h, src[i])
                              IN  Result(e.h, e.st, Append(r.o, e.o))
<1> DEFINE F(u) == [i \in 0..n |-> IF i = 0 THEN Result(h, "OK", <<>>) ELSE Next(i, u[i - 1])]
<1> DEFINE t == CHOOSE u : u = F(u)
<1> DEFINE m == MakeEach(h, src, attr_copy_one)
<1>1. m = t[n]
  BY DEF MakeEach
<1> HIDE DEF m
<1> DEFINE q == [i \in 1..n |-> [x \in Heaps |-> attr_copy_one(x, src[i])]]
<1> DEFINE K == [i \in 1..n |-> src[i].key]
<1>2. n \in Nat /\ \A i \in 1..n : src[i] \in Attr
  OBVIOUS
<1>3. ASSUME NEW i \in 1..n, NEW x \in Heaps
      PROVE  LET e == attr_copy_one(x, src[i]) IN
             /\ e \in Made(Attr) /\ e.h.live = x.live + AttrBlocks(e.o)
             /\ e.st = "OK" => e.o.key = src[i].key
  <2> DEFINE e == attr_copy_one(x, src[i])
  <2>2. Makes(x, e) /\ (e.st = "OK" => e.o.key = src[i].key)
    BY <1>2, CopyOneMakes
  <2> HIDE DEF e
  <2>4. /\ e \in Made(Attr) /\ e.h.live = x.live + AttrBlocks(e.o)
        /\ e.st = "OK" => e.o.key = src[i].key
    BY <2>2, UsesMade DEF Makes
  <2> QED BY <2>4 DEF e
<1>4. q \in Makers(n, Attr, K)
  <2>1. q \in [1..n -> [Heaps -> Made(Attr)]]
    BY <1>3
  <2>2. \A i \in 1..n, x \in Heaps :
           /\ q[i][x].h.live = x.live + AttrBlocks(q[i][x].o)
           /\ q[i][x].st = "OK" => q[i][x].o.key = K[i]
    BY <1>3
  <2> HIDE DEF q, K
  <2> QED BY <2>1, <2>2 DEF Makers
<1>5. PICK g \in [0..n -> Made(Seq(Attr))] : MakesAll(g, n, h, q, K)
  <2>1. Attr \in SUBSET Attr
    OBVIOUS
  <2> HIDE DEF q, K, n
  <2> QED BY <1>2, <1>4, <2>1, EachMade
<1>6. \A i \in 1..n : g[i] = Next(i, g[i - 1])
  <2>1. ASSUME NEW i \in 1..n PROVE g[i] = Next(i, g[i - 1])
    <3>1. i - 1 \in 0..n
      BY <1>2
    <3>2. g[i - 1] \in Made(Seq(Attr))
      BY <3>1
    <3>3. g[i - 1].h \in Heaps
      BY <3>2 DEF Made
    <3>4. q[i][g[i - 1].h] = attr_copy_one(g[i - 1].h, src[i])
      BY <3>3
    <3>5. g[i] = IF g[i - 1].st # "OK" THEN g[i - 1]
                 ELSE LET e == q[i][g[i - 1].h]
                      IN  Result(e.h, e.st, Append(g[i - 1].o, e.o))
      <4> HIDE DEF q, K, n
      <4> QED BY <1>5 DEF MakesAll
    <3> QED BY <3>4, <3>5
  <2> QED BY <2>1
<1>7. /\ g[0] = Result(h, "OK", <<>>) /\ g[n].h.live = h.live + ItemBlocks(g[n].o)
      /\ g[n].st = "OK" => Len(g[n].o) = n /\ \A j \in 1..n : g[n].o[j].key = src[j].key
  <2>1. /\ g[0] = Result(h, "OK", <<>>) /\ g[n].h.live = h.live + ItemBlocks(g[n].o)
        /\ g[n].st = "OK" => Len(g[n].o) = n /\ \A j \in 1..n : g[n].o[j].key = K[j]
    <3> HIDE DEF q, K, n
    <3> QED BY <1>5 DEF MakesAll
  <2> QED BY <2>1
<1>8. t = F(t)
  <2>1. g = F(g)
    <3> HIDE DEF Next
    <3> QED BY <1>6, <1>7
  <2> QED BY <2>1
<1> DEFINE T == {i \in Nat : i \in 0..n => t[i] = g[i]}
<1>9. Nat \subseteq T
  <2> HIDE DEF Next, t
  <2>1. 0 \in T
    BY <1>2, <1>7, <1>8
  <2>2. \A i \in Nat : i \in T => i + 1 \in T
    BY <1>2, <1>6, <1>8
  <2> HIDE DEF T
  <2> QED BY <2>1, <2>2, SetInduction
<1>10. m = g[n] /\ g[n] \in Made(Seq(Attr))
  BY <1>1, <1>2, <1>9
<1> HIDE DEF t
<1> QED BY <1>7, <1>10 DEF m

\* A copy of a list of attributes, or nothing.
LEMMA CopyAllMakes ==
  ASSUME NEW h \in Heaps, NEW src \in Seq(Attr)
  PROVE  LET r == otlp_attribute_copy_all(h, src) IN
         /\ r \in Made(Seq(Attr)) /\ r.h.live = h.live + ItemBlocks(r.o)
         /\ r.st = "OK" => Len(r.o) = Len(src) /\ \A j \in 1..Len(src) : r.o[j].key = src[j].key
         /\ r.st # "OK" => r.o = <<>>
<1> DEFINE r == otlp_attribute_copy_all(h, src)
<1> DEFINE each == MakeEach(h, src, attr_copy_one)
<1>1. /\ each \in Made(Seq(Attr)) /\ each.h.live = h.live + ItemBlocks(each.o)
      /\ each.st = "OK" => Len(each.o) = Len(src) /\ \A j \in 1..Len(src) : each.o[j].key = src[j].key
  BY EachCopyOne
<1>2. r = IF each.st = "OK" THEN each ELSE Result(FreeBuilt(each.h, each.o), "NOMEM", <<>>)
  BY DEF otlp_attribute_copy_all
<1> DEFINE Good(x) ==
         /\ x \in Made(Seq(Attr)) /\ x.h.live = h.live + ItemBlocks(x.o)
         /\ x.st = "OK" => Len(x.o) = Len(src) /\ \A j \in 1..Len(src) : x.o[j].key = src[j].key
         /\ x.st # "OK" => x.o = <<>>
<1> SUFFICES Good(r)
  OBVIOUS
<1> HIDE DEF each, r
<1>3. CASE each.st = "OK"
  BY <1>1, <1>2, <1>3
<1>4. CASE each.st # "OK"
  <2> DEFINE f == FreeBuilt(each.h, each.o)
  <2>1. each.h \in Heaps /\ each.o \in Seq(Attr)
    BY <1>1 DEF Made
  <2>2. ItemBlocks(each.o) \in Int /\ h.live \in Int
    BY <2>1, ItemBlocksType, HeapNumbers
  <2>3. f \in Heaps /\ f.live = each.h.live - ItemBlocks(each.o)
    BY <2>1, <2>2, FreeUses DEF FreeBuilt
  <2> HIDE DEF f
  <2>4. f.live = h.live + 0
    BY <1>1, <2>2, <2>3
  <2>5. r = Result(f, "NOMEM", <<>>)
    BY <1>2, <1>4 DEF f
  <2>6. r.h = f /\ r.st = "NOMEM" /\ r.o = <<>> /\ r \in Made(Seq(Attr))
    BY <2>3, <2>5 DEF Result, Made, Statuses
  <2> QED BY <2>4, <2>6, ItemBlocksNone
<1> QED BY <1>3, <1>4

---------------------------------------------------------------------------
(* Vectors *)

\* A vector within its capacity, its capacity within the limit, no key twice.
GoodVec(v, max) ==
  /\ v \in Vec /\ Len(v.items) <= v.cap /\ v.cap <= max
  /\ \A i, j \in DOMAIN v.items : v.items[i].key = v.items[j].key => i = j

\* What a vector owns.
LEMMA VecBlocksType ==
  ASSUME NEW v \in Vec
  PROVE  /\ VecBlocks(v) \in Nat /\ ItemBlocks(v.items) \in Nat /\ v.items \in Seq(Attr)
         /\ v.cap \in Nat /\ Len(v.items) \in Nat
         /\ v.cap = 0 => VecBlocks(v) = 0
         /\ v.cap # 0 => VecBlocks(v) = 1 + ItemBlocks(v.items)
<1>1. v.items \in Seq(Attr) /\ v.cap \in Nat
  BY DEF Vec
<1>2. ItemBlocks(v.items) \in Nat
  BY <1>1, ItemBlocksType
<1> QED BY <1>1, <1>2 DEF VecBlocks

\* The empty vector.
LEMMA NoVecGood ==
  ASSUME NEW max \in Nat PROVE GoodVec(NoVec, max) /\ VecBlocks(NoVec) = 0 /\ NoVec \in Vec
BY DEF GoodVec, NoVec, Vec, VecBlocks

\* An attribute takes the place of one with the same key.
LEMMA VecPut ==
  ASSUME NEW max \in Nat, NEW v, GoodVec(v, max), NEW k \in 1..Len(v.items), NEW a \in Attr,
         a.key = v.items[k].key
  PROVE  LET w == [v EXCEPT !.items[k] = a] IN
         /\ GoodVec(w, max) /\ Len(w.items) = Len(v.items) /\ w.items[k] = a
         /\ VecBlocks(w) = VecBlocks(v) + AttrBlocks(a) - AttrBlocks(v.items[k])
<1> DEFINE w == [v EXCEPT !.items[k] = a]
<1> DEFINE n == Len(v.items)
<1> DEFINE q == [v.items EXCEPT ![k] = a]
<1>1. /\ v.items \in Seq(Attr) /\ v.cap \in Nat /\ n \in Nat /\ DOMAIN v.items = 1..n
      /\ DOMAIN v = {"items", "cap"}
      /\ \A i, j \in 1..n : v.items[i].key = v.items[j].key => i = j
      /\ n <= v.cap /\ v.cap <= max /\ v \in Vec
  BY DEF GoodVec, Vec
<1>2. /\ q \in Seq(Attr) /\ Len(q) = n /\ DOMAIN q = 1..n /\ q[k] = a
      /\ \A i \in 1..n : i # k => q[i] = v.items[i]
  BY <1>1
<1>3. w.items = q /\ w.cap = v.cap
  BY <1>1
<1>4. w \in Vec
  <2>1. w = [v EXCEPT !.items = q]
    BY <1>1
  <2> HIDE DEF q, w
  <2> QED BY Zenon, <1>1, <1>2, <2>1 DEF Vec
<1>5. ItemBlocks(q) = ItemBlocks(v.items) + AttrBlocks(a) - AttrBlocks(v.items[k])
  BY <1>1, ItemBlocksReplace
<1> HIDE DEF q, w
<1>6. \A i \in 1..n : q[i].key = v.items[i].key
  BY <1>2
<1>7. GoodVec(w, max)
  BY <1>1, <1>2, <1>3, <1>4, <1>6 DEF GoodVec
<1>8. VecBlocks(w) = VecBlocks(v) + AttrBlocks(a) - AttrBlocks(v.items[k])
  <2>1. v.cap # 0
    BY <1>1
  <2>2. VecBlocks(v) = 1 + ItemBlocks(v.items) /\ VecBlocks(w) = 1 + ItemBlocks(q)
    BY <1>1, <1>3, <1>4, <2>1, VecBlocksType
  <2>3. AttrBlocks(a) \in Int /\ AttrBlocks(v.items[k]) \in Int /\ ItemBlocks(v.items) \in Int
    BY <1>1, AttrBlocksType, ItemBlocksType
  <2> QED BY <1>5, <2>2, <2>3
<1> QED BY <1>2, <1>3, <1>7, <1>8 DEF w

\* The vector has no such key.
Fresh(v, key) == \A i \in 1..Len(v.items) : v.items[i].key # key

\* An attribute with a new key is put at the end.
LEMMA VecAdd ==
  ASSUME NEW max \in Nat, NEW v, GoodVec(v, max), Len(v.items) < v.cap, NEW a \in Attr,
         Fresh(v, a.key), NEW q, q = Append(v.items, a)
  PROVE  LET w == [v EXCEPT !.items = q] IN
         /\ GoodVec(w, max) /\ Len(w.items) = Len(v.items) + 1 /\ w.items[Len(v.items) + 1] = a
         /\ VecBlocks(w) = VecBlocks(v) + AttrBlocks(a)
<1> DEFINE w == [v EXCEPT !.items = q]
<1> DEFINE n == Len(v.items)
<1>1. /\ v.items \in Seq(Attr) /\ v.cap \in Nat /\ n \in Nat /\ DOMAIN v.items = 1..n
      /\ DOMAIN v = {"items", "cap"}
      /\ \A i, j \in 1..n : v.items[i].key = v.items[j].key => i = j
      /\ n < v.cap /\ v.cap <= max /\ v \in Vec
  BY DEF GoodVec, Vec
<1>2. /\ q \in Seq(Attr) /\ Len(q) = n + 1 /\ DOMAIN q = 1..(n + 1) /\ q[n + 1] = a
      /\ \A i \in 1..n : q[i] = v.items[i]
  BY <1>1
<1>3. w.items = q /\ w.cap = v.cap
  BY <1>1
<1>4. w \in Vec
  BY Zenon, <1>1, <1>2 DEF Vec
<1>5. ItemBlocks(q) = ItemBlocks(v.items) + AttrBlocks(a)
  BY <1>1, ItemBlocksAppend
<1> HIDE DEF w
<1>6. \A i, j \in 1..(n + 1) : q[i].key = q[j].key => i = j
  <2>1. \A i \in 1..n : q[i].key # q[n + 1].key
    BY <1>2 DEF Fresh
  <2> HIDE DEF n
  <2> QED BY <1>1, <1>2, <2>1
<1>7. GoodVec(w, max)
  BY <1>1, <1>2, <1>3, <1>4, <1>6 DEF GoodVec
<1>8. VecBlocks(w) = VecBlocks(v) + AttrBlocks(a)
  <2>1. v.cap # 0
    BY <1>1
  <2>2. VecBlocks(v) = 1 + ItemBlocks(v.items) /\ VecBlocks(w) = 1 + ItemBlocks(q)
    BY <1>1, <1>3, <1>4, <2>1, VecBlocksType
  <2>3. AttrBlocks(a) \in Int /\ ItemBlocks(v.items) \in Int
    BY <1>1, AttrBlocksType, ItemBlocksType
  <2> QED BY <1>5, <2>2, <2>3
<1> QED BY <1>2, <1>3, <1>7, <1>8 DEF w

\* A full vector is given room.
LEMMA VecGrow ==
  ASSUME NEW max \in Nat, NEW v, GoodVec(v, max), Len(v.items) = v.cap, Len(v.items) < max
  PROVE  LET w == [v EXCEPT !.cap = GrownCap(v.cap, max)] IN
         /\ GoodVec(w, max) /\ w.items = v.items /\ Len(w.items) < w.cap
         /\ VecBlocks(w) = VecBlocks(v) + Bit(~ (v.cap > 0))
<1> DEFINE c == GrownCap(v.cap, max)
<1> DEFINE w == [v EXCEPT !.cap = c]
<1>1. /\ v.items \in Seq(Attr) /\ v.cap \in Nat /\ DOMAIN v = {"items", "cap"}
      /\ \A i, j \in DOMAIN v.items : v.items[i].key = v.items[j].key => i = j
      /\ v.cap < max /\ v \in Vec
  BY DEF GoodVec, Vec
<1>2. c \in Nat /\ v.cap < c /\ c <= max
  BY <1>1, FirstCapAssumption DEF GrownCap, Lesser
<1>3. w.items = v.items /\ w.cap = c
  BY <1>1
<1> HIDE DEF c
<1>4. w \in Vec
  BY Zenon, <1>1, <1>2 DEF Vec
<1> HIDE DEF w
<1>5. GoodVec(w, max)
  BY <1>1, <1>2, <1>3, <1>4 DEF GoodVec
<1>6. VecBlocks(w) = 1 + ItemBlocks(v.items)
  BY <1>1, <1>2, <1>3, <1>4, VecBlocksType
<1>7. VecBlocks(w) = VecBlocks(v) + Bit(~ (v.cap > 0))
  <2>1. CASE v.cap = 0
    <3>1. v.items = <<>>
      BY <1>1, <2>1
    <3>2. VecBlocks(v) = 0 /\ VecBlocks(w) = 1 + 0 /\ Bit(~ (v.cap > 0)) = 1
      BY <1>1, <1>6, <2>1, <3>1, VecBlocksType, ItemBlocksNone DEF Bit
    <3> QED BY <3>2
  <2>2. CASE v.cap # 0
    <3>1. VecBlocks(v) = 1 + ItemBlocks(v.items) /\ ItemBlocks(v.items) \in Nat
      BY <1>1, <2>2, VecBlocksType
    <3>2. Bit(~ (v.cap > 0)) = 0
      BY <1>1, <2>2 DEF Bit
    <3> QED BY <1>6, <3>1, <3>2
  <2> QED BY <2>1, <2>2
<1> QED BY <1>2, <1>3, <1>5, <1>7 DEF w, c

\* The value of an attribute is freed: the key is left.
LEMMA ReleaseFrees ==
  ASSUME NEW h \in Heaps, NEW a \in Attr
  PROVE  LET r == otlp_attribute_release_value(h, a) IN
         /\ r.h \in Heaps /\ r.h.live = h.live + AttrBlocks(r.o) - AttrBlocks(a)
         /\ r.o \in ScalarAttr /\ r.o.key = a.key /\ AttrBlocks(r.o) = Bit(a.key # NULL)
<1> DEFINE r == otlp_attribute_release_value(h, a)
<1> DEFINE b == [NoAttr EXCEPT !.key = a.key]
<1> DEFINE x == Bit(a.key # NULL)
<1> DEFINE m == AttrBlocks(a) - x
<1>1. a.key \in Opt(Text)
  BY DEF Attr
<1>2. b \in ScalarAttr /\ b.key = a.key /\ b.ptr = FALSE
  BY <1>1, NoAttrFacts, AttrWithKey
<1>3. AttrBlocks(b) = x
  <2> HIDE DEF b
  <2>1. ScalarBlocks(b) = x + 0
    BY <1>2 DEF ScalarBlocks, Bit
  <2>2. x \in Int
    BY BitType
  <2> QED BY <1>2, <2>1, <2>2, ScalarAttrBlocks
<1>4. r = Result(otlp_free(h, m), "OK", b)
  BY DEF otlp_attribute_release_value
<1>5. x \in Int /\ m \in Int /\ AttrBlocks(a) \in Int /\ h.live \in Int
  BY BitType, AttrBlocksType, HeapNumbers
<1>6. otlp_free(h, m) \in Heaps /\ otlp_free(h, m).live = h.live - m
  <2> HIDE DEF m
  <2> QED BY <1>5, FreeUses
<1> HIDE DEF b, r
<1>7. r.h = otlp_free(h, m) /\ r.o = b
  BY <1>4, ResultParts
<1>8. h.live - m = h.live + x - AttrBlocks(a)
  <2> HIDE DEF x
  <2> QED BY <1>5
<1>9. r.h.live = h.live + AttrBlocks(r.o) - AttrBlocks(a)
  BY <1>3, <1>6, <1>7, <1>8
<1> QED BY <1>2, <1>3, <1>6, <1>7, <1>9 DEF r

\* A slot for a key: the vector is good, and the slot is the only one with
\* the key.  Without a slot the attributes are as before.
Reserved(h, v, max, key, r) ==
  /\ r.h \in Heaps /\ r.st \in Statuses /\ GoodVec(r.o.vec, max)
  /\ r.h.live = h.live + VecBlocks(r.o.vec) - VecBlocks(v)
  /\ r.st # "OK" => r.o.vec.items = v.items
  /\ r.st = "OK" => /\ r.o.idx \in 1..Len(r.o.vec.items)
                    /\ r.o.vec.items[r.o.idx] \in ScalarAttr
                    /\ r.o.vec.items[r.o.idx].key = key
                    /\ AttrBlocks(r.o.vec.items[r.o.idx]) = Bit(key # NULL)

\* otlp_attr_vec_reserve gives a slot with the key, or leaves the items alone.
LEMMA ReserveMakes ==
  ASSUME NEW h \in Heaps, NEW max \in Nat, NEW v, GoodVec(v, max), NEW key \in Opt(Text), key # NULL
  PROVE  Reserved(h, v, max, key, otlp_attr_vec_reserve(h, v, max, key))
<1> DEFINE r == otlp_attr_vec_reserve(h, v, max, key)
<1> DEFINE n == Len(v.items)
<1> DEFINE found == otlp_attr_list_find(v, key)
<1> DEFINE k == CHOOSE j \in found : \A i \in found : j <= i
<1> DEFINE rel == otlp_attribute_release_value(h, v.items[k])
<1> DEFINE full == n = v.cap
<1> DEFINE g == IF full THEN otlp_realloc(h, v.cap > 0) ELSE h
<1> DEFINE roomy == IF full THEN [v EXCEPT !.cap = GrownCap(v.cap, max)] ELSE v
<1> DEFINE name == otlp_dup_str(g, key)
<1> DEFINE new == [NoAttr EXCEPT !.key = name.o]
<1> DEFINE put == [v EXCEPT !.items[k] = rel.o]
<1> DEFINE added == [roomy EXCEPT !.items = Append(@, new)]
<1>1. r = IF found # {} THEN Result(rel.h, "OK", [vec |-> put, idx |-> k])
          ELSE IF n >= max THEN Result(h, "OVERFLOW", [vec |-> v, idx |-> 0])
          ELSE IF full /\ ~ CanAlloc(h) THEN Result(g, "NOMEM", [vec |-> v, idx |-> 0])
          ELSE IF ~ otlp_str_is_utf8(key) THEN Result(g, "UTF8", [vec |-> roomy, idx |-> 0])
          ELSE IF name.st # "OK" THEN Result(name.h, "NOMEM", [vec |-> roomy, idx |-> 0])
          ELSE Result(name.h, "OK", [vec |-> added, idx |-> n + 1])
  BY DEF otlp_attr_vec_reserve
<1>2. /\ v.items \in Seq(Attr) /\ v.cap \in Nat /\ n \in Nat /\ DOMAIN v.items = 1..n
      /\ n <= v.cap /\ v.cap <= max /\ v \in Vec /\ VecBlocks(v) \in Nat /\ h.live \in Int
      /\ \A i \in 1..n : v.items[i] \in Attr
  BY HeapNumbers, VecBlocksType DEF GoodVec, Vec
<1>3. found = {i \in 1..n : v.items[i].key = key}
  BY <1>2 DEF otlp_attr_list_find
<1>10. /\ otlp_realloc(h, v.cap > 0) \in Heaps
       /\ otlp_realloc(h, v.cap > 0).live = h.live + Bit(CanAlloc(h) /\ ~ (v.cap > 0))
  <2> DEFINE had == v.cap > 0
  <2>1. had \in BOOLEAN
    OBVIOUS
  <2> HIDE DEF had
  <2>2. otlp_realloc(h, had) \in Heaps /\ otlp_realloc(h, had).live = h.live + Bit(CanAlloc(h) /\ ~ had)
    BY <2>1, ReallocUses
  <2> QED BY <2>2 DEF had
\* What there is when there is no slot.
<1>4. ASSUME NEW e \in Heaps, NEW x \in Statuses, NEW w, GoodVec(w, max), x # "OK",
             w.items = v.items, e.live = h.live + VecBlocks(w) - VecBlocks(v)
      PROVE  Reserved(h, v, max, key, Result(e, x, [vec |-> w, idx |-> 0]))
  <2> DEFINE q == Result(e, x, [vec |-> w, idx |-> 0])
  <2>1. q.h = e /\ q.st = x /\ q.o.vec = w
    BY DEF Result
  <2> HIDE DEF q
  <2>2. Reserved(h, v, max, key, q)
    BY <1>4, <2>1 DEF Reserved
  <2> QED BY <2>2 DEF q
<1>5. ASSUME NEW e \in Heaps, NEW w, GoodVec(w, max), NEW i \in 1..Len(w.items),
             w.items[i] \in ScalarAttr, w.items[i].key = key,
             AttrBlocks(w.items[i]) = Bit(key # NULL),
             e.live = h.live + VecBlocks(w) - VecBlocks(v)
      PROVE  Reserved(h, v, max, key, Result(e, "OK", [vec |-> w, idx |-> i]))
  <2> DEFINE q == Result(e, "OK", [vec |-> w, idx |-> i])
  <2>1. q.h = e /\ q.st = "OK" /\ q.o.vec = w /\ q.o.idx = i
    BY DEF Result
  <2> HIDE DEF q
  <2>2. Reserved(h, v, max, key, q)
    BY <1>5, <2>1 DEF Reserved, Statuses
  <2> QED BY <2>2 DEF q
<1>6. CASE found # {}
  <2>1. k \in found
    <3>1. \E j \in found : \A i \in found : j <= i
      <4>1. found \subseteq Nat
        BY <1>3
      <4> HIDE DEF found
      <4> QED BY <1>6, <4>1, LeastElement
    <3> HIDE DEF found
    <3> QED BY <3>1
  <2> HIDE DEF k
  <2>2. k \in 1..n /\ v.items[k].key = key /\ v.items[k] \in Attr
    BY <1>2, <1>3, <2>1
  <2>3. /\ rel.h \in Heaps /\ rel.h.live = h.live + AttrBlocks(rel.o) - AttrBlocks(v.items[k])
        /\ rel.o \in ScalarAttr /\ rel.o.key = key /\ AttrBlocks(rel.o) = Bit(key # NULL)
    BY <2>2, ReleaseFrees
  <2>4. rel.o \in Attr
    BY <2>3, ScalarAttrBlocks
  <2> HIDE DEF rel
  <2>5. /\ GoodVec(put, max) /\ Len(put.items) = n /\ put.items[k] = rel.o
        /\ VecBlocks(put) = VecBlocks(v) + AttrBlocks(rel.o) - AttrBlocks(v.items[k])
    BY <2>2, <2>3, <2>4, VecPut
  <2> HIDE DEF put
  <2>6. rel.h.live = h.live + VecBlocks(put) - VecBlocks(v)
    <3>1. AttrBlocks(rel.o) \in Int /\ AttrBlocks(v.items[k]) \in Int
      BY <2>2, <2>4, AttrBlocksType
    <3> QED BY <1>2, <2>3, <2>5, <3>1
  <2>7. Reserved(h, v, max, key, Result(rel.h, "OK", [vec |-> put, idx |-> k]))
    BY <1>5, <2>2, <2>3, <2>5, <2>6
  <2> QED BY <1>1, <1>6, <2>7
<1>7. CASE found = {} /\ n >= max
  <2>1. h.live = h.live + VecBlocks(v) - VecBlocks(v)
    BY <1>2
  <2>2. Reserved(h, v, max, key, Result(h, "OVERFLOW", [vec |-> v, idx |-> 0]))
    BY <1>4, <2>1 DEF Statuses
  <2> QED BY <1>1, <1>7, <2>2
<1>8. CASE found = {} /\ ~ (n >= max) /\ full /\ ~ CanAlloc(h)
  <2>1. g \in Heaps /\ g.live = h.live + Bit(CanAlloc(h) /\ ~ (v.cap > 0))
    BY <1>8, <1>10
  <2>2. g.live = h.live + VecBlocks(v) - VecBlocks(v)
    BY <1>2, <1>8, <2>1 DEF Bit
  <2> HIDE DEF g
  <2>3. Reserved(h, v, max, key, Result(g, "NOMEM", [vec |-> v, idx |-> 0]))
    BY <1>4, <2>1, <2>2 DEF Statuses
  <2> QED BY <1>1, <1>8, <2>3
<1>9. CASE found = {} /\ ~ (n >= max) /\ ~ (full /\ ~ CanAlloc(h))
  <2>1. /\ g \in Heaps /\ GoodVec(roomy, max) /\ roomy.items = v.items /\ n < roomy.cap
        /\ g.live = h.live + VecBlocks(roomy) - VecBlocks(v)
    <3>1. CASE full
      <4>1. g \in Heaps /\ g.live = h.live + Bit(CanAlloc(h) /\ ~ (v.cap > 0))
        BY <1>10, <3>1
      <4>2. Bit(CanAlloc(h) /\ ~ (v.cap > 0)) = Bit(~ (v.cap > 0)) /\ Bit(~ (v.cap > 0)) \in Int
        BY <1>9, <3>1 DEF Bit
      <4>3. /\ GoodVec(roomy, max) /\ roomy.items = v.items /\ Len(roomy.items) < roomy.cap
            /\ VecBlocks(roomy) = VecBlocks(v) + Bit(~ (v.cap > 0))
        <5>1. n < max
          BY <1>2, <1>9
        <5> QED BY <3>1, <5>1, VecGrow
      <4> HIDE DEF roomy, g
      <4> QED BY <1>2, <4>1, <4>2, <4>3
    <3>2. CASE ~ full
      BY <1>2, <3>2
    <3> QED BY <3>1, <3>2
  <2> HIDE DEF g, roomy
  <2>2. /\ name.h \in Heaps /\ name.h.live = g.live + Bit(name.o # NULL)
        /\ name.st \in {"OK", "NOMEM"}
        /\ name.st = "OK" => name.o = key
        /\ name.st # "OK" => name.o = NULL
    BY <2>1, DupStrUses DEF Uses
  <2> HIDE DEF name
  <2>0. VecBlocks(roomy) \in Int
    BY <2>1, VecBlocksType DEF GoodVec
  <2>3. CASE ~ otlp_str_is_utf8(key)
    <3>1. Reserved(h, v, max, key, Result(g, "UTF8", [vec |-> roomy, idx |-> 0]))
      BY <1>4, <2>1 DEF Statuses
    <3> QED BY <1>1, <1>9, <2>3, <3>1
  <2>4. CASE otlp_str_is_utf8(key) /\ name.st # "OK"
    <3>1. name.h.live = h.live + VecBlocks(roomy) - VecBlocks(v)
      BY <1>2, <2>0, <2>1, <2>2, <2>4 DEF Bit
    <3>2. Reserved(h, v, max, key, Result(name.h, "NOMEM", [vec |-> roomy, idx |-> 0]))
      BY <1>4, <2>1, <2>2, <3>1 DEF Statuses
    <3> QED BY <1>1, <1>9, <2>4, <3>2
  <2>5. CASE otlp_str_is_utf8(key) /\ name.st = "OK"
    <3>1. new \in ScalarAttr /\ new.key = key /\ new.ptr = FALSE
      BY <2>2, <2>5, NoAttrFacts, AttrWithKey
    <3> HIDE DEF new
    <3>2. new \in Attr /\ AttrBlocks(new) = 1 /\ Bit(key # NULL) = 1
      <4>1. ScalarBlocks(new) = 1 + 0
        BY <3>1 DEF ScalarBlocks, Bit
      <4> QED BY <3>1, <4>1, ScalarAttrBlocks DEF Bit
    <3>3. \A i \in 1..n : roomy.items[i].key # new.key
      BY <1>3, <1>9, <2>1, <3>1
    <3>4. /\ GoodVec(added, max) /\ Len(added.items) = n + 1 /\ added.items[n + 1] = new
          /\ VecBlocks(added) = VecBlocks(roomy) + AttrBlocks(new)
      <4> DEFINE m == Len(roomy.items)
      <4>1. Len(roomy.items) < roomy.cap /\ m = n
        BY <2>1
      <4>2. Fresh(roomy, new.key)
        BY <3>3, <4>1 DEF Fresh
      <4> DEFINE q == Append(roomy.items, new)
      <4>4. q = Append(roomy.items, new)
        OBVIOUS
      <4> HIDE DEF q
      <4>3. LET w == [roomy EXCEPT !.items = q] IN
            /\ GoodVec(w, max) /\ Len(w.items) = m + 1 /\ w.items[m + 1] = new
            /\ VecBlocks(w) = VecBlocks(roomy) + AttrBlocks(new)
        BY <2>1, <3>2, <4>1, <4>2, <4>4, VecAdd
      <4> QED BY <4>1, <4>3 DEF q
    <3> HIDE DEF added
    <3>5. name.h.live = h.live + VecBlocks(added) - VecBlocks(v)
      <4>1. name.h.live = g.live + 1
        BY <2>2, <2>5, <3>2
      <4> QED BY <1>2, <2>0, <2>1, <3>2, <3>4, <4>1
    <3>6. n + 1 \in 1..Len(added.items)
      BY <1>2, <3>4
    <3>7. Reserved(h, v, max, key, Result(name.h, "OK", [vec |-> added, idx |-> n + 1]))
      BY <1>5, <2>2, <3>1, <3>2, <3>4, <3>5, <3>6
    <3> QED BY <1>1, <1>9, <2>5, <3>7
  <2> QED BY <2>3, <2>4, <2>5
<1> QED BY <1>6, <1>7, <1>8, <1>9

\* All of an attribute is freed.
LEMMA AttributeFrees ==
  ASSUME NEW h \in Heaps, NEW a \in Attr
  PROVE  otlp_attribute_free(h, a) \in Heaps /\ otlp_attribute_free(h, a).live = h.live - AttrBlocks(a)
<1> DEFINE rel == otlp_attribute_release_value(h, a)
<1> DEFINE x == Bit(a.key # NULL)
<1>1. rel.h \in Heaps /\ rel.h.live = h.live + x - AttrBlocks(a)
  BY ReleaseFrees
<1>2. x \in Int /\ AttrBlocks(a) \in Int /\ h.live \in Int
  BY BitType, AttrBlocksType, HeapNumbers
<1>3. otlp_attribute_free(h, a) = otlp_free(rel.h, x)
  BY DEF otlp_attribute_free
<1> HIDE DEF rel, x
<1>4. otlp_free(rel.h, x) \in Heaps /\ otlp_free(rel.h, x).live = rel.h.live - x
  BY <1>1, <1>2, FreeUses
<1> QED BY <1>1, <1>2, <1>3, <1>4

\* A call on a vector: the vector stays good, what it owns is accounted for,
\* and if the call fails the attributes are as before.
Changed(h, v, max, r) ==
  /\ r.h \in Heaps /\ r.st \in Statuses /\ GoodVec(r.o, max)
  /\ r.h.live = h.live + VecBlocks(r.o) - VecBlocks(v)
  /\ r.st # "OK" => r.o.items = v.items

\* A result that says so.
LEMMA ChangedResult ==
  ASSUME NEW h, NEW v, NEW max, NEW g \in Heaps, NEW x \in Statuses, NEW w, GoodVec(w, max),
         g.live = h.live + VecBlocks(w) - VecBlocks(v), x # "OK" => w.items = v.items
  PROVE  Changed(h, v, max, Result(g, x, w))
BY ResultParts DEF Changed

\* Nothing happened.
LEMMA ChangedNothing ==
  ASSUME NEW h \in Heaps, NEW max \in Nat, NEW v, GoodVec(v, max), NEW g \in Heaps, g.live = h.live,
         NEW x \in Statuses
  PROVE  Changed(h, v, max, Result(g, x, v))
<1>1. h.live \in Int /\ VecBlocks(v) \in Int
  BY HeapNumbers, VecBlocksType DEF GoodVec
<1>2. g.live = h.live + VecBlocks(v) - VecBlocks(v)
  BY <1>1
<1> QED BY <1>2, ChangedResult

\* A value that was made is put under its key, or freed.
LEMMA StoreChanges ==
  ASSUME NEW h \in Heaps, NEW max \in Nat, NEW v, GoodVec(v, max), NEW key \in Opt(Text), key # NULL,
         NEW b, Makes(h, b), b.o.key = NULL, b.st # "OK" => AttrBlocks(b.o) = 0
  PROVE  Changed(h, v, max, Store(b, v, max, key))
<1> DEFINE r == Store(b, v, max, key)
<1> DEFINE slot == otlp_attr_vec_reserve(b.h, v, max, key)
<1> DEFINE i == slot.o.idx
<1> DEFINE a == [b.o EXCEPT !.key = key]
<1> DEFINE w == [slot.o.vec EXCEPT !.items[i] = a]
<1>1. r = IF b.st # "OK" THEN Result(b.h, b.st, v)
          ELSE IF slot.st # "OK" THEN Result(otlp_attribute_free(slot.h, b.o), slot.st, slot.o.vec)
          ELSE Result(slot.h, "OK", w)
  BY DEF Store
<1>2. /\ b.h \in Heaps /\ b.st \in Statuses /\ b.o \in Attr /\ b.h.live = h.live + AttrBlocks(b.o)
      /\ AttrBlocks(b.o) \in Int /\ h.live \in Int
  BY HeapNumbers, AttrBlocksType DEF Makes, Uses
<1>3. Reserved(b.h, v, max, key, slot)
  BY <1>2, ReserveMakes
<1> HIDE DEF slot
<1>4. VecBlocks(v) \in Int /\ VecBlocks(slot.o.vec) \in Int
  BY <1>3, VecBlocksType DEF GoodVec, Reserved
<1>5. CASE b.st # "OK"
  <2>1. b.h.live = h.live
    BY <1>2, <1>5
  <2>2. Changed(h, v, max, Result(b.h, b.st, v))
    BY <1>2, <2>1, ChangedNothing
  <2> QED BY <1>1, <1>5, <2>2
<1>6. CASE b.st = "OK" /\ slot.st # "OK"
  <2> DEFINE f == otlp_attribute_free(slot.h, b.o)
  <2>1. /\ slot.h \in Heaps /\ slot.st \in Statuses /\ GoodVec(slot.o.vec, max)
        /\ slot.o.vec.items = v.items
        /\ slot.h.live = b.h.live + VecBlocks(slot.o.vec) - VecBlocks(v)
    BY <1>3, <1>6 DEF Reserved
  <2>2. f \in Heaps /\ f.live = slot.h.live - AttrBlocks(b.o)
    BY <1>2, <2>1, AttributeFrees
  <2> HIDE DEF f
  <2>3. f.live = h.live + VecBlocks(slot.o.vec) - VecBlocks(v)
    BY <1>2, <1>4, <2>1, <2>2
  <2>4. Changed(h, v, max, Result(f, slot.st, slot.o.vec))
    BY <2>1, <2>2, <2>3, ChangedResult
  <2> QED BY <1>1, <1>6, <2>4 DEF f
<1>7. CASE b.st = "OK" /\ slot.st = "OK"
  <2> DEFINE u == slot.o.vec
  <2>1. /\ slot.h \in Heaps /\ GoodVec(u, max) /\ i \in 1..Len(u.items)
        /\ slot.h.live = b.h.live + VecBlocks(u) - VecBlocks(v)
        /\ u.items[i].key = key /\ AttrBlocks(u.items[i]) = Bit(key # NULL)
    BY <1>3, <1>7 DEF Reserved
  <2>2. a \in Attr /\ a.key = key /\ AttrBlocks(a) = AttrBlocks(b.o) + Bit(key # NULL)
    BY <1>2, AttrWithNewKey
  <2> HIDE DEF a, i, u
  <2>3. LET z == [u EXCEPT !.items[i] = a] IN
        /\ GoodVec(z, max) /\ Len(z.items) = Len(u.items) /\ z.items[i] = a
        /\ VecBlocks(z) = VecBlocks(u) + AttrBlocks(a) - AttrBlocks(u.items[i])
    <3>1. a.key = u.items[i].key
      BY <2>1, <2>2
    <3> QED BY <2>1, <2>2, <3>1, VecPut
  <2>4. GoodVec(w, max) /\ VecBlocks(w) = VecBlocks(u) + AttrBlocks(a) - AttrBlocks(u.items[i])
    BY <2>3 DEF u
  <2> HIDE DEF w
  <2>5. slot.h.live = h.live + VecBlocks(w) - VecBlocks(v)
    <3>1. Bit(key # NULL) \in Int /\ VecBlocks(u) \in Int
      BY <1>4, BitType DEF u
    <3> QED BY <1>2, <1>4, <2>1, <2>2, <2>4, <3>1
  <2>6. Changed(h, v, max, Result(slot.h, "OK", w))
    BY <2>1, <2>4, <2>5, ChangedResult DEF Statuses
  <2> QED BY <1>1, <1>7, <2>6
<1> QED BY <1>5, <1>6, <1>7

\* Setting an attribute of any type.
LEMMA SetAnyChanges ==
  ASSUME NEW h \in Heaps, NEW max \in Nat, NEW v, GoodVec(v, max), NEW key \in Opt(Text),
         NEW val, IsValue(val)
  PROVE  Changed(h, v, max, SetAny(h, v, max, key, val))
<1> DEFINE r == SetAny(h, v, max, key, val)
<1>1. Changed(h, v, max, Result(h, "NULL", v))
  BY ChangedNothing DEF Statuses
<1>2. val.type \in Types
  BY DEF IsValue
<1>3. CASE val.type = "ARRAY"
  <2>1. val.val \in Opt(Seq(PlainValue))
    BY <1>3 DEF IsValue
  <2> DEFINE b == otlp_attr_array_build(h, val.val)
  <2>2. r = IF key = NULL THEN Result(h, "NULL", v) ELSE Store(b, v, max, key)
    BY <1>3 DEF SetAny, otlp_attr_vec_set_array
  <2>3. Makes(h, b) /\ b.o.key = NULL /\ (b.st # "OK" => AttrBlocks(b.o) = 0)
    BY <2>1, ArrayBuildMakes
  <2> HIDE DEF b, r
  <2> QED BY <1>1, <2>2, <2>3, StoreChanges DEF r
<1>4. CASE val.type = "KVLIST"
  <2>1. val.val \in Opt(Seq(Entry))
    BY <1>4 DEF IsValue
  <2> DEFINE b == otlp_attr_kvlist_build(h, val.val)
  <2>2. r = IF key = NULL THEN Result(h, "NULL", v) ELSE Store(b, v, max, key)
    BY <1>4 DEF SetAny, otlp_attr_vec_set_kvlist
  <2>3. Makes(h, b) /\ b.o.key = NULL /\ (b.st # "OK" => AttrBlocks(b.o) = 0)
    BY <2>1, KvlistBuildMakes
  <2> HIDE DEF b, r
  <2> QED BY <1>1, <2>2, <2>3, StoreChanges DEF r
<1>5. CASE val.type \notin {"ARRAY", "KVLIST"}
  <2>1. val.val \in Opt(Text)
    BY <1>5 DEF IsValue
  <2> DEFINE b == value_fill(h, val)
  <2>2. \/ r = Result(h, "NULL", v)
        \/ key # NULL /\ r = Store(b, v, max, key)
    BY <1>5 DEF SetAny, otlp_attr_vec_set
  <2>3. MakesScalar(h, b) /\ b.o.key = NULL /\ (b.st # "OK" => ScalarBlocks(b.o) = 0)
    BY <1>2, <2>1, ValueFillMakes
  <2> HIDE DEF b, r
  <2>4. Makes(h, b) /\ AttrBlocks(b.o) = ScalarBlocks(b.o)
    BY <2>3, MakesScalarMakes, ScalarAttrBlocks DEF MakesScalar
  <2> QED BY <1>1, <2>2, <2>3, <2>4, StoreChanges DEF r
<1> QED BY <1>3, <1>4, <1>5

\* The copy of a vector, or an empty one.
LEMMA VecCopies ==
  ASSUME NEW h \in Heaps, NEW max \in Nat, NEW src, GoodVec(src, max)
  PROVE  LET r == otlp_attr_vec_copy(h, src) IN
         /\ r.h \in Heaps /\ r.st \in Statuses /\ GoodVec(r.o, max)
         /\ r.h.live = h.live + VecBlocks(r.o)
<1> DEFINE r == otlp_attr_vec_copy(h, src)
<1> DEFINE one == otlp_malloc(h)
<1> DEFINE all == otlp_attribute_copy_all(one, src.items)
<1> DEFINE n == Len(src.items)
<1> DEFINE w == [items |-> all.o, cap |-> n]
<1>1. r = IF src.items = <<>> THEN Result(h, "OK", NoVec)
          ELSE IF ~ CanAlloc(h) THEN Result(one, "NOMEM", NoVec)
          ELSE IF all.st # "OK" THEN Result(otlp_free(all.h, 1), "NOMEM", NoVec)
          ELSE Result(all.h, "OK", w)
  BY DEF otlp_attr_vec_copy
<1>2. /\ src.items \in Seq(Attr) /\ n \in Nat /\ DOMAIN src.items = 1..n /\ n <= max
      /\ \A i, j \in 1..n : src.items[i].key = src.items[j].key => i = j
  BY DEF GoodVec, Vec
<1>3. one \in Heaps /\ one.live = h.live + Bit(CanAlloc(h)) /\ h.live \in Int
  BY MallocUses, HeapNumbers
<1> HIDE DEF one
<1>4. /\ all \in Made(Seq(Attr)) /\ all.h.live = one.live + ItemBlocks(all.o)
      /\ all.st = "OK" => Len(all.o) = n /\ \A j \in 1..n : all.o[j].key = src.items[j].key
      /\ all.st # "OK" => all.o = <<>>
  BY <1>2, <1>3, CopyAllMakes
<1> HIDE DEF all
<1>5. all.h \in Heaps /\ all.st \in Statuses /\ all.o \in Seq(Attr) /\ ItemBlocks(all.o) \in Nat
  BY <1>4, ItemBlocksType DEF Made
<1> DEFINE Good(x) == /\ x.h \in Heaps /\ x.st \in Statuses /\ GoodVec(x.o, max)
                      /\ x.h.live = h.live + VecBlocks(x.o)
<1> SUFFICES Good(r)
  OBVIOUS
<1>6. ASSUME NEW g \in Heaps, g.live = h.live, NEW x \in Statuses PROVE Good(Result(g, x, NoVec))
  <2>1. g.live = h.live + 0
    BY <1>3, <1>6
  <2> QED BY <1>6, <2>1, NoVecGood, ResultParts
<1> HIDE DEF Good, r
<1>7. CASE src.items = <<>>
  BY <1>1, <1>6, <1>7 DEF Statuses
<1>8. CASE src.items # <<>> /\ ~ CanAlloc(h)
  <2>1. one.live = h.live
    BY <1>3, <1>8 DEF Bit
  <2> QED BY <1>1, <1>3, <1>6, <1>8, <2>1 DEF Statuses
<1>9. CASE src.items # <<>> /\ CanAlloc(h) /\ all.st # "OK"
  <2>1. one.live = h.live + 1 /\ all.h.live = one.live + 0
    BY <1>3, <1>4, <1>9, ItemBlocksNone DEF Bit
  <2> DEFINE f == otlp_free(all.h, 1)
  <2>2. f \in Heaps /\ f.live = all.h.live - 1
    <3>1. all.h \in Heaps /\ 1 \in Int
      BY <1>5
    <3> QED BY <3>1, FreeUses
  <2> HIDE DEF f
  <2>3. f.live = h.live
    BY <1>3, <2>1, <2>2
  <2>4. Good(Result(f, "NOMEM", NoVec))
    BY <1>6, <2>2, <2>3 DEF Statuses
  <2> QED BY <1>1, <1>9, <2>4 DEF f
<1>10. CASE src.items # <<>> /\ CanAlloc(h) /\ all.st = "OK"
  <2>1. w.items = all.o /\ w.cap = n /\ w \in Vec
    BY <1>2, <1>5 DEF Vec
  <2> HIDE DEF w
  <2>2. n # 0
    BY <1>2, <1>10
  <2>3. DOMAIN all.o = 1..n /\ Len(all.o) = n /\ \A j \in 1..n : all.o[j].key = src.items[j].key
    BY <1>4, <1>5, <1>10
  <2>4. GoodVec(w, max)
    BY <1>2, <2>1, <2>3 DEF GoodVec
  <2>5. VecBlocks(w) = 1 + ItemBlocks(all.o)
    BY <2>1, <2>2, VecBlocksType
  <2>6. all.h.live = h.live + VecBlocks(w)
    <3>1. one.live = h.live + 1
      BY <1>3, <1>10 DEF Bit
    <3> QED BY <1>3, <1>4, <1>5, <2>5, <3>1
  <2>7. Good(Result(all.h, "OK", w))
    BY <1>5, <2>4, <2>6, ResultParts DEF Good, Statuses
  <2> QED BY <1>1, <1>10, <2>7
<1> QED BY <1>7, <1>8, <1>9, <1>10

\* A vector is freed.
LEMMA VecFrees ==
  ASSUME NEW h \in Heaps, NEW v \in Vec
  PROVE  /\ otlp_attr_vec_free(h, v) \in Heaps
         /\ otlp_attr_vec_free(h, v).live = h.live - VecBlocks(v)
<1>1. VecBlocks(v) \in Int
  BY VecBlocksType
<1> QED BY <1>1, FreeUses DEF otlp_attr_vec_free

---------------------------------------------------------------------------
(* Spans *)

\* Blocks of the events: none, one more, one with other
\* attributes.
LEMMA EventBlocksNone == EventBlocks(<<>>) = 0
<1>1. [i \in DOMAIN <<>> |-> 1 + VecBlocks(<<>>[i].attrs)] \in [1..0 -> Int]
  OBVIOUS
<1> QED BY <1>1, SumNone DEF EventBlocks

\* The events as a sequence of counts.
LEMMA EventCounts ==
  ASSUME NEW q \in Seq(Event)
  PROVE  /\ [i \in DOMAIN q |-> 1 + VecBlocks(q[i].attrs)] \in [1..Len(q) -> Nat]
         /\ Len(q) \in Nat /\ DOMAIN q = 1..Len(q)
         /\ EventBlocks(q) \in Nat
<1> DEFINE s == [i \in DOMAIN q |-> 1 + VecBlocks(q[i].attrs)]
<1>1. Len(q) \in Nat /\ DOMAIN q = 1..Len(q) /\ \A i \in 1..Len(q) : q[i] \in Event
  OBVIOUS
<1>2. \A i \in 1..Len(q) : q[i].attrs \in Vec
  BY <1>1 DEF Event
<1>3. \A i \in 1..Len(q) : 1 + VecBlocks(q[i].attrs) \in Nat
  BY <1>2, VecBlocksType
<1>4. s \in [1..Len(q) -> Nat]
  BY <1>1, <1>3
<1>5. EventBlocks(q) = SumOf(s)
  BY DEF EventBlocks
<1> HIDE DEF s
<1>6. EventBlocks(q) \in Nat
  BY <1>1, <1>4, <1>5, SumNat
<1> QED BY <1>1, <1>4, <1>6 DEF s

\* One event more.
LEMMA EventBlocksAppend ==
  ASSUME NEW q \in Seq(Event), NEW e \in Event
  PROVE  EventBlocks(Append(q, e)) = EventBlocks(q) + (1 + VecBlocks(e.attrs))
<1> DEFINE n == Len(q)
<1> DEFINE p == Append(q, e)
<1> DEFINE s == [i \in DOMAIN q |-> 1 + VecBlocks(q[i].attrs)]
<1> DEFINE r == [i \in DOMAIN p |-> 1 + VecBlocks(p[i].attrs)]
<1>1. p \in Seq(Event) /\ Len(p) = n + 1 /\ p[n + 1] = e /\ \A i \in 1..n : p[i] = q[i]
  OBVIOUS
<1> HIDE DEF p
<1>2. n \in Nat /\ DOMAIN q = 1..n /\ s \in [1..n -> Nat]
  BY EventCounts
<1>3. DOMAIN p = 1..(n + 1) /\ r \in [1..(n + 1) -> Nat]
  BY <1>1, EventCounts
<1>4. r[n + 1] = 1 + VecBlocks(e.attrs) /\ \A i \in 1..n : r[i] = s[i]
  <2>1. n + 1 \in 1..(n + 1) /\ \A i \in 1..n : i \in 1..(n + 1)
    BY <1>2
  <2> QED BY <1>1, <1>2, <1>3, <2>1
<1>5. EventBlocks(q) = SumOf(s) /\ EventBlocks(p) = SumOf(r)
  BY DEF EventBlocks
<1> HIDE DEF s, r
<1>6. s \in [1..n -> Int] /\ r \in [1..(n + 1) -> Int]
  BY <1>2, <1>3
<1>7. SumOf(r) = SumOf(s) + r[n + 1]
  BY <1>2, <1>4, <1>6, SumAppend
<1> QED BY <1>4, <1>5, <1>7 DEF p

\* One event replaced.
LEMMA EventBlocksReplace ==
  ASSUME NEW q \in Seq(Event), NEW k \in 1..Len(q), NEW e \in Event
  PROVE  EventBlocks([q EXCEPT ![k] = e])
           = EventBlocks(q) + VecBlocks(e.attrs) - VecBlocks(q[k].attrs)
<1> DEFINE n == Len(q)
<1> DEFINE p == [q EXCEPT ![k] = e]
<1> DEFINE s == [i \in DOMAIN q |-> 1 + VecBlocks(q[i].attrs)]
<1> DEFINE r == [i \in DOMAIN p |-> 1 + VecBlocks(p[i].attrs)]
<1>1. p \in Seq(Event) /\ Len(p) = n /\ p[k] = e /\ \A i \in 1..n : i # k => p[i] = q[i]
  OBVIOUS
<1>0. k \in 1..n /\ q[k] \in Event
  OBVIOUS
<1> HIDE DEF p
<1>2. n \in Nat /\ DOMAIN q = 1..n /\ s \in [1..n -> Nat] /\ EventBlocks(q) \in Int
  BY EventCounts
<1>3. DOMAIN p = 1..n /\ r \in [1..n -> Nat]
  BY <1>1, EventCounts
<1>4. /\ r[k] = 1 + VecBlocks(e.attrs) /\ s[k] = 1 + VecBlocks(q[k].attrs)
      /\ \A i \in 1..n : i # k => r[i] = s[i]
  BY <1>0, <1>1, <1>2, <1>3
<1>5. EventBlocks(q) = SumOf(s) /\ EventBlocks(p) = SumOf(r)
  BY DEF EventBlocks
<1> HIDE DEF s, r
<1>6. s \in [1..n -> Int] /\ r \in [1..n -> Int]
  BY <1>2, <1>3
<1>7. SumOf(r) = SumOf(s) + r[k] - s[k]
  <2> HIDE DEF n
  <2> QED BY <1>0, <1>2, <1>4, <1>6, SumReplace
<1>8. VecBlocks(e.attrs) \in Int /\ VecBlocks(q[k].attrs) \in Int
  <2>1. e.attrs \in Vec /\ q[k].attrs \in Vec
    BY <1>0 DEF Event
  <2> QED BY <2>1, VecBlocksType
<1>9. EventBlocks(p) = EventBlocks(q) + VecBlocks(e.attrs) - VecBlocks(q[k].attrs)
  BY <1>2, <1>4, <1>5, <1>7, <1>8
<1> QED BY <1>9 DEF p

\* The same of the links.
LEMMA LinkBlocksNone == LinkBlocks(<<>>) = 0
<1>1. [i \in DOMAIN <<>> |-> VecBlocks(<<>>[i].attrs)] \in [1..0 -> Int]
  OBVIOUS
<1> QED BY <1>1, SumNone DEF LinkBlocks

\* The links as a sequence of counts.
LEMMA LinkCounts ==
  ASSUME NEW q \in Seq(Link)
  PROVE  /\ [i \in DOMAIN q |-> VecBlocks(q[i].attrs)] \in [1..Len(q) -> Nat]
         /\ Len(q) \in Nat /\ DOMAIN q = 1..Len(q)
         /\ LinkBlocks(q) \in Nat
<1> DEFINE s == [i \in DOMAIN q |-> VecBlocks(q[i].attrs)]
<1>1. Len(q) \in Nat /\ DOMAIN q = 1..Len(q) /\ \A i \in 1..Len(q) : q[i] \in Link
  OBVIOUS
<1>2. \A i \in 1..Len(q) : q[i].attrs \in Vec
  BY <1>1 DEF Link
<1>3. \A i \in 1..Len(q) : VecBlocks(q[i].attrs) \in Nat
  BY <1>2, VecBlocksType
<1>4. s \in [1..Len(q) -> Nat]
  BY <1>1, <1>3
<1>5. LinkBlocks(q) = SumOf(s)
  BY DEF LinkBlocks
<1> HIDE DEF s
<1>6. LinkBlocks(q) \in Nat
  BY <1>1, <1>4, <1>5, SumNat
<1> QED BY <1>1, <1>4, <1>6 DEF s

\* One link more.
LEMMA LinkBlocksAppend ==
  ASSUME NEW q \in Seq(Link), NEW e \in Link
  PROVE  LinkBlocks(Append(q, e)) = LinkBlocks(q) + VecBlocks(e.attrs)
<1> DEFINE n == Len(q)
<1> DEFINE p == Append(q, e)
<1> DEFINE s == [i \in DOMAIN q |-> VecBlocks(q[i].attrs)]
<1> DEFINE r == [i \in DOMAIN p |-> VecBlocks(p[i].attrs)]
<1>1. p \in Seq(Link) /\ Len(p) = n + 1 /\ p[n + 1] = e /\ \A i \in 1..n : p[i] = q[i]
  OBVIOUS
<1> HIDE DEF p
<1>2. n \in Nat /\ DOMAIN q = 1..n /\ s \in [1..n -> Nat]
  BY LinkCounts
<1>3. DOMAIN p = 1..(n + 1) /\ r \in [1..(n + 1) -> Nat]
  BY <1>1, LinkCounts
<1>4. r[n + 1] = VecBlocks(e.attrs) /\ \A i \in 1..n : r[i] = s[i]
  <2>1. n + 1 \in 1..(n + 1) /\ \A i \in 1..n : i \in 1..(n + 1)
    BY <1>2
  <2> QED BY <1>1, <1>2, <1>3, <2>1
<1>5. LinkBlocks(q) = SumOf(s) /\ LinkBlocks(p) = SumOf(r)
  BY DEF LinkBlocks
<1> HIDE DEF s, r
<1>6. s \in [1..n -> Int] /\ r \in [1..(n + 1) -> Int]
  BY <1>2, <1>3
<1>7. SumOf(r) = SumOf(s) + r[n + 1]
  BY <1>2, <1>4, <1>6, SumAppend
<1> QED BY <1>4, <1>5, <1>7 DEF p

\* One link replaced.
LEMMA LinkBlocksReplace ==
  ASSUME NEW q \in Seq(Link), NEW k \in 1..Len(q), NEW e \in Link
  PROVE  LinkBlocks([q EXCEPT ![k] = e])
           = LinkBlocks(q) + VecBlocks(e.attrs) - VecBlocks(q[k].attrs)
<1> DEFINE n == Len(q)
<1> DEFINE p == [q EXCEPT ![k] = e]
<1> DEFINE s == [i \in DOMAIN q |-> VecBlocks(q[i].attrs)]
<1> DEFINE r == [i \in DOMAIN p |-> VecBlocks(p[i].attrs)]
<1>1. p \in Seq(Link) /\ Len(p) = n /\ p[k] = e /\ \A i \in 1..n : i # k => p[i] = q[i]
  OBVIOUS
<1>0. k \in 1..n /\ q[k] \in Link
  OBVIOUS
<1> HIDE DEF p
<1>2. n \in Nat /\ DOMAIN q = 1..n /\ s \in [1..n -> Nat] /\ LinkBlocks(q) \in Int
  BY LinkCounts
<1>3. DOMAIN p = 1..n /\ r \in [1..n -> Nat]
  BY <1>1, LinkCounts
<1>4. /\ r[k] = VecBlocks(e.attrs) /\ s[k] = VecBlocks(q[k].attrs)
      /\ \A i \in 1..n : i # k => r[i] = s[i]
  BY <1>0, <1>1, <1>2, <1>3
<1>5. LinkBlocks(q) = SumOf(s) /\ LinkBlocks(p) = SumOf(r)
  BY DEF LinkBlocks
<1> HIDE DEF s, r
<1>6. s \in [1..n -> Int] /\ r \in [1..n -> Int]
  BY <1>2, <1>3
<1>7. SumOf(r) = SumOf(s) + r[k] - s[k]
  <2> HIDE DEF n
  <2> QED BY <1>0, <1>2, <1>4, <1>6, SumReplace
<1>8. VecBlocks(e.attrs) \in Int /\ VecBlocks(q[k].attrs) \in Int
  <2>1. e.attrs \in Vec /\ q[k].attrs \in Vec
    BY <1>0 DEF Link
  <2> QED BY <2>1, VecBlocksType
<1>9. LinkBlocks(p) = LinkBlocks(q) + VecBlocks(e.attrs) - VecBlocks(q[k].attrs)
  BY <1>2, <1>4, <1>5, <1>7, <1>8
<1> QED BY <1>9 DEF p

\* A span whose vectors are good and whose arrays are large enough, and what
\* it owns.
SpanGood(s) ==
  /\ s \in Span
  /\ GoodVec(s.attrs, MaxAttrs)
  /\ Len(s.events) <= s.capEvents /\ Len(s.links) <= s.capLinks
  /\ \A i \in DOMAIN s.events : GoodVec(s.events[i].attrs, MaxEventAttrs)
  /\ \A i \in DOMAIN s.links : GoodVec(s.links[i].attrs, MaxLinkAttrs)

SpanBlocks(s) ==
  2 + Bit(s.message # NULL) + Bit(s.traceState # NULL)
    + EventBlocks(s.events) + Bit(s.capEvents > 0)
    + LinkBlocks(s.links) + Bit(s.capLinks > 0) + VecBlocks(s.attrs)

\* The limits are natural numbers, and a span is no null pointer.
LEMMA SpanLimits ==
  /\ MaxAttrs \in Nat /\ MaxEventAttrs \in Nat /\ MaxLinkAttrs \in Nat
  /\ MaxEvents \in Nat /\ MaxLinks \in Nat
  /\ \A s \in Span : s # NULL
BY SpanAssumption

\* The parts of a span.
LEMMA SpanFields ==
  ASSUME NEW s \in Span
  PROVE  /\ s.events \in Seq(Event) /\ s.links \in Seq(Link) /\ s.attrs \in Vec
         /\ s.capEvents \in Nat /\ s.capLinks \in Nat
         /\ s.message \in Opt(Text) /\ s.traceState \in Opt(Text) /\ s.name \in Text
         /\ DOMAIN s = {"name", "traceId", "spanId", "parent", "start", "end", "kind", "code",
                        "message", "sampled", "traceState", "attrs", "events", "capEvents",
                        "links", "capLinks"}
BY DEF Span

\* The numbers of blocks.
LEMMA SpanBlockTypes ==
  ASSUME NEW s \in Span
  PROVE  /\ Bit(s.message # NULL) \in Int /\ Bit(s.traceState # NULL) \in Int
         /\ EventBlocks(s.events) \in Int /\ Bit(s.capEvents > 0) \in Int
         /\ LinkBlocks(s.links) \in Int /\ Bit(s.capLinks > 0) \in Int
         /\ VecBlocks(s.attrs) \in Int /\ SpanBlocks(s) \in Int
<1>1. s.events \in Seq(Event) /\ s.links \in Seq(Link) /\ s.attrs \in Vec
  BY SpanFields
<1>2. EventBlocks(s.events) \in Int /\ LinkBlocks(s.links) \in Int /\ VecBlocks(s.attrs) \in Int
  BY <1>1, EventCounts, LinkCounts, VecBlocksType
<1>3. /\ Bit(s.message # NULL) \in Int /\ Bit(s.traceState # NULL) \in Int
      /\ Bit(s.capEvents > 0) \in Int /\ Bit(s.capLinks > 0) \in Int
  BY BitType
<1>4. SpanBlocks(s) \in Int
  BY <1>2, <1>3 DEF SpanBlocks
<1> QED BY <1>2, <1>3, <1>4

\* Two spans that differ in plain fields and strings only.
SameParts(s, d) ==
  /\ d.attrs = s.attrs /\ d.events = s.events /\ d.capEvents = s.capEvents
  /\ d.links = s.links /\ d.capLinks = s.capLinks

\* A span that keeps its vectors is as good, and differs by its texts' blocks.
LEMMA SamePartsGood ==
  ASSUME NEW s, SpanGood(s), NEW d \in Span, SameParts(s, d)
  PROVE  /\ SpanGood(d)
         /\ SpanBlocks(d) = SpanBlocks(s)
               + (Bit(d.message # NULL) - Bit(s.message # NULL))
               + (Bit(d.traceState # NULL) - Bit(s.traceState # NULL))
<1>1. SpanGood(d)
  BY DEF SpanGood, SameParts
<1>2. SpanBlocks(d) = 2 + Bit(d.message # NULL) + Bit(d.traceState # NULL)
                        + EventBlocks(s.events) + Bit(s.capEvents > 0)
                        + LinkBlocks(s.links) + Bit(s.capLinks > 0) + VecBlocks(s.attrs)
  BY DEF SpanBlocks, SameParts
<1>3. Bit(d.message # NULL) \in Int /\ Bit(d.traceState # NULL) \in Int
  BY BitType
<1>4. s \in Span
  BY DEF SpanGood
<1>5. /\ Bit(s.message # NULL) \in Int /\ Bit(s.traceState # NULL) \in Int
      /\ EventBlocks(s.events) \in Int /\ Bit(s.capEvents > 0) \in Int
      /\ LinkBlocks(s.links) \in Int /\ Bit(s.capLinks > 0) \in Int
      /\ VecBlocks(s.attrs) \in Int
  BY <1>4, SpanBlockTypes
<1>6. SpanBlocks(s) = 2 + Bit(s.message # NULL) + Bit(s.traceState # NULL)
                        + EventBlocks(s.events) + Bit(s.capEvents > 0)
                        + LinkBlocks(s.links) + Bit(s.capLinks > 0) + VecBlocks(s.attrs)
  BY DEF SpanBlocks
<1> QED BY <1>1, <1>2, <1>3, <1>5, <1>6

\* A span is freed with all it owns.
LEMMA SpanFrees ==
  ASSUME NEW h \in Heaps, NEW s \in Span
  PROVE  otlp_span_free(h, s) \in Heaps /\ otlp_span_free(h, s).live = h.live - SpanBlocks(s)
<1> DEFINE a == 1 + Bit(s.message # NULL) + Bit(s.traceState # NULL)
<1> DEFINE b == EventBlocks(s.events) + Bit(s.capEvents > 0)
<1> DEFINE c == LinkBlocks(s.links) + Bit(s.capLinks > 0)
<1> DEFINE f == otlp_free(h, a)
<1> DEFINE g == otlp_free(f, b)
<1> DEFINE k == otlp_free(g, c)
<1> DEFINE m == otlp_attr_vec_free(k, s.attrs)
<1>1. otlp_span_free(h, s) = otlp_free(m, 1)
  BY DEF otlp_span_free
<1>2. a \in Int /\ b \in Int /\ c \in Int /\ VecBlocks(s.attrs) \in Int /\ h.live \in Int /\ 1 \in Int
  BY SpanBlockTypes, HeapNumbers
<1>3. s.attrs \in Vec
  BY SpanFields
<1>4. SpanBlocks(s) = a + b + c + VecBlocks(s.attrs) + 1
  BY SpanBlockTypes DEF SpanBlocks
<1> HIDE DEF a, b, c
<1>5. f \in Heaps /\ f.live = h.live - a
  BY <1>2, FreeUses
<1> HIDE DEF f
<1>6. g \in Heaps /\ g.live = f.live - b
  BY <1>2, <1>5, FreeUses
<1> HIDE DEF g
<1>7. k \in Heaps /\ k.live = g.live - c
  BY <1>2, <1>6, FreeUses
<1> HIDE DEF k
<1>8. m \in Heaps /\ m.live = k.live - VecBlocks(s.attrs)
  BY <1>3, <1>7, VecFrees
<1> HIDE DEF m
<1>9. otlp_free(m, 1) \in Heaps /\ otlp_free(m, 1).live = m.live - 1
  BY <1>2, <1>8, FreeUses
<1> QED BY <1>1, <1>2, <1>4, <1>5, <1>6, <1>7, <1>8, <1>9

\* A call on a span: the span stays good, what it owns is accounted for, and
\* if the call fails the span is as before.
SpanChanged(h, s, r) ==
  /\ r.h \in Heaps /\ r.st \in Statuses /\ SpanGood(r.o)
  /\ r.h.live = h.live + SpanBlocks(r.o) - SpanBlocks(s)
  /\ r.st # "OK" => Held(r.o) = Held(s)

\* A result whose blocks balance is a call on the span.
LEMMA SpanChangedResult ==
  ASSUME NEW h, NEW s, NEW g \in Heaps, NEW x \in Statuses, NEW d, SpanGood(d),
         g.live = h.live + SpanBlocks(d) - SpanBlocks(s), x # "OK" => Held(d) = Held(s)
  PROVE  SpanChanged(h, s, Result(g, x, d))
BY ResultParts DEF SpanChanged

\* Nothing happened.
LEMMA SpanUnchanged ==
  ASSUME NEW h \in Heaps, NEW s, SpanGood(s), NEW g \in Heaps, g.live = h.live, NEW x \in Statuses
  PROVE  SpanChanged(h, s, Result(g, x, s))
<1>1. h.live \in Int /\ SpanBlocks(s) \in Int
  BY HeapNumbers, SpanBlockTypes DEF SpanGood
<1>2. g.live = h.live + SpanBlocks(s) - SpanBlocks(s)
  BY <1>1
<1> QED BY <1>2, SpanChangedResult

\* Plain fields own nothing.
LEMMA SpanPlain ==
  ASSUME NEW h \in Heaps, NEW s, SpanGood(s), NEW d \in Span, SameParts(s, d),
         d.message = s.message, d.traceState = s.traceState
  PROVE  SpanChanged(h, s, Result(h, "OK", d))
<1>1. SpanGood(d) /\ SpanBlocks(d) = SpanBlocks(s) + (Bit(s.message # NULL) - Bit(s.message # NULL))
               + (Bit(s.traceState # NULL) - Bit(s.traceState # NULL))
  BY SamePartsGood
<1>2. /\ h.live \in Int /\ SpanBlocks(s) \in Int
      /\ Bit(s.message # NULL) \in Int /\ Bit(s.traceState # NULL) \in Int
  BY HeapNumbers, SpanBlockTypes DEF SpanGood
<1>3. SpanBlocks(d) = SpanBlocks(s)
  BY <1>1, <1>2
<1>4. h.live = h.live + SpanBlocks(d) - SpanBlocks(s)
  BY <1>2, <1>3
<1> QED BY <1>1, <1>4, SpanChangedResult DEF Statuses

\* Identifiers.
LEMMA SpanSetIdChanges ==
  ASSUME NEW h \in Heaps, NEW s, SpanGood(s), NEW which \in {"traceId", "spanId", "parent"},
         NEW id \in Opt(Int)
  PROVE  SpanChanged(h, s, otlp_span_set_id(h, s, which, id))
<1> DEFINE r == otlp_span_set_id(h, s, which, id)
<1>1. s \in Span
  BY DEF SpanGood
<1>2. \/ r = Result(h, "OK", [s EXCEPT !.parent = NULL])
      \/ \E x \in {"NULL", "INVALID_ARGUMENT"} : r = Result(h, x, s)
      \/ id \in Int /\ r = Result(h, "OK", [s EXCEPT ![which] = id])
  BY DEF otlp_span_set_id, Opt
<1> HIDE DEF r
<1>3. CASE r = Result(h, "OK", [s EXCEPT !.parent = NULL])
  <2> DEFINE d == [s EXCEPT !.parent = NULL]
  <2>1. NULL \in Opt(Int)
    BY DEF Opt
  <2>2. d \in Span
    BY Zenon, <1>1, <2>1 DEF Span
  <2>3. SameParts(s, d) /\ d.message = s.message /\ d.traceState = s.traceState
    BY <1>1, SpanFields DEF SameParts
  <2> HIDE DEF d
  <2>4. SpanChanged(h, s, Result(h, "OK", d))
    BY <2>2, <2>3, SpanPlain
  <2> QED BY <1>3, <2>4 DEF d, r
<1>4. CASE \E x \in {"NULL", "INVALID_ARGUMENT"} : r = Result(h, x, s)
  <2>1. SpanChanged(h, s, r)
    BY <1>4, SpanUnchanged DEF Statuses
  <2> QED BY <2>1 DEF r
<1>5. CASE id \in Int /\ r = Result(h, "OK", [s EXCEPT ![which] = id])
  <2> DEFINE d == [s EXCEPT ![which] = id]
  <2>1. id \in Opt(Int) /\ id \in Int
    BY <1>5 DEF Opt
  <2>2. d \in Span
    <3>1. CASE which = "traceId"
      <4>1. [s EXCEPT !.traceId = id] \in Span
        BY Zenon, <1>1, <2>1 DEF Span
      <4> QED BY <3>1, <4>1
    <3>2. CASE which = "spanId"
      <4>1. [s EXCEPT !.spanId = id] \in Span
        BY Zenon, <1>1, <2>1 DEF Span
      <4> QED BY <3>2, <4>1
    <3>3. CASE which = "parent"
      <4>1. [s EXCEPT !.parent = id] \in Span
        BY Zenon, <1>1, <2>1 DEF Span
      <4> QED BY <3>3, <4>1
    <3> QED BY <3>1, <3>2, <3>3
  <2>3. SameParts(s, d) /\ d.message = s.message /\ d.traceState = s.traceState
    BY <1>1, SpanFields DEF SameParts
  <2> HIDE DEF d
  <2>4. SpanChanged(h, s, Result(h, "OK", d))
    BY <2>2, <2>3, SpanPlain
  <2> QED BY <1>5, <2>4 DEF d, r
<1> QED BY <1>2, <1>3, <1>4, <1>5 DEF r

\* Times, the kind and the sampled flag.
LEMMA SpanSetTimeChanges ==
  ASSUME NEW h \in Heaps, NEW s, SpanGood(s), NEW which \in {"start", "end"}, NEW t \in Opt(Int)
  PROVE  SpanChanged(h, s, otlp_span_set_time(h, s, which, t))
<1> DEFINE d == [s EXCEPT ![which] = t]
<1>1. s \in Span
  BY DEF SpanGood
<1>2. d \in Span
  <2>1. CASE which = "start"
    <3>1. [s EXCEPT !.start = t] \in Span
      BY Zenon, <1>1 DEF Span
    <3> QED BY <2>1, <3>1
  <2>2. CASE which = "end"
    <3>1. [s EXCEPT !.end = t] \in Span
      BY Zenon, <1>1 DEF Span
    <3> QED BY <2>2, <3>1
  <2> QED BY <2>1, <2>2
<1>3. SameParts(s, d) /\ d.message = s.message /\ d.traceState = s.traceState
  BY <1>1, SpanFields DEF SameParts
<1>4. otlp_span_set_time(h, s, which, t) = Result(h, "OK", d)
  BY DEF otlp_span_set_time
<1> HIDE DEF d
<1> QED BY <1>2, <1>3, <1>4, SpanPlain

\* The kind.
LEMMA SpanSetKindChanges ==
  ASSUME NEW h \in Heaps, NEW s, SpanGood(s), NEW k \in Int
  PROVE  SpanChanged(h, s, otlp_span_set_kind(h, s, k))
<1> DEFINE d == [s EXCEPT !.kind = k]
<1>1. s \in Span
  BY DEF SpanGood
<1>2. d \in Span
  BY Zenon, <1>1 DEF Span
<1>3. SameParts(s, d) /\ d.message = s.message /\ d.traceState = s.traceState
  BY <1>1, SpanFields DEF SameParts
<1>4. otlp_span_set_kind(h, s, k) = Result(h, "OK", d)
  BY DEF otlp_span_set_kind
<1> HIDE DEF d
<1> QED BY <1>2, <1>3, <1>4, SpanPlain

\* The sampled flag.
LEMMA SpanSetSampledChanges ==
  ASSUME NEW h \in Heaps, NEW s, SpanGood(s), NEW b \in BOOLEAN
  PROVE  SpanChanged(h, s, otlp_span_set_sampled(h, s, b))
<1> DEFINE d == [s EXCEPT !.sampled = b]
<1>1. s \in Span
  BY DEF SpanGood
<1>2. d \in Span
  BY Zenon, <1>1 DEF Span
<1>3. SameParts(s, d) /\ d.message = s.message /\ d.traceState = s.traceState
  BY <1>1, SpanFields DEF SameParts
<1>4. otlp_span_set_sampled(h, s, b) = Result(h, "OK", d)
  BY DEF otlp_span_set_sampled
<1> HIDE DEF d
<1> QED BY <1>2, <1>3, <1>4, SpanPlain

\* The name is replaced by a copy, and the old one freed.
LEMMA SpanSetNameChanges ==
  ASSUME NEW h \in Heaps, NEW s, SpanGood(s), NEW name \in Opt(Text)
  PROVE  SpanChanged(h, s, otlp_span_set_name(h, s, name))
<1> DEFINE r == otlp_span_set_name(h, s, name)
<1> DEFINE n == otlp_dup_str(h, OrEmpty(name))
<1> DEFINE d == [s EXCEPT !.name = n.o]
<1>1. s \in Span /\ h.live \in Int /\ SpanBlocks(s) \in Int
  BY HeapNumbers, SpanBlockTypes DEF SpanGood
<1>2. OrEmpty(name) \in Text /\ OrEmpty(name) # NULL
  BY TextFacts
<1>3. /\ n.h \in Heaps /\ n.h.live = h.live + Bit(n.o # NULL) /\ n.st \in Statuses
      /\ n.st = "OK" => n.o = OrEmpty(name)
      /\ n.st # "OK" => n.o = NULL
  BY DupStrUses DEF Uses
<1>4. r = IF ~ otlp_str_is_utf8(name) THEN Result(h, "UTF8", s)
          ELSE IF n.st # "OK" THEN Result(n.h, "NOMEM", s)
          ELSE Result(otlp_free(n.h, 1), "OK", d)
  BY DEF otlp_span_set_name
<1> HIDE DEF n, r
<1>5. CASE r = Result(h, "UTF8", s)
  <2>1. SpanChanged(h, s, r)
    BY <1>5, SpanUnchanged DEF Statuses
  <2> QED BY <2>1 DEF r
<1>6. CASE n.st # "OK" /\ r = Result(n.h, "NOMEM", s)
  <2>1. n.h.live = h.live
    BY <1>1, <1>3, <1>6 DEF Bit
  <2>2. SpanChanged(h, s, r)
    BY <1>3, <1>6, <2>1, SpanUnchanged DEF Statuses
  <2> QED BY <2>2 DEF r
<1>7. CASE n.st = "OK" /\ r = Result(otlp_free(n.h, 1), "OK", d)
  <2>1. n.o \in Text /\ n.h.live = h.live + 1
    BY <1>2, <1>3, <1>7 DEF Bit
  <2>2. d \in Span
    BY Zenon, <1>1, <2>1 DEF Span
  <2>3. SameParts(s, d) /\ d.message = s.message /\ d.traceState = s.traceState
    BY <1>1, SpanFields DEF SameParts
  <2> DEFINE f == otlp_free(n.h, 1)
  <2>4. f \in Heaps /\ f.live = n.h.live - 1
    <3>1. 1 \in Int
      OBVIOUS
    <3> QED BY <1>3, <3>1, FreeUses
  <2> HIDE DEF d, f
  <2>5. SpanChanged(h, s, Result(h, "OK", d))
    BY <2>2, <2>3, SpanPlain
  <2>6. SpanGood(d) /\ h.live = h.live + SpanBlocks(d) - SpanBlocks(s)
    BY <2>5, ResultParts DEF SpanChanged
  <2>7. f.live = h.live
    BY <1>1, <2>1, <2>4
  <2>8. SpanChanged(h, s, Result(f, "OK", d))
    BY <2>4, <2>6, <2>7, SpanChangedResult DEF Statuses
  <2> QED BY <1>7, <2>8 DEF d, f, r
<1> QED BY <1>4, <1>5, <1>6, <1>7 DEF r

\* The status text is copied before the old one is freed.
LEMMA SpanSetStatusChanges ==
  ASSUME NEW h \in Heaps, NEW s, SpanGood(s), NEW code \in Int, NEW text \in Opt(Text)
  PROVE  SpanChanged(h, s, otlp_span_set_status(h, s, code, text))
<1> DEFINE r == otlp_span_set_status(h, s, code, text)
<1> DEFINE n == otlp_dup_str(h, text)
<1> DEFINE d == [s EXCEPT !.message = n.o, !.code = code]
<1> DEFINE x == Bit(s.message # NULL)
<1> DEFINE f == otlp_free(n.h, x)
<1>1. s \in Span /\ h.live \in Int /\ SpanBlocks(s) \in Int /\ x \in Int
  BY HeapNumbers, SpanBlockTypes DEF SpanGood
<1>3. /\ n.h \in Heaps /\ n.h.live = h.live + Bit(n.o # NULL) /\ n.st \in Statuses
      /\ n.st = "OK" => n.o = text
      /\ n.st # "OK" => n.o = NULL
  BY DupStrUses DEF Uses
<1>4. r = IF ~ otlp_str_is_utf8(text) THEN Result(h, "UTF8", s)
          ELSE IF n.st # "OK" THEN Result(n.h, "NOMEM", s)
          ELSE Result(f, "OK", d)
  BY DEF otlp_span_set_status
<1>5. f \in Heaps /\ f.live = n.h.live - x
  <2> HIDE DEF n, x
  <2> QED BY <1>1, <1>3, FreeUses
<1> HIDE DEF n, r, f
<1>6. CASE r = Result(h, "UTF8", s)
  <2>1. SpanChanged(h, s, r)
    BY <1>6, SpanUnchanged DEF Statuses
  <2> QED BY <2>1 DEF r
<1>7. CASE n.st # "OK" /\ r = Result(n.h, "NOMEM", s)
  <2>1. n.h.live = h.live
    BY <1>1, <1>3, <1>7 DEF Bit
  <2>2. SpanChanged(h, s, r)
    BY <1>3, <1>7, <2>1, SpanUnchanged DEF Statuses
  <2> QED BY <2>2 DEF r
<1>8. CASE n.st = "OK" /\ r = Result(f, "OK", d)
  <2>1. n.o \in Opt(Text)
    BY <1>3, <1>8
  <2>2. d \in Span
    BY Zenon, <1>1, <2>1 DEF Span
  <2>3. SameParts(s, d) /\ d.message = n.o /\ d.traceState = s.traceState
    BY <1>1, SpanFields DEF SameParts
  <2> HIDE DEF d
  <2>4. SpanGood(d) /\ SpanBlocks(d) = SpanBlocks(s) + (Bit(n.o # NULL) - x)
                         + (Bit(s.traceState # NULL) - Bit(s.traceState # NULL))
    BY <2>2, <2>3, SamePartsGood
  <2> HIDE DEF x
  <2>5. Bit(n.o # NULL) \in Int /\ Bit(s.traceState # NULL) \in Int
    BY BitType
  <2>6. f.live = h.live + SpanBlocks(d) - SpanBlocks(s)
    BY <1>1, <1>3, <1>5, <2>4, <2>5
  <2>7. SpanChanged(h, s, Result(f, "OK", d))
    BY <1>5, <2>4, <2>6, SpanChangedResult DEF Statuses
  <2> QED BY <1>8, <2>7 DEF d, r
<1> QED BY <1>4, <1>6, <1>7, <1>8 DEF r
\* The trace state, likewise, is copied before the old one is freed.
LEMMA SpanSetTraceStateChanges ==
  ASSUME NEW h \in Heaps, NEW s, SpanGood(s), NEW text \in Opt(Text)
  PROVE  SpanChanged(h, s, otlp_span_set_trace_state(h, s, text))
<1> DEFINE r == otlp_span_set_trace_state(h, s, text)
<1> DEFINE n == otlp_dup_str(h, text)
<1> DEFINE d == [s EXCEPT !.traceState = n.o]
<1> DEFINE x == Bit(s.traceState # NULL)
<1> DEFINE f == otlp_free(n.h, x)
<1>1. s \in Span /\ h.live \in Int /\ SpanBlocks(s) \in Int /\ x \in Int
  BY HeapNumbers, SpanBlockTypes DEF SpanGood
<1>3. /\ n.h \in Heaps /\ n.h.live = h.live + Bit(n.o # NULL) /\ n.st \in Statuses
      /\ n.st = "OK" => n.o = text
      /\ n.st # "OK" => n.o = NULL
  BY DupStrUses DEF Uses
<1>4. r = IF ~ otlp_str_is_utf8(text) THEN Result(h, "UTF8", s)
          ELSE IF n.st # "OK" THEN Result(n.h, "NOMEM", s)
          ELSE Result(f, "OK", d)
  BY DEF otlp_span_set_trace_state
<1>5. f \in Heaps /\ f.live = n.h.live - x
  <2> HIDE DEF n, x
  <2> QED BY <1>1, <1>3, FreeUses
<1> HIDE DEF n, r, f
<1>6. CASE r = Result(h, "UTF8", s)
  <2>1. SpanChanged(h, s, r)
    BY <1>6, SpanUnchanged DEF Statuses
  <2> QED BY <2>1 DEF r
<1>7. CASE n.st # "OK" /\ r = Result(n.h, "NOMEM", s)
  <2>1. n.h.live = h.live
    BY <1>1, <1>3, <1>7 DEF Bit
  <2>2. SpanChanged(h, s, r)
    BY <1>3, <1>7, <2>1, SpanUnchanged DEF Statuses
  <2> QED BY <2>2 DEF r
<1>8. CASE n.st = "OK" /\ r = Result(f, "OK", d)
  <2>1. n.o \in Opt(Text)
    BY <1>3, <1>8
  <2>2. d \in Span
    BY Zenon, <1>1, <2>1 DEF Span
  <2>3. SameParts(s, d) /\ d.traceState = n.o /\ d.message = s.message
    BY <1>1, SpanFields DEF SameParts
  <2> HIDE DEF d
  <2>4. SpanGood(d) /\ SpanBlocks(d) = SpanBlocks(s) + (Bit(s.message # NULL) - Bit(s.message # NULL))
                         + (Bit(n.o # NULL) - x)
    BY <2>2, <2>3, SamePartsGood
  <2> HIDE DEF x
  <2>5. Bit(n.o # NULL) \in Int /\ Bit(s.message # NULL) \in Int
    BY BitType
  <2>6. f.live = h.live + SpanBlocks(d) - SpanBlocks(s)
    BY <1>1, <1>3, <1>5, <2>4, <2>5
  <2>7. SpanChanged(h, s, Result(f, "OK", d))
    BY <1>5, <2>4, <2>6, SpanChangedResult DEF Statuses
  <2> QED BY <1>8, <2>7 DEF d, r
<1> QED BY <1>4, <1>6, <1>7, <1>8 DEF r

\* What a span owns apart from events and links.
SpanOwn(s) ==
  2 + Bit(s.message # NULL) + Bit(s.traceState # NULL)
    + Bit(s.capEvents > 0) + Bit(s.capLinks > 0) + VecBlocks(s.attrs)

\* The blocks of a span: its own, those of its events and those of its links.
LEMMA SpanBlocksSplit ==
  ASSUME NEW s \in Span
  PROVE  /\ SpanBlocks(s) = SpanOwn(s) + EventBlocks(s.events) + LinkBlocks(s.links)
         /\ SpanOwn(s) \in Int /\ EventBlocks(s.events) \in Int /\ LinkBlocks(s.links) \in Int
<1> DEFINE a == Bit(s.message # NULL)
<1> DEFINE b == Bit(s.traceState # NULL)
<1> DEFINE c == EventBlocks(s.events)
<1> DEFINE d == Bit(s.capEvents > 0)
<1> DEFINE e == LinkBlocks(s.links)
<1> DEFINE f == Bit(s.capLinks > 0)
<1> DEFINE g == VecBlocks(s.attrs)
<1>1. a \in Int /\ b \in Int /\ c \in Int /\ d \in Int /\ e \in Int /\ f \in Int /\ g \in Int
  BY SpanBlockTypes
<1>2. SpanBlocks(s) = 2 + a + b + c + d + e + f + g /\ SpanOwn(s) = 2 + a + b + d + f + g
  BY DEF SpanBlocks, SpanOwn
<1> HIDE DEF a, b, c, d, e, f, g
<1>3. SpanBlocks(s) = SpanOwn(s) + c + e /\ SpanOwn(s) \in Int
  BY <1>1, <1>2
<1> QED BY <1>1, <1>3 DEF c, e

\* A span with another vector of attributes.
LEMMA SpanWithAttrs ==
  ASSUME NEW s, SpanGood(s), NEW w, GoodVec(w, MaxAttrs)
  PROVE  LET d == [s EXCEPT !.attrs = w] IN
         /\ SpanGood(d) /\ SpanBlocks(d) = SpanBlocks(s) + VecBlocks(w) - VecBlocks(s.attrs)
         /\ w.items = s.attrs.items => Held(d) = Held(s)
<1> DEFINE d == [s EXCEPT !.attrs = w]
<1>1. s \in Span /\ w \in Vec
  BY DEF SpanGood, GoodVec
<1>2. d \in Span
  BY Zenon, <1>1 DEF Span
<1>3. /\ d.attrs = w /\ d.events = s.events /\ d.links = s.links
      /\ d.capEvents = s.capEvents /\ d.capLinks = s.capLinks
      /\ d.message = s.message /\ d.traceState = s.traceState
      /\ DOMAIN d = DOMAIN s /\ \A f \in DOMAIN s : f # "attrs" => d[f] = s[f]
  BY <1>1, SpanFields
<1> HIDE DEF d
<1>4. SpanGood(d)
  BY <1>2, <1>3 DEF SpanGood
<1>5. SpanBlocks(d) = SpanBlocks(s) + VecBlocks(w) - VecBlocks(s.attrs)
  <2>1. VecBlocks(w) \in Int
    BY <1>1, VecBlocksType
  <2> QED BY <1>1, <1>3, <2>1, SpanBlockTypes DEF SpanBlocks
<1>6. ASSUME w.items = s.attrs.items PROVE Held(d) = Held(s)
  <2>1. "attrs" \in DOMAIN s
    BY <1>1, SpanFields
  <2> QED BY <1>3, <1>6, <2>1 DEF Held
<1> QED BY <1>4, <1>5, <1>6 DEF d

\* An attribute of the span.
LEMMA SpanSetAttributeChanges ==
  ASSUME NEW h \in Heaps, NEW s, SpanGood(s), NEW key \in Opt(Text), NEW v, IsValue(v)
  PROVE  SpanChanged(h, s, otlp_span_set_attribute(h, s, key, v))
<1> DEFINE q == SetAny(h, s.attrs, MaxAttrs, key, v)
<1> DEFINE d == [s EXCEPT !.attrs = q.o]
<1>1. otlp_span_set_attribute(h, s, key, v) = Result(q.h, q.st, d)
  BY DEF otlp_span_set_attribute, Into
<1>2. s \in Span /\ GoodVec(s.attrs, MaxAttrs) /\ s.attrs \in Vec
  BY DEF SpanGood, GoodVec
<1>3. Changed(h, s.attrs, MaxAttrs, q)
  BY <1>2, SpanLimits, SetAnyChanges
<1> HIDE DEF q
<1>4. /\ q.h \in Heaps /\ q.st \in Statuses /\ GoodVec(q.o, MaxAttrs)
      /\ q.h.live = h.live + VecBlocks(q.o) - VecBlocks(s.attrs)
      /\ q.st # "OK" => q.o.items = s.attrs.items
  BY <1>3 DEF Changed
<1>5. /\ SpanGood(d) /\ SpanBlocks(d) = SpanBlocks(s) + VecBlocks(q.o) - VecBlocks(s.attrs)
      /\ q.o.items = s.attrs.items => Held(d) = Held(s)
  BY <1>4, SpanWithAttrs
<1> HIDE DEF d
<1>6. q.h.live = h.live + SpanBlocks(d) - SpanBlocks(s)
  <2>1. /\ VecBlocks(q.o) \in Int /\ VecBlocks(s.attrs) \in Int /\ SpanBlocks(s) \in Int
        /\ h.live \in Int
    BY <1>2, <1>4, VecBlocksType, SpanBlockTypes, HeapNumbers DEF GoodVec
  <2> QED BY <1>4, <1>5, <2>1
<1> QED BY <1>1, <1>4, <1>5, <1>6, SpanChangedResult

\* A span with other attributes at one of its events.
LEMMA SpanWithEventAttrs ==
  ASSUME NEW s, SpanGood(s), NEW k \in 1..Len(s.events), NEW w, GoodVec(w, MaxEventAttrs)
  PROVE  LET d == [s EXCEPT !.events[k].attrs = w] IN
         /\ SpanGood(d)
         /\ SpanBlocks(d) = SpanBlocks(s) + VecBlocks(w) - VecBlocks(s.events[k].attrs)
         /\ w.items = s.events[k].attrs.items => Held(d) = Held(s)
<1> DEFINE d == [s EXCEPT !.events[k].attrs = w]
<1> DEFINE e == [s.events[k] EXCEPT !.attrs = w]
<1> DEFINE q == [s.events EXCEPT ![k] = e]
<1>1. /\ s \in Span /\ w \in Vec /\ s.events \in Seq(Event) /\ s.events[k] \in Event
      /\ DOMAIN s.events = 1..Len(s.events) /\ k \in DOMAIN s.events
      /\ "events" \in DOMAIN s /\ "attrs" \in DOMAIN s
  BY SpanFields DEF SpanGood, GoodVec
<1>2. e \in Event
  BY Zenon, <1>1 DEF Event
<1>3. /\ e.attrs = w /\ DOMAIN e = DOMAIN s.events[k]
      /\ \A f \in DOMAIN e : f # "attrs" => e[f] = s.events[k][f]
  <2>1. DOMAIN s.events[k] = {"name", "time", "attrs"}
    BY <1>1 DEF Event
  <2> QED BY <2>1
<1>4. d = [s EXCEPT !.events = q]
  BY <1>1
<1> HIDE DEF e
<1>5. /\ q \in Seq(Event) /\ Len(q) = Len(s.events) /\ DOMAIN q = DOMAIN s.events
      /\ q[k] = e /\ \A i \in DOMAIN q : i # k => q[i] = s.events[i]
  BY <1>1, <1>2
<1>6. EventBlocks(q) = EventBlocks(s.events) + VecBlocks(w) - VecBlocks(s.events[k].attrs)
  BY <1>1, <1>2, <1>3, EventBlocksReplace
<1> HIDE DEF q
<1>7. [s EXCEPT !.events = q] \in Span
  BY Zenon, <1>1, <1>5 DEF Span
<1>8. /\ d.attrs = s.attrs /\ d.events = q /\ d.links = s.links
      /\ d.capEvents = s.capEvents /\ d.capLinks = s.capLinks
      /\ d.message = s.message /\ d.traceState = s.traceState
      /\ DOMAIN d = DOMAIN s /\ \A f \in DOMAIN s : f # "events" => d[f] = s[f]
  BY <1>1, <1>4, SpanFields
<1>9. d \in Span
  BY <1>4, <1>7
<1> HIDE DEF d
<1>10. SpanGood(d)
  <2>1. \A i \in DOMAIN q : GoodVec(q[i].attrs, MaxEventAttrs)
    BY <1>3, <1>5 DEF SpanGood
  <2> QED BY <1>5, <1>8, <1>9, <2>1 DEF SpanGood
<1>11. SpanBlocks(d) = SpanBlocks(s) + VecBlocks(w) - VecBlocks(s.events[k].attrs)
  <2>1. VecBlocks(w) \in Int /\ VecBlocks(s.events[k].attrs) \in Int
    <3>1. s.events[k].attrs \in Vec
      BY <1>1 DEF Event
    <3> QED BY <1>1, <3>1, VecBlocksType
  <2> DEFINE x == VecBlocks(w)
  <2> DEFINE y == VecBlocks(s.events[k].attrs)
  <2>2. SpanOwn(d) = SpanOwn(s) /\ LinkBlocks(d.links) = LinkBlocks(s.links)
    BY <1>8 DEF SpanOwn
  <2>3. /\ SpanBlocks(s) = SpanOwn(s) + EventBlocks(s.events) + LinkBlocks(s.links)
        /\ SpanOwn(s) \in Int /\ EventBlocks(s.events) \in Int /\ LinkBlocks(s.links) \in Int
        /\ SpanBlocks(d) = SpanOwn(d) + EventBlocks(d.events) + LinkBlocks(d.links)
    BY <1>1, <1>9, SpanBlocksSplit
  <2>4. EventBlocks(d.events) = EventBlocks(s.events) + x - y /\ x \in Int /\ y \in Int
    BY <1>6, <1>8, <2>1
  <2> HIDE DEF x, y
  <2>5. SpanBlocks(d) = SpanBlocks(s) + x - y
    BY <2>2, <2>3, <2>4
  <2> QED BY <2>5 DEF x, y
<1>12. ASSUME w.items = s.events[k].attrs.items PROVE Held(d) = Held(s)
  <2>1. HeldBy(e) = HeldBy(s.events[k])
    BY <1>3, <1>12 DEF HeldBy
  <2>2. [i \in DOMAIN q |-> HeldBy(q[i])] = [i \in DOMAIN s.events |-> HeldBy(s.events[i])]
    BY <1>5, <2>1
  <2> QED BY <1>1, <1>8, <2>2 DEF Held
<1> QED BY <1>10, <1>11, <1>12 DEF d

\* An attribute of the last event.
LEMMA SpanSetEventAttributeChanges ==
  ASSUME NEW h \in Heaps, NEW s, SpanGood(s), NEW key \in Opt(Text), NEW v, IsValue(v)
  PROVE  SpanChanged(h, s, otlp_span_set_event_attribute(h, s, key, v))
<1> DEFINE k == Len(s.events)
<1> DEFINE u == s.events[k].attrs
<1> DEFINE q == SetAny(h, u, MaxEventAttrs, key, v)
<1> DEFINE d == [s EXCEPT !.events[k].attrs = q.o]
<1>1. otlp_span_set_event_attribute(h, s, key, v)
        = IF k = 0 THEN Result(h, "INVALID_ARGUMENT", s) ELSE Result(q.h, q.st, d)
  BY DEF otlp_span_set_event_attribute, Into
<1>2. CASE k = 0
  <2>1. SpanChanged(h, s, Result(h, "INVALID_ARGUMENT", s))
    BY SpanUnchanged DEF Statuses
  <2> QED BY <1>1, <1>2, <2>1
<1>3. CASE k # 0
  <2>1. k \in 1..Len(s.events) /\ GoodVec(u, MaxEventAttrs) /\ u \in Vec /\ s \in Span
    <3>1. s.events \in Seq(Event)
      BY SpanFields DEF SpanGood
    <3> QED BY <1>3, <3>1 DEF SpanGood, GoodVec
  <2>2. Changed(h, u, MaxEventAttrs, q)
    <3> HIDE DEF u
    <3> QED BY <2>1, SpanLimits, SetAnyChanges
  <2> HIDE DEF q
  <2>3. /\ q.h \in Heaps /\ q.st \in Statuses /\ GoodVec(q.o, MaxEventAttrs)
        /\ q.h.live = h.live + VecBlocks(q.o) - VecBlocks(u)
        /\ q.st # "OK" => q.o.items = u.items
    BY <2>2 DEF Changed
  <2> HIDE DEF k
  <2>4. /\ SpanGood(d) /\ SpanBlocks(d) = SpanBlocks(s) + VecBlocks(q.o) - VecBlocks(u)
        /\ q.o.items = u.items => Held(d) = Held(s)
    BY <2>1, <2>3, SpanWithEventAttrs
  <2> HIDE DEF d, u
  <2>5. q.h.live = h.live + SpanBlocks(d) - SpanBlocks(s)
    <3>1. /\ VecBlocks(q.o) \in Int /\ VecBlocks(u) \in Int /\ SpanBlocks(s) \in Int
          /\ h.live \in Int
      BY <2>1, <2>3, VecBlocksType, SpanBlockTypes, HeapNumbers DEF GoodVec
    <3> QED BY <2>3, <2>4, <3>1
  <2>6. SpanChanged(h, s, Result(q.h, q.st, d))
    BY <2>3, <2>4, <2>5, SpanChangedResult
  <2> QED BY <1>1, <1>3, <2>6
<1> QED BY <1>2, <1>3
\* A span with other attributes at one of its links.
LEMMA SpanWithLinkAttrs ==
  ASSUME NEW s, SpanGood(s), NEW k \in 1..Len(s.links), NEW w, GoodVec(w, MaxLinkAttrs)
  PROVE  LET d == [s EXCEPT !.links[k].attrs = w] IN
         /\ SpanGood(d)
         /\ SpanBlocks(d) = SpanBlocks(s) + VecBlocks(w) - VecBlocks(s.links[k].attrs)
         /\ w.items = s.links[k].attrs.items => Held(d) = Held(s)
<1> DEFINE d == [s EXCEPT !.links[k].attrs = w]
<1> DEFINE e == [s.links[k] EXCEPT !.attrs = w]
<1> DEFINE q == [s.links EXCEPT ![k] = e]
<1>1. /\ s \in Span /\ w \in Vec /\ s.links \in Seq(Link) /\ s.links[k] \in Link
      /\ DOMAIN s.links = 1..Len(s.links) /\ k \in DOMAIN s.links
      /\ "links" \in DOMAIN s /\ "attrs" \in DOMAIN s
  BY SpanFields DEF SpanGood, GoodVec
<1>2. e \in Link
  BY Zenon, <1>1 DEF Link
<1>3. /\ e.attrs = w /\ DOMAIN e = DOMAIN s.links[k]
      /\ \A f \in DOMAIN e : f # "attrs" => e[f] = s.links[k][f]
  <2>1. DOMAIN s.links[k] = {"traceId", "spanId", "attrs"}
    BY <1>1 DEF Link
  <2> QED BY <2>1
<1>4. d = [s EXCEPT !.links = q]
  BY <1>1
<1> HIDE DEF e
<1>5. /\ q \in Seq(Link) /\ Len(q) = Len(s.links) /\ DOMAIN q = DOMAIN s.links
      /\ q[k] = e /\ \A i \in DOMAIN q : i # k => q[i] = s.links[i]
  BY <1>1, <1>2
<1>6. LinkBlocks(q) = LinkBlocks(s.links) + VecBlocks(w) - VecBlocks(s.links[k].attrs)
  BY <1>1, <1>2, <1>3, LinkBlocksReplace
<1> HIDE DEF q
<1>7. [s EXCEPT !.links = q] \in Span
  BY Zenon, <1>1, <1>5 DEF Span
<1>8. /\ d.attrs = s.attrs /\ d.links = q /\ d.events = s.events
      /\ d.capEvents = s.capEvents /\ d.capLinks = s.capLinks
      /\ d.message = s.message /\ d.traceState = s.traceState
      /\ DOMAIN d = DOMAIN s /\ \A f \in DOMAIN s : f # "links" => d[f] = s[f]
  BY <1>1, <1>4, SpanFields
<1>9. d \in Span
  BY <1>4, <1>7
<1> HIDE DEF d
<1>10. SpanGood(d)
  <2>1. \A i \in DOMAIN q : GoodVec(q[i].attrs, MaxLinkAttrs)
    BY <1>3, <1>5 DEF SpanGood
  <2> QED BY <1>5, <1>8, <1>9, <2>1 DEF SpanGood
<1>11. SpanBlocks(d) = SpanBlocks(s) + VecBlocks(w) - VecBlocks(s.links[k].attrs)
  <2>1. VecBlocks(w) \in Int /\ VecBlocks(s.links[k].attrs) \in Int
    <3>1. s.links[k].attrs \in Vec
      BY <1>1 DEF Link
    <3> QED BY <1>1, <3>1, VecBlocksType
  <2> DEFINE x == VecBlocks(w)
  <2> DEFINE y == VecBlocks(s.links[k].attrs)
  <2>2. SpanOwn(d) = SpanOwn(s) /\ EventBlocks(d.events) = EventBlocks(s.events)
    BY <1>8 DEF SpanOwn
  <2>3. /\ SpanBlocks(s) = SpanOwn(s) + EventBlocks(s.events) + LinkBlocks(s.links)
        /\ SpanOwn(s) \in Int /\ EventBlocks(s.events) \in Int /\ LinkBlocks(s.links) \in Int
        /\ SpanBlocks(d) = SpanOwn(d) + EventBlocks(d.events) + LinkBlocks(d.links)
    BY <1>1, <1>9, SpanBlocksSplit
  <2>4. LinkBlocks(d.links) = LinkBlocks(s.links) + x - y /\ x \in Int /\ y \in Int
    BY <1>6, <1>8, <2>1
  <2> HIDE DEF x, y
  <2>5. SpanBlocks(d) = SpanBlocks(s) + x - y
    BY <2>2, <2>3, <2>4
  <2> QED BY <2>5 DEF x, y
<1>12. ASSUME w.items = s.links[k].attrs.items PROVE Held(d) = Held(s)
  <2>1. HeldBy(e) = HeldBy(s.links[k])
    BY <1>3, <1>12 DEF HeldBy
  <2>2. [i \in DOMAIN q |-> HeldBy(q[i])] = [i \in DOMAIN s.links |-> HeldBy(s.links[i])]
    BY <1>5, <2>1
  <2> QED BY <1>1, <1>8, <2>2 DEF Held
<1> QED BY <1>10, <1>11, <1>12 DEF d

\* An attribute of the last link.
LEMMA SpanSetLinkAttributeChanges ==
  ASSUME NEW h \in Heaps, NEW s, SpanGood(s), NEW key \in Opt(Text), NEW v, IsValue(v)
  PROVE  SpanChanged(h, s, otlp_span_set_link_attribute(h, s, key, v))
<1> DEFINE k == Len(s.links)
<1> DEFINE u == s.links[k].attrs
<1> DEFINE q == SetAny(h, u, MaxLinkAttrs, key, v)
<1> DEFINE d == [s EXCEPT !.links[k].attrs = q.o]
<1>1. otlp_span_set_link_attribute(h, s, key, v)
        = IF k = 0 THEN Result(h, "INVALID_ARGUMENT", s) ELSE Result(q.h, q.st, d)
  BY DEF otlp_span_set_link_attribute, Into
<1>2. CASE k = 0
  <2>1. SpanChanged(h, s, Result(h, "INVALID_ARGUMENT", s))
    BY SpanUnchanged DEF Statuses
  <2> QED BY <1>1, <1>2, <2>1
<1>3. CASE k # 0
  <2>1. k \in 1..Len(s.links) /\ GoodVec(u, MaxLinkAttrs) /\ u \in Vec /\ s \in Span
    <3>1. s.links \in Seq(Link)
      BY SpanFields DEF SpanGood
    <3> QED BY <1>3, <3>1 DEF SpanGood, GoodVec
  <2>2. Changed(h, u, MaxLinkAttrs, q)
    <3> HIDE DEF u
    <3> QED BY <2>1, SpanLimits, SetAnyChanges
  <2> HIDE DEF q
  <2>3. /\ q.h \in Heaps /\ q.st \in Statuses /\ GoodVec(q.o, MaxLinkAttrs)
        /\ q.h.live = h.live + VecBlocks(q.o) - VecBlocks(u)
        /\ q.st # "OK" => q.o.items = u.items
    BY <2>2 DEF Changed
  <2> HIDE DEF k
  <2>4. /\ SpanGood(d) /\ SpanBlocks(d) = SpanBlocks(s) + VecBlocks(q.o) - VecBlocks(u)
        /\ q.o.items = u.items => Held(d) = Held(s)
    BY <2>1, <2>3, SpanWithLinkAttrs
  <2> HIDE DEF d, u
  <2>5. q.h.live = h.live + SpanBlocks(d) - SpanBlocks(s)
    <3>1. /\ VecBlocks(q.o) \in Int /\ VecBlocks(u) \in Int /\ SpanBlocks(s) \in Int
          /\ h.live \in Int
      BY <2>1, <2>3, VecBlocksType, SpanBlockTypes, HeapNumbers DEF GoodVec
    <3> QED BY <2>3, <2>4, <3>1
  <2>6. SpanChanged(h, s, Result(q.h, q.st, d))
    BY <2>3, <2>4, <2>5, SpanChangedResult
  <2> QED BY <1>1, <1>3, <2>6
<1> QED BY <1>2, <1>3

\* A capacity that has grown.
LEMMA GrownCapBounds ==
  ASSUME NEW max \in Nat, NEW c \in Nat, c < max
  PROVE  GrownCap(c, max) \in Nat /\ c < GrownCap(c, max) /\ GrownCap(c, max) <= max
BY FirstCapAssumption DEF GrownCap, Lesser

\* A span with more room for events.
LEMMA SpanWithCapEvents ==
  ASSUME NEW s, SpanGood(s), NEW c \in Nat, s.capEvents < c, c # 0
  PROVE  LET d == [s EXCEPT !.capEvents = c] IN
         /\ SpanGood(d) /\ SpanBlocks(d) = SpanBlocks(s) + Bit(~ (s.capEvents > 0))
         /\ d.events = s.events /\ d.capEvents = c
<1> DEFINE d == [s EXCEPT !.capEvents = c]
<1>1. s \in Span
  BY DEF SpanGood
<1>2. d \in Span
  BY Zenon, <1>1 DEF Span
<1>3. /\ d.attrs = s.attrs /\ d.events = s.events /\ d.links = s.links
      /\ d.capEvents = c /\ d.capLinks = s.capLinks
      /\ d.message = s.message /\ d.traceState = s.traceState
  BY <1>1, SpanFields
<1> HIDE DEF d
<1>4. SpanGood(d)
  <2>1. Len(s.events) <= c
    <3>1. s.events \in Seq(Event) /\ s.capEvents \in Nat /\ Len(s.events) <= s.capEvents
      BY <1>1, SpanFields DEF SpanGood
    <3> QED BY <3>1
  <2> QED BY <1>2, <1>3, <2>1 DEF SpanGood
<1>5. SpanBlocks(d) = SpanBlocks(s) + Bit(~ (s.capEvents > 0))
  <2>1. /\ SpanBlocks(s) = SpanOwn(s) + EventBlocks(s.events) + LinkBlocks(s.links)
        /\ SpanOwn(s) \in Int /\ EventBlocks(s.events) \in Int /\ LinkBlocks(s.links) \in Int
        /\ SpanBlocks(d) = SpanOwn(d) + EventBlocks(s.events) + LinkBlocks(s.links)
    BY <1>1, <1>2, <1>3, SpanBlocksSplit
  <2>2. SpanOwn(d) = SpanOwn(s) + Bit(~ (s.capEvents > 0))
    <3> DEFINE a == 2 + Bit(s.message # NULL) + Bit(s.traceState # NULL)
    <3> DEFINE b == Bit(s.capLinks > 0) + VecBlocks(s.attrs)
    <3>1. a \in Int /\ b \in Int /\ Bit(s.capEvents > 0) \in Int
      BY <1>1, SpanBlockTypes
    <3>2. SpanOwn(s) = a + Bit(s.capEvents > 0) + b /\ SpanOwn(d) = a + Bit(c > 0) + b
      BY <1>1, <1>3, SpanBlockTypes, BitType DEF SpanOwn
    <3> HIDE DEF a, b
    <3>3. s.capEvents \in Nat
      BY <1>1, SpanFields
    <3>4. Bit(c > 0) = Bit(s.capEvents > 0) + Bit(~ (s.capEvents > 0))
      BY <3>3 DEF Bit
    <3>5. Bit(~ (s.capEvents > 0)) \in Int
      BY BitType
    <3> QED BY <3>1, <3>2, <3>4, <3>5
  <2>3. Bit(~ (s.capEvents > 0)) \in Int
    BY BitType
  <2> QED BY <2>1, <2>2, <2>3
<1> QED BY <1>3, <1>4, <1>5 DEF d

\* Room for an event, or nothing changed.
LEMMA EventGrows ==
  ASSUME NEW h \in Heaps, NEW s, SpanGood(s), Len(s.events) < MaxEvents
  PROVE  LET r == event_grow(h, s) IN
         /\ r.h \in Heaps /\ r.st \in {"OK", "NOMEM"} /\ SpanGood(r.o)
         /\ r.h.live = h.live + SpanBlocks(r.o) - SpanBlocks(s)
         /\ r.st = "OK" => Len(r.o.events) < r.o.capEvents
         /\ r.o.events = s.events
<1> DEFINE r == event_grow(h, s)
<1> DEFINE c == GrownCap(s.capEvents, MaxEvents)
<1> DEFINE d == [s EXCEPT !.capEvents = c]
<1> DEFINE had == s.capEvents > 0
<1> DEFINE g == otlp_realloc(h, had)
<1>1. /\ s \in Span /\ s.capEvents \in Nat /\ s.events \in Seq(Event) /\ Len(s.events) <= s.capEvents
      /\ h.live \in Int /\ SpanBlocks(s) \in Int
  BY SpanFields, SpanBlockTypes, HeapNumbers DEF SpanGood
<1>2. r = IF Len(s.events) < s.capEvents THEN Result(h, "OK", s)
          ELSE IF CanAlloc(h) THEN Result(g, "OK", d)
          ELSE Result(g, "NOMEM", s)
  BY DEF event_grow
<1>3. g \in Heaps /\ g.live = h.live + Bit(CanAlloc(h) /\ ~ had)
  <2>1. had \in BOOLEAN
    OBVIOUS
  <2> HIDE DEF had
  <2> QED BY <2>1, ReallocUses
<1> DEFINE Good(x) == 
         /\ x.h \in Heaps /\ x.st \in {"OK", "NOMEM"} /\ SpanGood(x.o)
         /\ x.h.live = h.live + SpanBlocks(x.o) - SpanBlocks(s)
         /\ x.st = "OK" => Len(x.o.events) < x.o.capEvents
         /\ x.o.events = s.events
<1> SUFFICES Good(r)
  OBVIOUS
<1> HIDE DEF r, g
<1>4. CASE Len(s.events) < s.capEvents
  <2>1. h.live = h.live + SpanBlocks(s) - SpanBlocks(s)
    BY <1>1
  <2> QED BY <1>1, <1>2, <1>4, <2>1, ResultParts
<1>5. CASE ~ (Len(s.events) < s.capEvents) /\ ~ CanAlloc(h)
  <2>1. g.live = h.live + SpanBlocks(s) - SpanBlocks(s)
    BY <1>1, <1>3, <1>5 DEF Bit
  <2> QED BY <1>2, <1>3, <1>5, <2>1, ResultParts
<1>6. CASE ~ (Len(s.events) < s.capEvents) /\ CanAlloc(h)
  <2>1. s.capEvents < MaxEvents
    BY <1>1, <1>6, SpanLimits
  <2>2. c \in Nat /\ s.capEvents < c /\ c # 0
    BY <1>1, <2>1, SpanLimits, GrownCapBounds
  <2> HIDE DEF c
  <2>3. /\ SpanGood(d) /\ SpanBlocks(d) = SpanBlocks(s) + Bit(~ (s.capEvents > 0))
        /\ d.events = s.events /\ d.capEvents = c
    BY <2>2, SpanWithCapEvents
  <2> HIDE DEF d
  <2>4. g.live = h.live + SpanBlocks(d) - SpanBlocks(s)
    <3>1. Bit(CanAlloc(h) /\ ~ had) = Bit(~ (s.capEvents > 0)) /\ Bit(~ (s.capEvents > 0)) \in Int
      BY <1>6 DEF Bit
    <3> QED BY <1>1, <1>3, <2>3, <3>1
  <2>5. Len(d.events) < d.capEvents
    BY <1>1, <2>2, <2>3
  <2>6. r = Result(g, "OK", d)
    BY <1>2, <1>6
  <2> QED BY <1>3, <2>3, <2>4, <2>5, <2>6, ResultParts
<1> QED BY <1>4, <1>5, <1>6

\* A span with one event more.
OneMoreEvent(s, e) ==
  LET q == Append(s.events, e)
      d == [s EXCEPT !.events = q]
  IN  /\ SpanGood(d) /\ SpanBlocks(d) = SpanBlocks(s) + 1 /\ d.events = q
      /\ Len(q) = Len(s.events) + 1 /\ q[Len(q)] = e

\* There is room for the event, which owns only its name.
LEMMA SpanWithEvent ==
  ASSUME NEW s, SpanGood(s), Len(s.events) < s.capEvents, NEW e \in Event,
         GoodVec(e.attrs, MaxEventAttrs), VecBlocks(e.attrs) = 0
  PROVE  OneMoreEvent(s, e)
<1> DEFINE q == Append(s.events, e)
<1> DEFINE d == [s EXCEPT !.events = q]
<1>1. s \in Span /\ s.events \in Seq(Event) /\ s.capEvents \in Nat
  BY SpanFields DEF SpanGood
<1>2. /\ q \in Seq(Event) /\ Len(q) = Len(s.events) + 1 /\ q[Len(q)] = e
      /\ DOMAIN q = 1..(Len(s.events) + 1) /\ \A i \in 1..Len(s.events) : q[i] = s.events[i]
      /\ DOMAIN s.events = 1..Len(s.events) /\ Len(s.events) \in Nat
  BY <1>1
<1> HIDE DEF q
<1>3. d \in Span
  BY Zenon, <1>1, <1>2 DEF Span
<1>4. /\ d.attrs = s.attrs /\ d.events = q /\ d.links = s.links
      /\ d.capEvents = s.capEvents /\ d.capLinks = s.capLinks
      /\ d.message = s.message /\ d.traceState = s.traceState
  BY <1>1, SpanFields
<1> HIDE DEF d
<1>5. SpanGood(d)
  <2>1. \A i \in DOMAIN q : GoodVec(q[i].attrs, MaxEventAttrs)
    <3>1. \A i \in 1..Len(s.events) : GoodVec(q[i].attrs, MaxEventAttrs)
      BY <1>2 DEF SpanGood
    <3>2. GoodVec(q[Len(s.events) + 1].attrs, MaxEventAttrs)
      BY <1>2
    <3> QED BY <1>2, <3>1, <3>2
  <2>2. Len(q) <= s.capEvents
    BY <1>1, <1>2
  <2> QED BY <1>3, <1>4, <2>1, <2>2 DEF SpanGood
<1>6. SpanBlocks(d) = SpanBlocks(s) + 1
  <2>1. EventBlocks(q) = EventBlocks(s.events) + (1 + VecBlocks(e.attrs))
    BY <1>1, EventBlocksAppend DEF q
  <2>2. SpanOwn(d) = SpanOwn(s)
    BY <1>4 DEF SpanOwn
  <2>3. /\ SpanBlocks(s) = SpanOwn(s) + EventBlocks(s.events) + LinkBlocks(s.links)
        /\ SpanOwn(s) \in Int /\ EventBlocks(s.events) \in Int /\ LinkBlocks(s.links) \in Int
        /\ SpanBlocks(d) = SpanOwn(d) + EventBlocks(q) + LinkBlocks(s.links)
    BY <1>1, <1>3, <1>4, SpanBlocksSplit
  <2> QED BY <2>1, <2>2, <2>3
<1> QED BY <1>2, <1>4, <1>5, <1>6 DEF d, q, OneMoreEvent

\* An event is added, or nothing changed.
LEMMA SpanAddEventChanges ==
  ASSUME NEW h \in Heaps, NEW s, SpanGood(s), NEW name \in Opt(Text), NEW time \in Opt(Int)
  PROVE  LET r == otlp_span_add_event(h, s, name, time) IN
         /\ SpanChanged(h, s, r) /\ IsResult(r)
         /\ r.st = "OK" => /\ Len(r.o.events) = Len(s.events) + 1
                           /\ r.o.events[Len(r.o.events)].attrs = NoVec
<1> DEFINE r == otlp_span_add_event(h, s, name, time)
<1> DEFINE n == otlp_dup_str(h, name)
<1> DEFINE g == event_grow(n.h, s)
<1> DEFINE e == [name |-> n.o, time |-> time, attrs |-> NoVec]
<1> DEFINE q == Append(g.o.events, e)
<1> DEFINE d == [g.o EXCEPT !.events = q]
<1> DEFINE f == otlp_free(g.h, 1)
<1> DEFINE Good(x) == 
         /\ SpanChanged(h, s, x) /\ IsResult(x)
         /\ x.st = "OK" => /\ Len(x.o.events) = Len(s.events) + 1
                           /\ x.o.events[Len(x.o.events)].attrs = NoVec
<1> SUFFICES Good(r)
  OBVIOUS
<1>1. r = IF name = NULL THEN Result(h, "NULL", s)
          ELSE IF Len(s.events) >= MaxEvents THEN Result(h, "OVERFLOW", s)
          ELSE IF ~ otlp_str_is_utf8(name) THEN Result(h, "UTF8", s)
          ELSE IF n.st # "OK" THEN Result(n.h, "NOMEM", s)
          ELSE IF g.st # "OK" THEN Result(f, "NOMEM", s)
          ELSE Result(g.h, "OK", d)
  BY DEF otlp_span_add_event
<1>2. ASSUME NEW x \in Heaps, x.live = h.live, NEW st \in Statuses, st # "OK"
      PROVE  Good(Result(x, st, s))
  BY <1>2, SpanUnchanged, ResultParts
<1>3. /\ n.h \in Heaps /\ n.h.live = h.live + Bit(n.o # NULL)
      /\ n.st = "OK" => n.o = name
      /\ n.st # "OK" => n.o = NULL
  BY DupStrUses DEF Uses
<1>4. /\ h.live \in Int /\ SpanBlocks(s) \in Int /\ s.events \in Seq(Event) /\ Len(s.events) \in Nat
      /\ s \in Span
  BY HeapNumbers, SpanBlockTypes, SpanFields DEF SpanGood
<1> HIDE DEF n
<1>5. CASE name = NULL \/ Len(s.events) >= MaxEvents \/ ~ otlp_str_is_utf8(name)
  <2>1. \E st \in {"NULL", "OVERFLOW", "UTF8"} : r = Result(h, st, s)
    BY <1>1, <1>5
  <2> HIDE DEF Good, r
  <2> QED BY <1>2, <2>1 DEF Statuses
<1>6. CASE name # NULL /\ ~ (Len(s.events) >= MaxEvents) /\ otlp_str_is_utf8(name) /\ n.st # "OK"
  <2>1. n.h.live = h.live
    BY <1>3, <1>4, <1>6 DEF Bit
  <2>2. r = Result(n.h, "NOMEM", s)
    BY <1>1, <1>6
  <2> HIDE DEF Good, r
  <2> QED BY <1>2, <1>3, <2>1, <2>2 DEF Statuses
<1>7. CASE name # NULL /\ ~ (Len(s.events) >= MaxEvents) /\ otlp_str_is_utf8(name) /\ n.st = "OK"
  <2>1. Len(s.events) < MaxEvents
    BY <1>4, <1>7, SpanLimits
  <2>2. n.h.live = h.live + 1 /\ n.o \in Text
    BY <1>3, <1>7, TextFacts DEF Bit
  <2>3. /\ g.h \in Heaps /\ g.st \in {"OK", "NOMEM"} /\ SpanGood(g.o)
        /\ g.h.live = n.h.live + SpanBlocks(g.o) - SpanBlocks(s)
        /\ g.st = "OK" => Len(g.o.events) < g.o.capEvents
        /\ g.o.events = s.events
        /\ g.st # "OK" => g.o = s
    <3>1. g.st # "OK" => g.o = s
      BY ResultParts DEF event_grow
    <3> QED BY <1>3, <2>1, <3>1, EventGrows
  <2> HIDE DEF g
  <2>4. SpanBlocks(g.o) \in Int
    BY <2>3, SpanBlockTypes DEF SpanGood
  <2>5. CASE g.st # "OK"
    <3>1. g.h.live = h.live + 1
      BY <1>4, <2>2, <2>3, <2>5
    <3>2. f \in Heaps /\ f.live = g.h.live - 1
      <4>1. 1 \in Int
        OBVIOUS
      <4> QED BY <2>3, <4>1, FreeUses
    <3> HIDE DEF f
    <3>3. f.live = h.live
      BY <1>4, <3>1, <3>2
    <3>4. r = Result(f, "NOMEM", s)
      BY <1>1, <1>7, <2>5
    <3> HIDE DEF Good, r
    <3> QED BY <1>2, <3>2, <3>3, <3>4 DEF Statuses
  <2>6. CASE g.st = "OK"
    <3>1. e \in Event /\ e.attrs = NoVec
      BY <2>2, SpanLimits, NoVecGood DEF Event
    <3> HIDE DEF e
    <3>2. GoodVec(e.attrs, MaxEventAttrs) /\ VecBlocks(e.attrs) = 0
      BY <3>1, SpanLimits, NoVecGood
    <3>3. Len(g.o.events) < g.o.capEvents
      BY <2>3, <2>6
    <3> HIDE DEF q
    <3>4. /\ SpanGood(d) /\ SpanBlocks(d) = SpanBlocks(g.o) + 1 /\ d.events = q
          /\ Len(q) = Len(g.o.events) + 1 /\ q[Len(q)] = e
      <4> DEFINE u == g.o
      <4>1. SpanGood(u) /\ Len(u.events) < u.capEvents
        BY <2>3, <3>3
      <4> HIDE DEF u
      <4>2. OneMoreEvent(u, e)
        BY <3>1, <3>2, <4>1, SpanWithEvent
      <4> QED BY <4>2 DEF OneMoreEvent, q, u
    <3> HIDE DEF d
    <3>5. g.h.live = h.live + SpanBlocks(d) - SpanBlocks(s)
      BY <1>4, <2>2, <2>3, <2>4, <3>4
    <3>6. r = Result(g.h, "OK", d)
      BY <1>1, <1>7, <2>6
    <3> HIDE DEF r
    <3>7. SpanChanged(h, s, r)
      BY <2>3, <3>4, <3>5, <3>6, SpanChangedResult DEF Statuses
    <3> QED BY <2>3, <3>1, <3>4, <3>6, <3>7, ResultParts
  <2> QED BY <2>5, <2>6
<1> QED BY <1>5, <1>6, <1>7

\* A span with more room for links.
LEMMA SpanWithCapLinks ==
  ASSUME NEW s, SpanGood(s), NEW c \in Nat, s.capLinks < c, c # 0
  PROVE  LET d == [s EXCEPT !.capLinks = c] IN
         /\ SpanGood(d) /\ SpanBlocks(d) = SpanBlocks(s) + Bit(~ (s.capLinks > 0))
         /\ d.links = s.links /\ d.capLinks = c
<1> DEFINE d == [s EXCEPT !.capLinks = c]
<1>1. s \in Span
  BY DEF SpanGood
<1>2. d \in Span
  BY Zenon, <1>1 DEF Span
<1>3. /\ d.attrs = s.attrs /\ d.links = s.links /\ d.events = s.events
      /\ d.capLinks = c /\ d.capEvents = s.capEvents
      /\ d.message = s.message /\ d.traceState = s.traceState
  BY <1>1, SpanFields
<1> HIDE DEF d
<1>4. SpanGood(d)
  <2>1. Len(s.links) <= c
    <3>1. s.links \in Seq(Link) /\ s.capLinks \in Nat /\ Len(s.links) <= s.capLinks
      BY <1>1, SpanFields DEF SpanGood
    <3> QED BY <3>1
  <2> QED BY <1>2, <1>3, <2>1 DEF SpanGood
<1>5. SpanBlocks(d) = SpanBlocks(s) + Bit(~ (s.capLinks > 0))
  <2>1. /\ SpanBlocks(s) = SpanOwn(s) + LinkBlocks(s.links) + EventBlocks(s.events)
        /\ SpanOwn(s) \in Int /\ LinkBlocks(s.links) \in Int /\ EventBlocks(s.events) \in Int
        /\ SpanBlocks(d) = SpanOwn(d) + LinkBlocks(s.links) + EventBlocks(s.events)
    BY <1>1, <1>2, <1>3, SpanBlocksSplit
  <2>2. SpanOwn(d) = SpanOwn(s) + Bit(~ (s.capLinks > 0))
    <3> DEFINE a == 2 + Bit(s.message # NULL) + Bit(s.traceState # NULL)
    <3> DEFINE b == Bit(s.capEvents > 0) + VecBlocks(s.attrs)
    <3>1. a \in Int /\ b \in Int /\ Bit(s.capLinks > 0) \in Int
      BY <1>1, SpanBlockTypes
    <3>2. SpanOwn(s) = a + Bit(s.capLinks > 0) + b /\ SpanOwn(d) = a + Bit(c > 0) + b
      BY <1>1, <1>3, SpanBlockTypes, BitType DEF SpanOwn
    <3> HIDE DEF a, b
    <3>3. s.capLinks \in Nat
      BY <1>1, SpanFields
    <3>4. Bit(c > 0) = Bit(s.capLinks > 0) + Bit(~ (s.capLinks > 0))
      BY <3>3 DEF Bit
    <3>5. Bit(~ (s.capLinks > 0)) \in Int
      BY BitType
    <3> QED BY <3>1, <3>2, <3>4, <3>5
  <2>3. Bit(~ (s.capLinks > 0)) \in Int
    BY BitType
  <2> QED BY <2>1, <2>2, <2>3
<1> QED BY <1>3, <1>4, <1>5 DEF d

\* Room for a link, or nothing changed.
LEMMA LinkGrows ==
  ASSUME NEW h \in Heaps, NEW s, SpanGood(s), Len(s.links) < MaxLinks
  PROVE  LET r == link_grow(h, s) IN
         /\ r.h \in Heaps /\ r.st \in {"OK", "NOMEM"} /\ SpanGood(r.o)
         /\ r.h.live = h.live + SpanBlocks(r.o) - SpanBlocks(s)
         /\ r.st = "OK" => Len(r.o.links) < r.o.capLinks
         /\ r.o.links = s.links
<1> DEFINE r == link_grow(h, s)
<1> DEFINE c == GrownCap(s.capLinks, MaxLinks)
<1> DEFINE d == [s EXCEPT !.capLinks = c]
<1> DEFINE had == s.capLinks > 0
<1> DEFINE g == otlp_realloc(h, had)
<1>1. /\ s \in Span /\ s.capLinks \in Nat /\ s.links \in Seq(Link) /\ Len(s.links) <= s.capLinks
      /\ h.live \in Int /\ SpanBlocks(s) \in Int
  BY SpanFields, SpanBlockTypes, HeapNumbers DEF SpanGood
<1>2. r = IF Len(s.links) < s.capLinks THEN Result(h, "OK", s)
          ELSE IF CanAlloc(h) THEN Result(g, "OK", d)
          ELSE Result(g, "NOMEM", s)
  BY DEF link_grow
<1>3. g \in Heaps /\ g.live = h.live + Bit(CanAlloc(h) /\ ~ had)
  <2>1. had \in BOOLEAN
    OBVIOUS
  <2> HIDE DEF had
  <2> QED BY <2>1, ReallocUses
<1> DEFINE Good(x) == 
         /\ x.h \in Heaps /\ x.st \in {"OK", "NOMEM"} /\ SpanGood(x.o)
         /\ x.h.live = h.live + SpanBlocks(x.o) - SpanBlocks(s)
         /\ x.st = "OK" => Len(x.o.links) < x.o.capLinks
         /\ x.o.links = s.links
<1> SUFFICES Good(r)
  OBVIOUS
<1> HIDE DEF r, g
<1>4. CASE Len(s.links) < s.capLinks
  <2>1. h.live = h.live + SpanBlocks(s) - SpanBlocks(s)
    BY <1>1
  <2> QED BY <1>1, <1>2, <1>4, <2>1, ResultParts
<1>5. CASE ~ (Len(s.links) < s.capLinks) /\ ~ CanAlloc(h)
  <2>1. g.live = h.live + SpanBlocks(s) - SpanBlocks(s)
    BY <1>1, <1>3, <1>5 DEF Bit
  <2> QED BY <1>2, <1>3, <1>5, <2>1, ResultParts
<1>6. CASE ~ (Len(s.links) < s.capLinks) /\ CanAlloc(h)
  <2>1. s.capLinks < MaxLinks
    BY <1>1, <1>6, SpanLimits
  <2>2. c \in Nat /\ s.capLinks < c /\ c # 0
    BY <1>1, <2>1, SpanLimits, GrownCapBounds
  <2> HIDE DEF c
  <2>3. /\ SpanGood(d) /\ SpanBlocks(d) = SpanBlocks(s) + Bit(~ (s.capLinks > 0))
        /\ d.links = s.links /\ d.capLinks = c
    BY <2>2, SpanWithCapLinks
  <2> HIDE DEF d
  <2>4. g.live = h.live + SpanBlocks(d) - SpanBlocks(s)
    <3>1. Bit(CanAlloc(h) /\ ~ had) = Bit(~ (s.capLinks > 0)) /\ Bit(~ (s.capLinks > 0)) \in Int
      BY <1>6 DEF Bit
    <3> QED BY <1>1, <1>3, <2>3, <3>1
  <2>5. Len(d.links) < d.capLinks
    BY <1>1, <2>2, <2>3
  <2>6. r = Result(g, "OK", d)
    BY <1>2, <1>6
  <2> QED BY <1>3, <2>3, <2>4, <2>5, <2>6, ResultParts
<1> QED BY <1>4, <1>5, <1>6

\* A span with one link more.
OneMoreLink(s, e) ==
  LET q == Append(s.links, e)
      d == [s EXCEPT !.links = q]
  IN  /\ SpanGood(d) /\ SpanBlocks(d) = SpanBlocks(s) /\ d.links = q
      /\ Len(q) = Len(s.links) + 1 /\ q[Len(q)] = e

\* There is room for the link, which owns nothing.
LEMMA SpanWithLink ==
  ASSUME NEW s, SpanGood(s), Len(s.links) < s.capLinks, NEW e \in Link,
         GoodVec(e.attrs, MaxLinkAttrs), VecBlocks(e.attrs) = 0
  PROVE  OneMoreLink(s, e)
<1> DEFINE q == Append(s.links, e)
<1> DEFINE d == [s EXCEPT !.links = q]
<1>1. s \in Span /\ s.links \in Seq(Link) /\ s.capLinks \in Nat
  BY SpanFields DEF SpanGood
<1>2. /\ q \in Seq(Link) /\ Len(q) = Len(s.links) + 1 /\ q[Len(q)] = e
      /\ DOMAIN q = 1..(Len(s.links) + 1) /\ \A i \in 1..Len(s.links) : q[i] = s.links[i]
      /\ DOMAIN s.links = 1..Len(s.links) /\ Len(s.links) \in Nat
  BY <1>1
<1> HIDE DEF q
<1>3. d \in Span
  BY Zenon, <1>1, <1>2 DEF Span
<1>4. /\ d.attrs = s.attrs /\ d.links = q /\ d.events = s.events
      /\ d.capLinks = s.capLinks /\ d.capEvents = s.capEvents
      /\ d.message = s.message /\ d.traceState = s.traceState
  BY <1>1, SpanFields
<1> HIDE DEF d
<1>5. SpanGood(d)
  <2>1. \A i \in DOMAIN q : GoodVec(q[i].attrs, MaxLinkAttrs)
    <3>1. \A i \in 1..Len(s.links) : GoodVec(q[i].attrs, MaxLinkAttrs)
      BY <1>2 DEF SpanGood
    <3>2. GoodVec(q[Len(s.links) + 1].attrs, MaxLinkAttrs)
      BY <1>2
    <3> QED BY <1>2, <3>1, <3>2
  <2>2. Len(q) <= s.capLinks
    BY <1>1, <1>2
  <2> QED BY <1>3, <1>4, <2>1, <2>2 DEF SpanGood
<1>6. SpanBlocks(d) = SpanBlocks(s)
  <2>1. LinkBlocks(q) = LinkBlocks(s.links) + VecBlocks(e.attrs)
    BY <1>1, LinkBlocksAppend DEF q
  <2>2. SpanOwn(d) = SpanOwn(s)
    BY <1>4 DEF SpanOwn
  <2>3. /\ SpanBlocks(s) = SpanOwn(s) + LinkBlocks(s.links) + EventBlocks(s.events)
        /\ SpanOwn(s) \in Int /\ LinkBlocks(s.links) \in Int /\ EventBlocks(s.events) \in Int
        /\ SpanBlocks(d) = SpanOwn(d) + LinkBlocks(q) + EventBlocks(s.events)
    BY <1>1, <1>3, <1>4, SpanBlocksSplit
  <2> QED BY <2>1, <2>2, <2>3
<1> QED BY <1>2, <1>4, <1>5, <1>6 DEF d, q, OneMoreLink

\* A link is added, or nothing changed.
LEMMA SpanAddLinkChanges ==
  ASSUME NEW h \in Heaps, NEW s, SpanGood(s), NEW traceId \in Opt(Int), NEW spanId \in Opt(Int)
  PROVE  LET r == otlp_span_add_link(h, s, traceId, spanId) IN
         /\ SpanChanged(h, s, r) /\ IsResult(r)
         /\ r.st = "OK" => /\ Len(r.o.links) = Len(s.links) + 1
                           /\ r.o.links[Len(r.o.links)].attrs = NoVec
<1> DEFINE r == otlp_span_add_link(h, s, traceId, spanId)
<1> DEFINE g == link_grow(h, s)
<1> DEFINE e == [traceId |-> traceId, spanId |-> spanId, attrs |-> NoVec]
<1> DEFINE q == Append(g.o.links, e)
<1> DEFINE d == [g.o EXCEPT !.links = q]
<1> DEFINE Good(x) ==
         /\ SpanChanged(h, s, x) /\ IsResult(x)
         /\ x.st = "OK" => /\ Len(x.o.links) = Len(s.links) + 1
                           /\ x.o.links[Len(x.o.links)].attrs = NoVec
<1> SUFFICES Good(r)
  OBVIOUS
<1>1. r = IF traceId = NULL \/ spanId = NULL THEN Result(h, "NULL", s)
          ELSE IF Len(s.links) >= MaxLinks THEN Result(h, "OVERFLOW", s)
          ELSE IF g.st # "OK" THEN Result(g.h, "NOMEM", s)
          ELSE Result(g.h, "OK", d)
  BY DEF otlp_span_add_link
<1>2. ASSUME NEW x \in Heaps, x.live = h.live, NEW st \in Statuses, st # "OK"
      PROVE  Good(Result(x, st, s))
  BY <1>2, SpanUnchanged, ResultParts
<1>4. /\ h.live \in Int /\ SpanBlocks(s) \in Int /\ s.links \in Seq(Link) /\ Len(s.links) \in Nat
      /\ s \in Span
  BY HeapNumbers, SpanBlockTypes, SpanFields DEF SpanGood
<1>5. CASE traceId = NULL \/ spanId = NULL \/ Len(s.links) >= MaxLinks
  <2>1. \E st \in {"NULL", "OVERFLOW"} : r = Result(h, st, s)
    BY <1>1, <1>5
  <2> HIDE DEF Good, r
  <2> QED BY <1>2, <2>1 DEF Statuses
<1>7. CASE traceId # NULL /\ spanId # NULL /\ ~ (Len(s.links) >= MaxLinks)
  <2>1. Len(s.links) < MaxLinks
    BY <1>4, <1>7, SpanLimits
  <2>3. /\ g.h \in Heaps /\ g.st \in {"OK", "NOMEM"} /\ SpanGood(g.o)
        /\ g.h.live = h.live + SpanBlocks(g.o) - SpanBlocks(s)
        /\ g.st = "OK" => Len(g.o.links) < g.o.capLinks
        /\ g.o.links = s.links
        /\ g.st # "OK" => g.o = s
    <3>1. g.st # "OK" => g.o = s
      BY ResultParts DEF link_grow
    <3> QED BY <2>1, <3>1, LinkGrows
  <2> HIDE DEF g
  <2>4. SpanBlocks(g.o) \in Int
    BY <2>3, SpanBlockTypes DEF SpanGood
  <2>5. CASE g.st # "OK"
    <3>1. g.h.live = h.live
      BY <1>4, <2>3, <2>5
    <3>2. r = Result(g.h, "NOMEM", s)
      BY <1>1, <1>7, <2>5
    <3> HIDE DEF Good, r
    <3> QED BY <1>2, <2>3, <3>1, <3>2 DEF Statuses
  <2>6. CASE g.st = "OK"
    <3>1. e \in Link /\ e.attrs = NoVec
      BY <1>7, SpanLimits, NoVecGood DEF Link, Opt
    <3> HIDE DEF e
    <3>2. GoodVec(e.attrs, MaxLinkAttrs) /\ VecBlocks(e.attrs) = 0
      BY <3>1, SpanLimits, NoVecGood
    <3>3. Len(g.o.links) < g.o.capLinks
      BY <2>3, <2>6
    <3> HIDE DEF q
    <3>4. /\ SpanGood(d) /\ SpanBlocks(d) = SpanBlocks(g.o) /\ d.links = q
          /\ Len(q) = Len(g.o.links) + 1 /\ q[Len(q)] = e
      <4> DEFINE u == g.o
      <4>1. SpanGood(u) /\ Len(u.links) < u.capLinks
        BY <2>3, <3>3
      <4> HIDE DEF u
      <4>2. OneMoreLink(u, e)
        BY <3>1, <3>2, <4>1, SpanWithLink
      <4> QED BY <4>2 DEF OneMoreLink, q, u
    <3> HIDE DEF d
    <3>5. g.h.live = h.live + SpanBlocks(d) - SpanBlocks(s)
      BY <1>4, <2>3, <2>4, <3>4
    <3>6. r = Result(g.h, "OK", d)
      BY <1>1, <1>7, <2>6
    <3> HIDE DEF r
    <3>7. SpanChanged(h, s, r)
      BY <2>3, <3>4, <3>5, <3>6, SpanChangedResult DEF Statuses
    <3> QED BY <2>3, <3>1, <3>4, <3>6, <3>7, ResultParts
  <2> QED BY <2>5, <2>6
<1> QED BY <1>5, <1>7

\* What a span being made from nothing may look like after a step, h being the
\* heap at the start: there is none and nothing more is in use, or there is a
\* good one and what it owns is in use.
Cloned(h) ==
  {r \in [h : Heaps, st : Statuses, o : Opt(Span)] :
     \/ r.o = NULL /\ r.st # "OK" /\ r.h.live = h.live
     \/ SpanGood(r.o) /\ r.h.live = h.live + SpanBlocks(r.o)}

\* A span, or none, is a result of that kind.
LEMMA ClonedSpan ==
  ASSUME NEW h, NEW g \in Heaps, NEW x \in Statuses, NEW d, SpanGood(d),
         g.live = h.live + SpanBlocks(d)
  PROVE  Result(g, x, d) \in Cloned(h)
<1>1. d \in Opt(Span)
  BY DEF SpanGood, Opt
<1>2. Result(g, x, d) \in [h : Heaps, st : Statuses, o : Opt(Span)]
  BY <1>1 DEF Result
<1> QED BY <1>2, ResultParts DEF Cloned

\* No span and nothing in use is such a result.
LEMMA ClonedNothing ==
  ASSUME NEW h, NEW g \in Heaps, g.live = h.live, NEW x \in Statuses, x # "OK"
  PROVE  Result(g, x, NULL) \in Cloned(h)
<1>1. NULL \in Opt(Span)
  BY DEF Opt
<1>2. Result(g, x, NULL) \in [h : Heaps, st : Statuses, o : Opt(Span)]
  BY <1>1 DEF Result
<1> QED BY <1>2, ResultParts DEF Cloned

\* The parts of such a result.
LEMMA ClonedParts ==
  ASSUME NEW h, NEW r \in Cloned(h)
  PROVE  /\ r.h \in Heaps /\ r.st \in Statuses /\ IsResult(r)
         /\ \/ r.o = NULL /\ r.st # "OK" /\ r.h.live = h.live
            \/ r.o # NULL /\ SpanGood(r.o) /\ r.h.live = h.live + SpanBlocks(r.o)
<1>1. r \in [h : Heaps, st : Statuses, o : Opt(Span)]
  BY DEF Cloned
<1>2. r.h \in Heaps /\ r.st \in Statuses /\ IsResult(r)
  BY <1>1 DEF IsResult, Result
<1>3. \/ r.o = NULL /\ r.st # "OK" /\ r.h.live = h.live
      \/ SpanGood(r.o) /\ r.h.live = h.live + SpanBlocks(r.o)
  BY DEF Cloned
<1> QED BY <1>2, <1>3, SpanLimits DEF SpanGood

\* A span that has a name and owns nothing else.
Blank(s) ==
  /\ SpanGood(s) /\ s.message = NULL /\ s.traceState = NULL /\ s.attrs = NoVec

\* A new span with a name owns itself and the name.
LEMMA NoSpanBlank ==
  ASSUME NEW name \in Text
  PROVE  Blank([NoSpan EXCEPT !.name = name]) /\ SpanBlocks([NoSpan EXCEPT !.name = name]) = 2
<1> DEFINE d == [NoSpan EXCEPT !.name = name]
<1>1. NULL \in Opt(Int) /\ NULL \in Opt(Text) /\ NoVec \in Vec /\ GoodVec(NoVec, MaxAttrs)
      /\ VecBlocks(NoVec) = 0
  BY SpanLimits, NoVecGood DEF Opt, GoodVec
<1>2. <<>> \in Seq(Event) /\ <<>> \in Seq(Link)
  OBVIOUS
<1>3. 0 \in Int /\ 1 \in Int /\ 0 \in Nat /\ TRUE \in BOOLEAN /\ <<>> \in Text
  BY TextFacts
<1>4. NoSpan \in Span
  BY Zenon, <1>1, <1>2, <1>3 DEF Span, NoSpan
<1>5. /\ NoSpan.message = NULL /\ NoSpan.traceState = NULL /\ NoSpan.attrs = NoVec
      /\ NoSpan.events = <<>> /\ NoSpan.capEvents = 0 /\ NoSpan.links = <<>>
      /\ NoSpan.capLinks = 0
  BY DEF NoSpan
<1>8. d \in Span
  BY Zenon, <1>4 DEF Span
<1>9. /\ d.message = NULL /\ d.traceState = NULL /\ d.attrs = NoVec
      /\ d.events = <<>> /\ d.capEvents = 0 /\ d.links = <<>> /\ d.capLinks = 0
  BY <1>4, <1>5, SpanFields
<1> HIDE DEF d
<1>6. SpanGood(d)
  BY <1>1, <1>8, <1>9 DEF SpanGood
<1>7. SpanBlocks(d) = 2
  BY <1>1, <1>9, EventBlocksNone, LinkBlocksNone DEF SpanBlocks, Bit
<1> QED BY <1>9, <1>6, <1>7 DEF Blank, d

\* otlp_span_create makes a blank span or leaves nothing behind.
LEMMA SpanCreates ==
  ASSUME NEW h \in Heaps, NEW name \in Opt(Text)
  PROVE  LET r == otlp_span_create(h, name) IN
         /\ r \in Cloned(h)
         /\ IF r.st = "OK" THEN Blank(r.o) ELSE r.o = NULL
<1> DEFINE r == otlp_span_create(h, name)
<1> DEFINE g == otlp_malloc(h)
<1> DEFINE n == otlp_dup_str(g, OrEmpty(name))
<1> DEFINE f == otlp_free(g, 1)
<1> DEFINE k == otlp_free(n.h, 1)
<1> DEFINE d == [NoSpan EXCEPT !.name = n.o]
<1> DEFINE Good(x) == x \in Cloned(h) /\ IF x.st = "OK" THEN Blank(x.o) ELSE x.o = NULL
<1> SUFFICES Good(r)
  OBVIOUS
<1>1. r = IF ~ CanAlloc(h) THEN Result(g, "NULL", NULL)
          ELSE IF ~ otlp_str_is_utf8(name) THEN Result(f, "NULL", NULL)
          ELSE IF n.st # "OK" THEN Result(k, "NULL", NULL)
          ELSE Result(n.h, "OK", d)
  BY DEF otlp_span_create
<1>2. ASSUME NEW x \in Heaps, x.live = h.live PROVE Good(Result(x, "NULL", NULL))
  BY <1>2, ClonedNothing, ResultParts DEF Statuses
<1>3. g \in Heaps /\ g.live = h.live + Bit(CanAlloc(h)) /\ h.live \in Int /\ 1 \in Int
  BY MallocUses, HeapNumbers
<1> HIDE DEF g
<1>4. /\ n.h \in Heaps /\ n.h.live = g.live + Bit(n.o # NULL)
      /\ n.st = "OK" => n.o = OrEmpty(name)
      /\ n.st # "OK" => n.o = NULL
  BY <1>3, DupStrUses DEF Uses
<1> HIDE DEF n
<1>5. f \in Heaps /\ f.live = g.live - 1 /\ k \in Heaps /\ k.live = n.h.live - 1
  BY <1>3, <1>4, FreeUses
<1> HIDE DEF f, k, r
<1>6. CASE ~ CanAlloc(h)
  <2>1. g.live = h.live
    BY <1>3, <1>6 DEF Bit
  <2> HIDE DEF Good
  <2> QED BY <1>1, <1>2, <1>3, <1>6, <2>1
<1>7. CASE CanAlloc(h) /\ ~ otlp_str_is_utf8(name)
  <2>1. f.live = h.live
    BY <1>3, <1>5, <1>7 DEF Bit
  <2> HIDE DEF Good
  <2> QED BY <1>1, <1>2, <1>5, <1>7, <2>1
<1>8. CASE CanAlloc(h) /\ otlp_str_is_utf8(name) /\ n.st # "OK"
  <2>1. k.live = h.live
    BY <1>3, <1>4, <1>5, <1>8 DEF Bit
  <2> HIDE DEF Good
  <2> QED BY <1>1, <1>2, <1>5, <1>8, <2>1
<1>9. CASE CanAlloc(h) /\ otlp_str_is_utf8(name) /\ n.st = "OK"
  <2>1. n.o \in Text /\ n.o # NULL
    BY <1>4, <1>9, TextFacts
  <2>2. Blank(d) /\ SpanBlocks(d) = 2
    BY <2>1, NoSpanBlank
  <2> HIDE DEF d
  <2>3. n.h.live = h.live + SpanBlocks(d)
    BY <1>3, <1>4, <1>9, <2>1, <2>2 DEF Bit
  <2>4. r = Result(n.h, "OK", d)
    BY <1>1, <1>9
  <2>5. r \in Cloned(h)
    BY <1>4, <2>2, <2>3, <2>4, ClonedSpan DEF Blank, Statuses
  <2> QED BY <2>2, <2>4, <2>5, ResultParts
<1> QED BY <1>6, <1>7, <1>8, <1>9

\* The head of a clone.
LEMMA CloneHeadMakes ==
  ASSUME NEW h \in Heaps, NEW src \in Span
  PROVE  LET r == CloneHead(h, src) IN
         /\ r \in Cloned(h)
         /\ r.st = "OK" => Blank(r.o)
<1> DEFINE r == CloneHead(h, src)
<1> DEFINE new == otlp_span_create(h, src.name)
<1> DEFINE d == [new.o EXCEPT !.traceId = src.traceId, !.spanId = src.spanId,
                      !.parent = src.parent, !.start = src.start, !.end = src.end,
                      !.kind = src.kind, !.code = src.code, !.sampled = src.sampled]
<1>1. r = IF new.st # "OK" THEN new ELSE Result(new.h, "OK", d)
  BY DEF CloneHead
<1>2. src.name \in Opt(Text) /\ src \in Span
  BY SpanFields, TextFacts
<1>3. new \in Cloned(h) /\ (IF new.st = "OK" THEN Blank(new.o) ELSE new.o = NULL)
  BY <1>2, SpanCreates
<1> HIDE DEF new
<1>4. CASE new.st # "OK"
  BY <1>1, <1>3, <1>4
<1>5. CASE new.st = "OK"
  <2>1. Blank(new.o) /\ new.h \in Heaps /\ new.h.live = h.live + SpanBlocks(new.o)
    BY <1>3, <1>5, ClonedParts
  <2> DEFINE u == new.o
  <2>2. u \in Span /\ SpanGood(u) /\ Blank(u)
    BY <2>1 DEF Blank, SpanGood
  <2> HIDE DEF u
  <2> DEFINE w == [u EXCEPT !.traceId = src.traceId, !.spanId = src.spanId,
                      !.parent = src.parent, !.start = src.start, !.end = src.end,
                      !.kind = src.kind, !.code = src.code, !.sampled = src.sampled]
  <2>3. /\ src.traceId \in Int /\ src.spanId \in Int /\ src.parent \in Opt(Int)
        /\ src.start \in Opt(Int) /\ src.end \in Opt(Int) /\ src.kind \in Int
        /\ src.code \in Int /\ src.sampled \in BOOLEAN
    BY <1>2 DEF Span
  <2>4. w \in Span
    BY Zenon, <2>2, <2>3 DEF Span
  <2>5. SameParts(u, w) /\ w.message = u.message /\ w.traceState = u.traceState
    BY <2>2, SpanFields DEF SameParts
  <2> HIDE DEF w
  <2>6. SpanGood(w) /\ SpanBlocks(w) = SpanBlocks(u)
        + (Bit(u.message # NULL) - Bit(u.message # NULL))
        + (Bit(u.traceState # NULL) - Bit(u.traceState # NULL))
    BY <2>2, <2>4, <2>5, SamePartsGood
  <2>7. SpanBlocks(w) = SpanBlocks(u)
    <3>1. /\ SpanBlocks(u) \in Int /\ Bit(u.message # NULL) \in Int
          /\ Bit(u.traceState # NULL) \in Int
      BY <2>2, SpanBlockTypes
    <3> QED BY <2>6, <3>1
  <2>8. Blank(w)
    BY <2>2, <2>5, <2>6 DEF Blank, SameParts
  <2>9. Result(new.h, "OK", w) \in Cloned(h)
    BY <2>1, <2>6, <2>7, ClonedSpan DEF Statuses, u
  <2>10. r = Result(new.h, "OK", w)
    BY <1>1, <1>5 DEF w, u
  <2> HIDE DEF r
  <2>11. r \in Cloned(h) /\ Blank(r.o)
    BY <2>8, <2>9, <2>10, ResultParts
  <2> QED BY <2>11 DEF r
<1> QED BY <1>4, <1>5

\* The two strings of a clone, which had none before.
LEMMA CloneTextsMakes ==
  ASSUME NEW h \in Heaps, NEW r \in Cloned(h), r.st = "OK" => Blank(r.o), NEW src \in Span
  PROVE  LET c == CloneTexts(r, src) IN
         /\ c \in Cloned(h)
         /\ c.st = "OK" => SpanGood(c.o) /\ c.o.attrs = NoVec
<1> DEFINE c == CloneTexts(r, src)
<1> DEFINE m == otlp_dup_str(r.h, src.message)
<1> DEFINE t == otlp_dup_str(m.h, src.traceState)
<1> DEFINE d == [r.o EXCEPT !.message = m.o, !.traceState = t.o]
<1>1. c = IF r.st # "OK" THEN r
          ELSE IF m.st # "OK" THEN Result(m.h, "NOMEM", r.o)
          ELSE Result(t.h, t.st, d)
  BY DEF CloneTexts
<1>2. r.h \in Heaps /\ src.message \in Opt(Text) /\ src.traceState \in Opt(Text)
  BY ClonedParts, SpanFields
<1>3. /\ m.h \in Heaps /\ m.h.live = r.h.live + Bit(m.o # NULL)
      /\ m.st = "OK" => m.o = src.message
      /\ m.st # "OK" => m.o = NULL
  BY <1>2, DupStrUses DEF Uses
<1> HIDE DEF m
<1>4. /\ t.h \in Heaps /\ t.h.live = m.h.live + Bit(t.o # NULL) /\ t.st \in Statuses
      /\ t.st = "OK" => t.o = src.traceState
      /\ t.st # "OK" => t.o = NULL
  BY <1>3, DupStrUses DEF Uses
<1> HIDE DEF t
<1>5. CASE r.st # "OK"
  BY <1>1, <1>5
<1>6. CASE r.st = "OK"
  <2>1. /\ Blank(r.o) /\ SpanGood(r.o) /\ r.h.live = h.live + SpanBlocks(r.o)
        /\ r.o.attrs = NoVec
    BY <1>6, ClonedParts DEF Blank
  <2>2. SpanBlocks(r.o) \in Int /\ h.live \in Int
    BY <2>1, SpanBlockTypes, HeapNumbers DEF SpanGood
  <2>3. CASE m.st # "OK"
    <3>1. m.h.live = h.live + SpanBlocks(r.o)
      BY <1>3, <2>1, <2>2, <2>3 DEF Bit
    <3>2. c = Result(m.h, "NOMEM", r.o)
      BY <1>1, <1>6, <2>3
    <3> HIDE DEF c
    <3>3. c \in Cloned(h) /\ c.st # "OK"
      BY <1>3, <2>1, <3>1, <3>2, ClonedSpan, ResultParts DEF Statuses
    <3> QED BY <3>3 DEF c
  <2>4. CASE m.st = "OK"
    <3> DEFINE u == r.o
    <3> DEFINE w == [u EXCEPT !.message = m.o, !.traceState = t.o]
    <3>1. u \in Span /\ SpanGood(u) /\ u.message = NULL /\ u.traceState = NULL /\ u.attrs = NoVec
      BY <2>1 DEF Blank, SpanGood
    <3> HIDE DEF u
    <3>2. m.o \in Opt(Text) /\ t.o \in Opt(Text)
      BY <1>2, <1>3, <1>4 DEF Opt
    <3>3. w \in Span
      BY Zenon, <3>1, <3>2 DEF Span
    <3>4. SameParts(u, w) /\ w.message = m.o /\ w.traceState = t.o
      BY <3>1, SpanFields DEF SameParts
    <3> HIDE DEF w
    <3>5. /\ SpanGood(w) /\ SpanBlocks(w) = SpanBlocks(u)
             + (Bit(m.o # NULL) - Bit(u.message # NULL))
             + (Bit(t.o # NULL) - Bit(u.traceState # NULL))
      BY <3>1, <3>3, <3>4, SamePartsGood
    <3>6. Bit(u.message # NULL) = 0 /\ Bit(u.traceState # NULL) = 0
      BY <3>1 DEF Bit
    <3>7. Bit(m.o # NULL) \in Int /\ Bit(t.o # NULL) \in Int
      BY BitType
    <3>8. t.h.live = h.live + SpanBlocks(w)
      <4>1. SpanBlocks(u) \in Int /\ r.h.live = h.live + SpanBlocks(u)
        BY <2>1, <2>2 DEF u
      <4> QED BY <1>3, <1>4, <2>2, <3>5, <3>6, <3>7, <4>1
    <3>9. c = Result(t.h, t.st, w)
      BY <1>1, <1>6, <2>4 DEF w, u
    <3> HIDE DEF c
    <3>10. c \in Cloned(h)
      BY <1>4, <3>5, <3>8, <3>9, ClonedSpan
    <3>11. c.o = w /\ w.attrs = NoVec
      BY <3>1, <3>4, <3>9, ResultParts DEF SameParts
    <3> QED BY <3>5, <3>10, <3>11 DEF c
  <2> QED BY <2>3, <2>4
<1> QED BY <1>5, <1>6

\* The attributes of a clone.
LEMMA CloneAttrsMakes ==
  ASSUME NEW h \in Heaps, NEW r \in Cloned(h), NEW src, SpanGood(src),
         r.st = "OK" => SpanGood(r.o) /\ r.o.attrs = NoVec
  PROVE  CloneAttrs(r, src) \in Cloned(h)
<1> DEFINE c == CloneAttrs(r, src)
<1> DEFINE v == otlp_attr_vec_copy(r.h, src.attrs)
<1> DEFINE u == r.o
<1> DEFINE d == [u EXCEPT !.attrs = v.o]
<1>1. c = IF r.st # "OK" THEN r ELSE Result(v.h, v.st, d)
  BY DEF CloneAttrs
<1>2. r.h \in Heaps /\ GoodVec(src.attrs, MaxAttrs)
  BY ClonedParts DEF SpanGood
<1>3. v.h \in Heaps /\ v.st \in Statuses /\ GoodVec(v.o, MaxAttrs)
      /\ v.h.live = r.h.live + VecBlocks(v.o)
  BY <1>2, SpanLimits, VecCopies
<1> HIDE DEF v, c
<1>4. CASE r.st # "OK"
  <2>1. c \in Cloned(h)
    BY <1>1, <1>4
  <2> QED BY <2>1 DEF c
<1>5. CASE r.st = "OK"
  <2>1. SpanGood(u) /\ u.attrs = NoVec /\ r.h.live = h.live + SpanBlocks(u)
    BY <1>5, ClonedParts
  <2> HIDE DEF u
  <2>2. SpanGood(d) /\ SpanBlocks(d) = SpanBlocks(u) + VecBlocks(v.o) - VecBlocks(u.attrs)
    BY <1>3, <2>1, SpanWithAttrs
  <2> HIDE DEF d
  <2>3. v.h.live = h.live + SpanBlocks(d)
    <3>1. VecBlocks(u.attrs) = 0
      BY <2>1, SpanLimits, NoVecGood
    <3>2. SpanBlocks(u) \in Int /\ h.live \in Int
      BY <2>1, SpanBlockTypes, HeapNumbers DEF SpanGood
    <3>3. VecBlocks(v.o) \in Int
      BY <1>3, VecBlocksType DEF GoodVec
    <3> QED BY <1>3, <2>1, <2>2, <3>1, <3>2, <3>3
  <2>4. c \in Cloned(h)
    BY <1>1, <1>3, <1>5, <2>2, <2>3, ClonedSpan
  <2> QED BY <2>4 DEF c
<1> QED BY <1>4, <1>5

\* One event more, with its attributes.
LEMMA CloneEventMakes ==
  ASSUME NEW h \in Heaps, NEW q \in Cloned(h), NEW e \in Event, GoodVec(e.attrs, MaxEventAttrs)
  PROVE  CloneEvent(q, e) \in Cloned(h)
<1> DEFINE c == CloneEvent(q, e)
<1> DEFINE u == q.o
<1> DEFINE a == otlp_span_add_event(q.h, u, e.name, e.time)
<1> DEFINE v == otlp_attr_vec_copy(a.h, e.attrs)
<1> DEFINE b == a.o
<1> DEFINE k == Len(b.events)
<1> DEFINE d == [b EXCEPT !.events[k].attrs = v.o]
<1>1. c = IF q.st # "OK" THEN q
          ELSE IF a.st # "OK" THEN a
          ELSE Result(v.h, v.st, d)
  BY DEF CloneEvent
<1>2. CASE q.st # "OK"
  BY <1>1, <1>2
<1>3. CASE q.st = "OK"
  <2>1. SpanGood(u) /\ q.h \in Heaps /\ q.h.live = h.live + SpanBlocks(u)
    BY <1>3, ClonedParts
  <2>2. e.name \in Opt(Text) /\ e.time \in Opt(Int)
    BY TextFacts DEF Event
  <2> HIDE DEF u, c
  <2>3. /\ SpanChanged(q.h, u, a) /\ IsResult(a)
        /\ a.st = "OK" => Len(b.events) = Len(u.events) + 1 /\ b.events[k].attrs = NoVec
    BY <2>1, <2>2, SpanAddEventChanges
  <2> HIDE DEF a
  <2>4. /\ a.h \in Heaps /\ a.st \in Statuses /\ SpanGood(b)
        /\ a.h.live = q.h.live + SpanBlocks(b) - SpanBlocks(u)
        /\ a = Result(a.h, a.st, b)
    BY <2>3 DEF SpanChanged, IsResult
  <2>5. /\ h.live \in Int /\ SpanBlocks(u) \in Int /\ SpanBlocks(b) \in Int
        /\ u.events \in Seq(Event) /\ b.events \in Seq(Event)
    BY <2>1, <2>4, HeapNumbers, SpanBlockTypes, SpanFields DEF SpanGood
  <2>6. a.h.live = h.live + SpanBlocks(b)
    BY <2>1, <2>4, <2>5
  <2> HIDE DEF b
  <2>7. CASE a.st # "OK"
    <3>1. a \in Cloned(h)
      BY <2>4, <2>6, ClonedSpan
    <3>2. c \in Cloned(h)
      BY <1>1, <1>3, <2>7, <3>1
    <3> QED BY <3>2 DEF c
  <2>8. CASE a.st = "OK"
    <3>1. /\ v.h \in Heaps /\ v.st \in Statuses /\ GoodVec(v.o, MaxEventAttrs)
          /\ v.h.live = a.h.live + VecBlocks(v.o)
      BY <2>4, SpanLimits, VecCopies
    <3> HIDE DEF v
    <3>2. k \in 1..Len(b.events) /\ b.events[k].attrs = NoVec
      BY <2>3, <2>5, <2>8
    <3> HIDE DEF k
    <3>3. SpanGood(d) /\ SpanBlocks(d) = SpanBlocks(b) + VecBlocks(v.o) - VecBlocks(b.events[k].attrs)
      BY <2>4, <3>1, <3>2, SpanWithEventAttrs
    <3> HIDE DEF d
    <3>4. v.h.live = h.live + SpanBlocks(d)
      <4>1. VecBlocks(v.o) \in Int /\ VecBlocks(b.events[k].attrs) = 0
        BY <3>1, <3>2, VecBlocksType, SpanLimits, NoVecGood DEF GoodVec
      <4> QED BY <2>5, <2>6, <3>1, <3>3, <4>1
    <3>5. c \in Cloned(h)
      BY <1>1, <1>3, <2>8, <3>1, <3>3, <3>4, ClonedSpan
    <3> QED BY <3>5 DEF c
  <2> QED BY <2>7, <2>8
<1> QED BY <1>2, <1>3

\* One link more, with its attributes.
LEMMA CloneLinkMakes ==
  ASSUME NEW h \in Heaps, NEW q \in Cloned(h), NEW e \in Link, GoodVec(e.attrs, MaxLinkAttrs)
  PROVE  CloneLink(q, e) \in Cloned(h)
<1> DEFINE c == CloneLink(q, e)
<1> DEFINE u == q.o
<1> DEFINE a == otlp_span_add_link(q.h, u, e.traceId, e.spanId)
<1> DEFINE v == otlp_attr_vec_copy(a.h, e.attrs)
<1> DEFINE b == a.o
<1> DEFINE k == Len(b.links)
<1> DEFINE d == [b EXCEPT !.links[k].attrs = v.o]
<1>1. c = IF q.st # "OK" THEN q
          ELSE IF a.st # "OK" THEN a
          ELSE Result(v.h, v.st, d)
  BY DEF CloneLink
<1>2. CASE q.st # "OK"
  BY <1>1, <1>2
<1>3. CASE q.st = "OK"
  <2>1. SpanGood(u) /\ q.h \in Heaps /\ q.h.live = h.live + SpanBlocks(u)
    BY <1>3, ClonedParts
  <2>2. e.traceId \in Opt(Int) /\ e.spanId \in Opt(Int)
    BY DEF Link, Opt
  <2> HIDE DEF u, c
  <2>3. /\ SpanChanged(q.h, u, a) /\ IsResult(a)
        /\ a.st = "OK" => Len(b.links) = Len(u.links) + 1 /\ b.links[k].attrs = NoVec
    BY <2>1, <2>2, SpanAddLinkChanges
  <2> HIDE DEF a
  <2>4. /\ a.h \in Heaps /\ a.st \in Statuses /\ SpanGood(b)
        /\ a.h.live = q.h.live + SpanBlocks(b) - SpanBlocks(u)
        /\ a = Result(a.h, a.st, b)
    BY <2>3 DEF SpanChanged, IsResult
  <2>5. /\ h.live \in Int /\ SpanBlocks(u) \in Int /\ SpanBlocks(b) \in Int
        /\ u.links \in Seq(Link) /\ b.links \in Seq(Link)
    BY <2>1, <2>4, HeapNumbers, SpanBlockTypes, SpanFields DEF SpanGood
  <2>6. a.h.live = h.live + SpanBlocks(b)
    BY <2>1, <2>4, <2>5
  <2> HIDE DEF b
  <2>7. CASE a.st # "OK"
    <3>1. a \in Cloned(h)
      BY <2>4, <2>6, ClonedSpan
    <3>2. c \in Cloned(h)
      BY <1>1, <1>3, <2>7, <3>1
    <3> QED BY <3>2 DEF c
  <2>8. CASE a.st = "OK"
    <3>1. /\ v.h \in Heaps /\ v.st \in Statuses /\ GoodVec(v.o, MaxLinkAttrs)
          /\ v.h.live = a.h.live + VecBlocks(v.o)
      BY <2>4, SpanLimits, VecCopies
    <3> HIDE DEF v
    <3>2. k \in 1..Len(b.links) /\ b.links[k].attrs = NoVec
      BY <2>3, <2>5, <2>8
    <3> HIDE DEF k
    <3>3. SpanGood(d) /\ SpanBlocks(d) = SpanBlocks(b) + VecBlocks(v.o) - VecBlocks(b.links[k].attrs)
      BY <2>4, <3>1, <3>2, SpanWithLinkAttrs
    <3> HIDE DEF d
    <3>4. v.h.live = h.live + SpanBlocks(d)
      <4>1. VecBlocks(v.o) \in Int /\ VecBlocks(b.links[k].attrs) = 0
        BY <3>1, <3>2, VecBlocksType, SpanLimits, NoVecGood DEF GoodVec
      <4> QED BY <2>5, <2>6, <3>1, <3>3, <4>1
    <3>5. c \in Cloned(h)
      BY <1>1, <1>3, <2>8, <3>1, <3>3, <3>4, ClonedSpan
    <3> QED BY <3>5 DEF c
  <2> QED BY <2>7, <2>8
<1> QED BY <1>2, <1>3

\* A recursive function whose steps stay in a set stays in it: R is what the
\* steps make of a start.
LEMMA StaysIn ==
  ASSUME NEW V, NEW r \in V, NEW n \in Nat, NEW f \in [(1..n) \X V -> V]
  PROVE  \E g \in [0..n -> V] : g[0] = r /\ \A i \in 1..n : g[i] = f[<<i, g[i - 1]>>]
<1> DEFINE d == [p \in Nat \X V |-> IF p[1] + 1 \in 1..n THEN f[<<p[1] + 1, p[2]>>] ELSE p[2]]
<1>1. d \in Steps(V)
  <2>1. \A p \in Nat \X V : p[1] \in Nat /\ p[2] \in V
    OBVIOUS
  <2>2. \A p \in Nat \X V : d[p] \in V
    BY <2>1
  <2> QED BY <2>2 DEF Steps
<1>2. PICK g : FollowsUpTo(g, V, r, d, n)
  <2> HIDE DEF d
  <2> QED BY <1>1, RecursionUpTo
<1>3. g \in [0..n -> V] /\ g[0] = r /\ \A i \in 0..(n - 1) : g[i + 1] = d[<<i, g[i]>>]
  <2> HIDE DEF d
  <2> QED BY <1>2 DEF FollowsUpTo
<1>4. ASSUME NEW i \in 1..n PROVE g[i] = f[<<i, g[i - 1]>>]
  <2>1. i - 1 \in 0..(n - 1) /\ i - 1 \in Nat /\ g[i - 1] \in V /\ (i - 1) + 1 = i
    BY <1>3
  <2>2. g[i] = d[<<i - 1, g[i - 1]>>]
    <3> HIDE DEF d
    <3> QED BY <1>3, <2>1
  <2>3. d[<<i - 1, g[i - 1]>>] = f[<<i, g[i - 1]>>]
    BY <2>1
  <2> QED BY <2>2, <2>3
<1> QED BY <1>3, <1>4

\* The events of a clone.
LEMMA CloneEventsMakes ==
  ASSUME NEW h \in Heaps, NEW r \in Cloned(h), NEW src, SpanGood(src)
  PROVE  CloneEvents(r, src) \in Cloned(h)
<1> DEFINE n == Len(src.events)
<1> DEFINE V == Cloned(h)
<1> DEFINE F(u) == [i \in 0..n |-> IF i = 0 THEN r ELSE CloneEvent(u[i - 1], src.events[i])]
<1> DEFINE t == CHOOSE u : u = F(u)
<1>1. CloneEvents(r, src) = t[n]
  BY DEF CloneEvents
<1>2. n \in Nat /\ \A i \in 1..n : src.events[i] \in Event /\ GoodVec(src.events[i].attrs, MaxEventAttrs)
  <2>1. src.events \in Seq(Event)
    BY SpanFields DEF SpanGood
  <2> QED BY <2>1 DEF SpanGood
<1> DEFINE f == [p \in (1..n) \X V |-> CloneEvent(p[2], src.events[p[1]])]
<1>3. \A i \in 1..n, x \in V : CloneEvent(x, src.events[i]) \in V
  BY <1>2, CloneEventMakes
<1> HIDE DEF V
<1>4. f \in [(1..n) \X V -> V]
  <2>1. \A p \in (1..n) \X V : p[1] \in 1..n /\ p[2] \in V
    OBVIOUS
  <2> HIDE DEF n
  <2> QED BY <1>3, <2>1
<1>5. PICK g \in [0..n -> V] : g[0] = r /\ \A i \in 1..n : g[i] = f[<<i, g[i - 1]>>]
  <2>1. r \in V
    BY DEF V
  <2> HIDE DEF f, n
  <2> QED BY <1>2, <1>4, <2>1, StaysIn
<1>6. \A i \in 1..n : g[i] = CloneEvent(g[i - 1], src.events[i])
  <2>1. ASSUME NEW i \in 1..n PROVE g[i] = CloneEvent(g[i - 1], src.events[i])
    <3>1. i - 1 \in 0..n
      BY <1>2
    <3>2. g[i - 1] \in V
      BY <1>5, <3>1
    <3>3. f[<<i, g[i - 1]>>] = CloneEvent(g[i - 1], src.events[i])
      BY <3>2
    <3> HIDE DEF f
    <3> QED BY <1>5, <3>3
  <2> QED BY <2>1
<1>7. g = F(g)
  <2>1. ASSUME NEW i \in 0..n PROVE g[i] = F(g)[i]
    <3>1. CASE i = 0
      BY <1>5, <3>1
    <3>2. CASE i # 0
      <4>1. i \in 1..n
        BY <1>2, <3>2
      <4> QED BY <1>6, <3>2, <4>1
    <3> QED BY <3>1, <3>2
  <2>2. g = [i \in 0..n |-> g[i]]
    BY <1>5
  <2> QED BY <2>1, <2>2
<1>8. t = F(t)
  <2> HIDE DEF F
  <2> QED BY <1>7
<1>9. \A i \in 0..n : t[i] = IF i = 0 THEN r ELSE CloneEvent(t[i - 1], src.events[i])
  <2> HIDE DEF t
  <2> QED BY <1>8
<1> HIDE DEF t
<1> DEFINE P(i) == i \in 0..n => t[i] \in V
<1>10. P(0)
  BY <1>2, <1>9 DEF V
<1>11. ASSUME NEW i \in Nat, P(i) PROVE P(i + 1)
  <2>1. SUFFICES ASSUME i + 1 \in 0..n PROVE t[i + 1] \in V
    OBVIOUS
  <2>2. i \in 0..n /\ i + 1 \in 1..n /\ i + 1 # 0 /\ (i + 1) - 1 = i
    BY <1>2, <2>1
  <2>3. t[i + 1] = CloneEvent(t[i], src.events[i + 1])
    BY <1>9, <2>2
  <2> QED BY <1>3, <1>11, <2>2, <2>3
<1>12. \A i \in Nat : P(i)
  <2> DEFINE S == {i \in Nat : P(i)}
  <2> HIDE DEF P
  <2>1. 0 \in S /\ \A i \in Nat : i \in S => i + 1 \in S
    BY <1>10, <1>11
  <2>2. Nat \subseteq S
    <3> HIDE DEF S
    <3> QED BY <2>1, SetInduction
  <2> QED BY <2>2
<1>13. t[n] \in V
  BY <1>2, <1>12
<1> QED BY <1>1, <1>13 DEF V

\* The links of a clone.
LEMMA CloneLinksMakes ==
  ASSUME NEW h \in Heaps, NEW r \in Cloned(h), NEW src, SpanGood(src)
  PROVE  CloneLinks(r, src) \in Cloned(h)
<1> DEFINE n == Len(src.links)
<1> DEFINE V == Cloned(h)
<1> DEFINE F(u) == [i \in 0..n |-> IF i = 0 THEN r ELSE CloneLink(u[i - 1], src.links[i])]
<1> DEFINE t == CHOOSE u : u = F(u)
<1>1. CloneLinks(r, src) = t[n]
  BY DEF CloneLinks
<1>2. n \in Nat /\ \A i \in 1..n : src.links[i] \in Link /\ GoodVec(src.links[i].attrs, MaxLinkAttrs)
  <2>1. src.links \in Seq(Link)
    BY SpanFields DEF SpanGood
  <2> QED BY <2>1 DEF SpanGood
<1> DEFINE f == [p \in (1..n) \X V |-> CloneLink(p[2], src.links[p[1]])]
<1>3. \A i \in 1..n, x \in V : CloneLink(x, src.links[i]) \in V
  BY <1>2, CloneLinkMakes
<1> HIDE DEF V
<1>4. f \in [(1..n) \X V -> V]
  <2>1. \A p \in (1..n) \X V : p[1] \in 1..n /\ p[2] \in V
    OBVIOUS
  <2> HIDE DEF n
  <2> QED BY <1>3, <2>1
<1>5. PICK g \in [0..n -> V] : g[0] = r /\ \A i \in 1..n : g[i] = f[<<i, g[i - 1]>>]
  <2>1. r \in V
    BY DEF V
  <2> HIDE DEF f, n
  <2> QED BY <1>2, <1>4, <2>1, StaysIn
<1>6. \A i \in 1..n : g[i] = CloneLink(g[i - 1], src.links[i])
  <2>1. ASSUME NEW i \in 1..n PROVE g[i] = CloneLink(g[i - 1], src.links[i])
    <3>1. i - 1 \in 0..n
      BY <1>2
    <3>2. g[i - 1] \in V
      BY <1>5, <3>1
    <3>3. f[<<i, g[i - 1]>>] = CloneLink(g[i - 1], src.links[i])
      BY <3>2
    <3> HIDE DEF f
    <3> QED BY <1>5, <3>3
  <2> QED BY <2>1
<1>7. g = F(g)
  <2>1. ASSUME NEW i \in 0..n PROVE g[i] = F(g)[i]
    <3>1. CASE i = 0
      BY <1>5, <3>1
    <3>2. CASE i # 0
      <4>1. i \in 1..n
        BY <1>2, <3>2
      <4> QED BY <1>6, <3>2, <4>1
    <3> QED BY <3>1, <3>2
  <2>2. g = [i \in 0..n |-> g[i]]
    BY <1>5
  <2> QED BY <2>1, <2>2
<1>8. t = F(t)
  <2> HIDE DEF F
  <2> QED BY <1>7
<1>9. \A i \in 0..n : t[i] = IF i = 0 THEN r ELSE CloneLink(t[i - 1], src.links[i])
  <2> HIDE DEF t
  <2> QED BY <1>8
<1> HIDE DEF t
<1> DEFINE P(i) == i \in 0..n => t[i] \in V
<1>10. P(0)
  BY <1>2, <1>9 DEF V
<1>11. ASSUME NEW i \in Nat, P(i) PROVE P(i + 1)
  <2>1. SUFFICES ASSUME i + 1 \in 0..n PROVE t[i + 1] \in V
    OBVIOUS
  <2>2. i \in 0..n /\ i + 1 \in 1..n /\ i + 1 # 0 /\ (i + 1) - 1 = i
    BY <1>2, <2>1
  <2>3. t[i + 1] = CloneLink(t[i], src.links[i + 1])
    BY <1>9, <2>2
  <2> QED BY <1>3, <1>11, <2>2, <2>3
<1>12. \A i \in Nat : P(i)
  <2> DEFINE S == {i \in Nat : P(i)}
  <2> HIDE DEF P
  <2>1. 0 \in S /\ \A i \in Nat : i \in S => i + 1 \in S
    BY <1>10, <1>11
  <2>2. Nat \subseteq S
    <3> HIDE DEF S
    <3> QED BY <2>1, SetInduction
  <2> QED BY <2>2
<1>13. t[n] \in V
  BY <1>2, <1>12
<1> QED BY <1>1, <1>13 DEF V

\* A clone is a good span, or there is none and nothing more is in use.
LEMMA SpanClones ==
  ASSUME NEW h \in Heaps, NEW src, SpanGood(src)
  PROVE  otlp_span_clone(h, src) \in Cloned(h)
<1> DEFINE a == CloneHead(h, src)
<1> DEFINE b == CloneTexts(a, src)
<1> DEFINE c == CloneAttrs(b, src)
<1> DEFINE d == CloneEvents(c, src)
<1> DEFINE r == CloneLinks(d, src)
<1> DEFINE f == otlp_span_free(r.h, r.o)
<1> DEFINE q == otlp_span_clone(h, src)
<1>1. q = IF r.st = "OK" THEN r
          ELSE Result(IF r.o = NULL THEN r.h ELSE f, "NULL", NULL)
  BY DEF otlp_span_clone
<1>2. src \in Span
  BY DEF SpanGood
<1>3. a \in Cloned(h) /\ (a.st = "OK" => Blank(a.o))
  BY <1>2, CloneHeadMakes
<1> HIDE DEF a
<1>4. b \in Cloned(h) /\ (b.st = "OK" => SpanGood(b.o) /\ b.o.attrs = NoVec)
  BY <1>2, <1>3, CloneTextsMakes
<1> HIDE DEF b
<1>5. c \in Cloned(h)
  BY <1>4, CloneAttrsMakes
<1> HIDE DEF c
<1>6. d \in Cloned(h)
  BY <1>5, CloneEventsMakes
<1> HIDE DEF d
<1>7. r \in Cloned(h)
  BY <1>6, CloneLinksMakes
<1> HIDE DEF r, q
<1>8. CASE r.st = "OK"
  <2>1. q \in Cloned(h)
    BY <1>1, <1>7, <1>8
  <2> QED BY <2>1 DEF q
<1>9. CASE r.st # "OK" /\ r.o = NULL
  <2>1. r.h \in Heaps /\ r.h.live = h.live /\ q = Result(r.h, "NULL", NULL)
    <3>1. ~ SpanGood(NULL)
      BY SpanLimits DEF SpanGood
    <3> QED BY <1>1, <1>7, <1>9, <3>1, ClonedParts
  <2>2. q \in Cloned(h)
    BY <2>1, ClonedNothing DEF Statuses
  <2> QED BY <2>2 DEF q
<1>10. CASE r.st # "OK" /\ r.o # NULL
  <2>1. r.h \in Heaps /\ SpanGood(r.o) /\ r.h.live = h.live + SpanBlocks(r.o) /\ q = Result(f, "NULL", NULL)
    BY <1>1, <1>7, <1>10, ClonedParts
  <2>2. r.o \in Span /\ h.live \in Int /\ SpanBlocks(r.o) \in Int
    BY <2>1, HeapNumbers, SpanBlockTypes DEF SpanGood
  <2>3. f \in Heaps /\ f.live = r.h.live - SpanBlocks(r.o)
    BY <2>1, <2>2, SpanFrees
  <2> HIDE DEF f
  <2>4. f.live = h.live
    BY <2>1, <2>2, <2>3
  <2>5. q \in Cloned(h)
    BY <2>1, <2>3, <2>4, ClonedNothing DEF Statuses
  <2> QED BY <2>5 DEF q
<1> QED BY <1>8, <1>9, <1>10

---------------------------------------------------------------------------
(* Metrics *)

\* A metric whose vector is good, whose exemplars have room, and that has
\* buckets if it has bounds; and what a metric owns, part by part.
MetricGood(m) ==
  /\ m \in Metric /\ GoodVec(m.attrs, MaxMetricAttrs)
  /\ Len(m.exemplars) <= m.capExemplars
  /\ m.bounds # NULL => m.buckets # NULL

NameBlocks(m) == Bit(m.name # NULL) + Bit(m.unit # NULL) + Bit(m.description # NULL)
BoundBlocks(m) == Bit(m.bounds # NULL) + Bit(m.buckets # NULL)
SideBlocks(m) == Bit(m.pos.counts # NULL) + Bit(m.neg.counts # NULL)

MetricBlocks(m) ==
  1 + NameBlocks(m) + BoundBlocks(m) + SideBlocks(m)
    + VecBlocks(m.attrs) + Bit(m.capExemplars > 0)

\* The limit is a natural number, and a metric is no null pointer.
LEMMA MetricLimits == MaxMetricAttrs \in Nat /\ \A m \in Metric : m # NULL
BY MetricAssumption

\* The parts of a metric.
LEMMA MetricFields ==
  ASSUME NEW m \in Metric
  PROVE  /\ m.name \in Opt(Text) /\ m.unit \in Opt(Text) /\ m.description \in Opt(Text)
         /\ m.bounds \in Opt(Text) /\ m.buckets \in Opt(Text)
         /\ m.pos \in Buckets /\ m.neg \in Buckets /\ m.attrs \in Vec
         /\ m.exemplars \in Seq(Exemplar) /\ m.capExemplars \in Nat
         /\ m.value \in Int /\ m.count \in Int /\ m.sum \in Int /\ m.zero \in Int
         /\ m.minmax \in Opt(Int \X Int) /\ m.type \in MetricTypes
         /\ DOMAIN m = {"type", "name", "unit", "description", "temporality", "monotonic",
                        "start", "time", "value", "count", "sum", "minmax", "bounds", "buckets",
                        "scale", "zero", "pos", "neg", "attrs", "exemplars", "capExemplars"}
BY DEF Metric

\* The numbers of blocks.
LEMMA MetricBlockTypes ==
  ASSUME NEW m \in Metric
  PROVE  /\ NameBlocks(m) \in Int /\ BoundBlocks(m) \in Int /\ SideBlocks(m) \in Int
         /\ VecBlocks(m.attrs) \in Int /\ Bit(m.capExemplars > 0) \in Int
         /\ MetricBlocks(m) \in Int
<1>1. VecBlocks(m.attrs) \in Int /\ Bit(m.capExemplars > 0) \in Int
  BY MetricFields, VecBlocksType, BitType
<1>2. NameBlocks(m) \in Int
  <2>1. Bit(m.name # NULL) \in Int /\ Bit(m.unit # NULL) \in Int /\ Bit(m.description # NULL) \in Int
    BY BitType
  <2> QED BY <2>1 DEF NameBlocks
<1>3. BoundBlocks(m) \in Int
  <2>1. Bit(m.bounds # NULL) \in Int /\ Bit(m.buckets # NULL) \in Int
    BY BitType
  <2> QED BY <2>1 DEF BoundBlocks
<1>4. SideBlocks(m) \in Int
  <2>1. Bit(m.pos.counts # NULL) \in Int /\ Bit(m.neg.counts # NULL) \in Int
    BY BitType
  <2> QED BY <2>1 DEF SideBlocks
<1>5. MetricBlocks(m) \in Int
  BY <1>1, <1>2, <1>3, <1>4 DEF MetricBlocks
<1> QED BY <1>1, <1>2, <1>3, <1>4, <1>5

\* A metric is freed with all it owns.
LEMMA MetricFrees ==
  ASSUME NEW h \in Heaps, NEW m \in Metric
  PROVE  otlp_metric_free(h, m) \in Heaps /\ otlp_metric_free(h, m).live = h.live - MetricBlocks(m)
<1> DEFINE a == Bit(m.name # NULL) + Bit(m.unit # NULL) + Bit(m.description # NULL)
                  + Bit(m.bounds # NULL) + Bit(m.buckets # NULL)
                  + Bit(m.pos.counts # NULL) + Bit(m.neg.counts # NULL)
<1> DEFINE b == Bit(m.capExemplars > 0) + 1
<1> DEFINE g == otlp_free(h, a)
<1> DEFINE k == otlp_attr_vec_free(g, m.attrs)
<1>1. otlp_metric_free(h, m) = otlp_free(k, b)
  BY DEF otlp_metric_free
<1>2. a = NameBlocks(m) + BoundBlocks(m) + SideBlocks(m)
  <2>1. /\ Bit(m.name # NULL) \in Int /\ Bit(m.unit # NULL) \in Int
        /\ Bit(m.description # NULL) \in Int
        /\ Bit(m.bounds # NULL) \in Int /\ Bit(m.buckets # NULL) \in Int
        /\ Bit(m.pos.counts # NULL) \in Int /\ Bit(m.neg.counts # NULL) \in Int
    BY BitType
  <2> QED BY <2>1 DEF NameBlocks, BoundBlocks, SideBlocks
<1>3. a \in Int /\ b \in Int /\ VecBlocks(m.attrs) \in Int /\ h.live \in Int /\ m.attrs \in Vec
  BY <1>2, MetricBlockTypes, MetricFields, HeapNumbers
<1>4. MetricBlocks(m) = a + VecBlocks(m.attrs) + b
  BY <1>2, MetricBlockTypes DEF MetricBlocks
<1> HIDE DEF a, b
<1>5. g \in Heaps /\ g.live = h.live - a
  BY <1>3, FreeUses
<1> HIDE DEF g
<1>6. k \in Heaps /\ k.live = g.live - VecBlocks(m.attrs)
  BY <1>3, <1>5, VecFrees
<1> HIDE DEF k
<1>7. otlp_free(k, b) \in Heaps /\ otlp_free(k, b).live = k.live - b
  BY <1>3, <1>6, FreeUses
<1> QED BY <1>1, <1>3, <1>4, <1>5, <1>6, <1>7

\* A call on a metric: it stays good and what it owns is accounted for.
MetricChanged(h, m, r) ==
  /\ r.h \in Heaps /\ r.st \in Statuses /\ MetricGood(r.o)
  /\ r.h.live = h.live + MetricBlocks(r.o) - MetricBlocks(m)

\* A result whose blocks balance is a call on the metric.
LEMMA MetricChangedResult ==
  ASSUME NEW h, NEW m, NEW g \in Heaps, NEW x \in Statuses, NEW d, MetricGood(d),
         g.live = h.live + MetricBlocks(d) - MetricBlocks(m)
  PROVE  MetricChanged(h, m, Result(g, x, d))
BY ResultParts DEF MetricChanged

\* Nothing happened.
LEMMA MetricUnchanged ==
  ASSUME NEW h \in Heaps, NEW m, MetricGood(m), NEW g \in Heaps, g.live = h.live, NEW x \in Statuses
  PROVE  MetricChanged(h, m, Result(g, x, m))
<1>1. h.live \in Int /\ MetricBlocks(m) \in Int
  BY HeapNumbers, MetricBlockTypes DEF MetricGood
<1>2. g.live = h.live + MetricBlocks(m) - MetricBlocks(m)
  BY <1>1
<1> QED BY <1>2, MetricChangedResult

\* Two metrics that own the same.
SameOwned(m, d) ==
  /\ d.name = m.name /\ d.unit = m.unit /\ d.description = m.description
  /\ d.bounds = m.bounds /\ d.pos = m.pos /\ d.neg = m.neg /\ d.attrs = m.attrs
  /\ d.exemplars = m.exemplars /\ d.capExemplars = m.capExemplars
  /\ (d.buckets = NULL) = (m.buckets = NULL)

\* A setter of a plain field leaves the blocks alone.
LEMMA MetricPlain ==
  ASSUME NEW h \in Heaps, NEW m, MetricGood(m), NEW d \in Metric, SameOwned(m, d),
         NEW x \in Statuses
  PROVE  MetricChanged(h, m, Result(h, x, d))
<1>1. MetricGood(d)
  BY DEF MetricGood, SameOwned
<1>2. /\ NameBlocks(d) = NameBlocks(m) /\ SideBlocks(d) = SideBlocks(m)
      /\ BoundBlocks(d) = BoundBlocks(m)
  BY DEF NameBlocks, SideBlocks, BoundBlocks, SameOwned, Bit
<1>3. MetricBlocks(d) = MetricBlocks(m)
  BY <1>2 DEF MetricBlocks, SameOwned
<1>4. h.live \in Int /\ MetricBlocks(m) \in Int
  BY HeapNumbers, MetricBlockTypes DEF MetricGood
<1>5. h.live = h.live + MetricBlocks(d) - MetricBlocks(m)
  BY <1>3, <1>4
<1> QED BY <1>1, <1>5, MetricChangedResult

\* Times.
LEMMA MetricSetTimeChanges ==
  ASSUME NEW h \in Heaps, NEW m, MetricGood(m), NEW which \in {"start", "time"}, NEW t \in Opt(Int)
  PROVE  LET r == otlp_metric_set_time(h, m, which, t) IN
         MetricChanged(h, m, r) /\ r.st = "OK"
<1> DEFINE d == [m EXCEPT ![which] = t]
<1>1. m \in Metric
  BY DEF MetricGood
<1>2. d \in Metric
  <2>1. CASE which = "start"
    <3>1. [m EXCEPT !.start = t] \in Metric
      BY Zenon, <1>1 DEF Metric
    <3> QED BY <2>1, <3>1
  <2>2. CASE which = "time"
    <3>1. [m EXCEPT !.time = t] \in Metric
      BY Zenon, <1>1 DEF Metric
    <3> QED BY <2>2, <3>1
  <2> QED BY <2>1, <2>2
<1>3. SameOwned(m, d)
  BY <1>1, MetricFields DEF SameOwned
<1>4. otlp_metric_set_time(h, m, which, t) = Result(h, "OK", d)
  BY DEF otlp_metric_set_time
<1> HIDE DEF d
<1> QED BY <1>2, <1>3, <1>4, MetricPlain, ResultParts DEF Statuses

\* The temporality and the monotonic flag.
LEMMA MetricSetTemporalityChanges ==
  ASSUME NEW h \in Heaps, NEW m, MetricGood(m), NEW t \in Int
  PROVE  LET r == otlp_metric_set_aggregation_temporality(h, m, t) IN
         MetricChanged(h, m, r) /\ (r.st # "OK" => r.o = m)
<1> DEFINE r == otlp_metric_set_aggregation_temporality(h, m, t)
<1> DEFINE d == [m EXCEPT !.temporality = t]
<1>1. m \in Metric
  BY DEF MetricGood
<1>2. d \in Metric
  BY Zenon, <1>1 DEF Metric
<1>3. SameOwned(m, d)
  BY <1>1, MetricFields DEF SameOwned
<1>4. r = Result(h, "INVALID_ARGUMENT", m) \/ r = Result(h, "OK", d)
  BY DEF otlp_metric_set_aggregation_temporality
<1> HIDE DEF d, r
<1>5. CASE r = Result(h, "INVALID_ARGUMENT", m)
  <2>1. MetricChanged(h, m, r) /\ r.o = m
    BY <1>5, MetricUnchanged, ResultParts DEF Statuses
  <2> QED BY <2>1 DEF r
<1>6. CASE r = Result(h, "OK", d)
  <2>1. MetricChanged(h, m, r) /\ r.st = "OK"
    BY <1>2, <1>3, <1>6, MetricPlain, ResultParts DEF Statuses
  <2> QED BY <2>1 DEF r
<1> QED BY <1>4, <1>5, <1>6

\* otlp_metric_set_monotonic.
LEMMA MetricSetMonotonicChanges ==
  ASSUME NEW h \in Heaps, NEW m, MetricGood(m), NEW b \in BOOLEAN
  PROVE  LET r == otlp_metric_set_monotonic(h, m, b) IN
         MetricChanged(h, m, r) /\ r.st = "OK"
<1> DEFINE d == [m EXCEPT !.monotonic = b]
<1>1. m \in Metric
  BY DEF MetricGood
<1>2. d \in Metric
  BY Zenon, <1>1 DEF Metric
<1>3. SameOwned(m, d)
  BY <1>1, MetricFields DEF SameOwned
<1>4. otlp_metric_set_monotonic(h, m, b) = Result(h, "OK", d)
  BY DEF otlp_metric_set_monotonic
<1> HIDE DEF d
<1> QED BY <1>2, <1>3, <1>4, MetricPlain, ResultParts DEF Statuses

\* An attribute of the metric.
LEMMA MetricSetAttributeChanges ==
  ASSUME NEW h \in Heaps, NEW m, MetricGood(m), NEW key \in Opt(Text), NEW v, IsValue(v)
  PROVE  LET r == otlp_metric_set_attribute(h, m, key, v) IN
         MetricChanged(h, m, r) /\ (r.st # "OK" => Held(r.o) = Held(m))
<1> DEFINE q == SetAny(h, m.attrs, MaxMetricAttrs, key, v)
<1> DEFINE d == [m EXCEPT !.attrs = q.o]
<1>1. otlp_metric_set_attribute(h, m, key, v) = Result(q.h, q.st, d)
  BY DEF otlp_metric_set_attribute, Into
<1>2. m \in Metric /\ GoodVec(m.attrs, MaxMetricAttrs) /\ m.attrs \in Vec
  BY DEF MetricGood, GoodVec
<1>3. Changed(h, m.attrs, MaxMetricAttrs, q)
  BY <1>2, MetricLimits, SetAnyChanges
<1> HIDE DEF q
<1>4. /\ q.h \in Heaps /\ q.st \in Statuses /\ GoodVec(q.o, MaxMetricAttrs) /\ q.o \in Vec
      /\ q.h.live = h.live + VecBlocks(q.o) - VecBlocks(m.attrs)
      /\ q.st # "OK" => q.o.items = m.attrs.items
  BY <1>3 DEF Changed, GoodVec
<1>5. d \in Metric
  BY Zenon, <1>2, <1>4 DEF Metric
<1>6. /\ d.attrs = q.o /\ "attrs" \in DOMAIN m
      /\ DOMAIN d = DOMAIN m /\ \A f \in DOMAIN m : f # "attrs" => d[f] = m[f]
  BY <1>2, MetricFields
<1>7. /\ d.name = m.name /\ d.unit = m.unit /\ d.description = m.description
      /\ d.bounds = m.bounds /\ d.pos = m.pos /\ d.neg = m.neg
      /\ d.exemplars = m.exemplars /\ d.capExemplars = m.capExemplars /\ d.buckets = m.buckets
  BY <1>2, MetricFields
<1> HIDE DEF d
<1>8. MetricGood(d)
  BY <1>4, <1>5, <1>6, <1>7 DEF MetricGood
<1>9. q.h.live = h.live + MetricBlocks(d) - MetricBlocks(m)
  <2>1. /\ NameBlocks(d) = NameBlocks(m) /\ SideBlocks(d) = SideBlocks(m)
        /\ BoundBlocks(d) = BoundBlocks(m)
    BY <1>7 DEF NameBlocks, SideBlocks, BoundBlocks
  <2>2. VecBlocks(q.o) \in Int /\ h.live \in Int
    BY <1>4, VecBlocksType, HeapNumbers
  <2> QED BY <1>2, <1>4, <1>6, <1>7, <2>1, <2>2, MetricBlockTypes DEF MetricBlocks
<1>10. ASSUME q.o.items = m.attrs.items PROVE Held(d) = Held(m)
  BY <1>6, <1>10 DEF Held
<1> QED BY <1>1, <1>4, <1>8, <1>9, <1>10, MetricChangedResult, ResultParts

\* The extremes stay a pair of numbers.
LEMMA WidenType ==
  ASSUME NEW x \in Opt(Int \X Int), NEW v \in Int PROVE Widen(x, v) \in Opt(Int \X Int)
<1>1. CASE x = NULL
  BY <1>1 DEF Widen, Opt
<1>2. CASE x # NULL
  <2>1. x \in Int \X Int /\ x[1] \in Int /\ x[2] \in Int
    BY <1>2 DEF Opt
  <2> DEFINE a == Lesser(x[1], v)
  <2> DEFINE b == IF v > x[2] THEN v ELSE x[2]
  <2>2. a \in Int /\ b \in Int
    BY <2>1 DEF Lesser
  <2>3. Widen(x, v) = <<a, b>>
    BY <1>2 DEF Widen
  <2> HIDE DEF a, b
  <2>4. <<a, b>> \in Int \X Int
    BY <2>2
  <2> QED BY <2>3, <2>4 DEF Opt
<1> QED BY <1>1, <1>2

\* A counter goes up.
LEMMA CounterUp ==
  ASSUME NEW b \in Text, NEW k PROVE [b EXCEPT ![k] = @ + 1] \in Text
<1> DEFINE n == Len(b)
<1> DEFINE c == [b EXCEPT ![k] = @ + 1]
<1>1. n \in Nat /\ b \in [1..n -> Int]
  BY DEF Text
<1>2. c \in [1..n -> Int]
  <2> HIDE DEF n
  <2>1. c = [i \in 1..n |-> IF i = k THEN b[i] + 1 ELSE b[i]]
    BY <1>1
  <2>2. \A i \in 1..n : (IF i = k THEN b[i] + 1 ELSE b[i]) \in Int
    BY <1>1
  <2> HIDE DEF c
  <2> QED BY <2>1, <2>2
<1> HIDE DEF c, n
<1>3. c \in Seq(Int)
  BY <1>1, <1>2
<1> QED BY <1>3 DEF c, Text

\* A record into a histogram: one bucket is made if there are none.
LEMMA RecordHistogramChanges ==
  ASSUME NEW h \in Heaps, NEW m, MetricGood(m), NEW v \in Int
  PROVE  MetricChanged(h, m, RecordHistogram(h, m, v))
<1> DEFINE r == RecordHistogram(h, m, v)
<1> DEFINE d == [m EXCEPT !.count = @ + 1, !.sum = @ + v, !.minmax = Widen(@, v)]
<1> DEFINE k == BucketOf(m.bounds, v)
<1> DEFINE g == otlp_malloc(h)
<1> DEFINE p == [d EXCEPT !.buckets[k] = @ + 1]
<1> DEFINE q == [d EXCEPT !.buckets[1] = @ + 1]
<1> DEFINE w == [d EXCEPT !.buckets = <<1>>]
<1>1. r = IF m.bounds # NULL THEN Result(h, "OK", p)
          ELSE IF m.buckets # NULL THEN Result(h, "OK", q)
          ELSE IF CanAlloc(h) THEN Result(g, "OK", w)
          ELSE Result(g, "NOMEM", d)
  BY DEF RecordHistogram
<1>2. m \in Metric
  BY DEF MetricGood
<1>3. d \in Metric /\ SameOwned(m, d) /\ d.buckets = m.buckets
  <2> DEFINE a == m.count + 1
  <2> DEFINE b == m.sum + v
  <2> DEFINE c == Widen(m.minmax, v)
  <2>1. a \in Int /\ b \in Int /\ c \in Opt(Int \X Int)
    BY <1>2, MetricFields, WidenType
  <2>2. d = [m EXCEPT !.count = a, !.sum = b, !.minmax = c]
    OBVIOUS
  <2> HIDE DEF a, b, c
  <2>3. [m EXCEPT !.count = a, !.sum = b, !.minmax = c] \in Metric
    BY Zenon, <1>2, <2>1 DEF Metric
  <2>4. SameOwned(m, [m EXCEPT !.count = a, !.sum = b, !.minmax = c])
        /\ [m EXCEPT !.count = a, !.sum = b, !.minmax = c].buckets = m.buckets
    BY <1>2, MetricFields DEF SameOwned
  <2> QED BY <2>2, <2>3, <2>4
<1> HIDE DEF k, d, g
<1>4. ASSUME m.buckets # NULL, NEW j
      PROVE  MetricChanged(h, m, Result(h, "OK", [d EXCEPT !.buckets[j] = @ + 1]))
  <2> DEFINE b == [d.buckets EXCEPT ![j] = @ + 1]
  <2> DEFINE e == [d EXCEPT !.buckets = b]
  <2>1. m.buckets \in Text /\ b \in Text
    BY <1>2, <1>3, <1>4, MetricFields, CounterUp DEF Opt
  <2>2. e = [d EXCEPT !.buckets[j] = @ + 1]
    BY <1>3
  <2>3. b \in Opt(Text) /\ b # NULL
    BY <2>1, TextFacts
  <2> HIDE DEF b
  <2>4. e \in Metric
    BY Zenon, <1>3, <2>3 DEF Metric
  <2>5. SameOwned(m, e)
    BY <1>3, <1>4, <2>3, MetricFields DEF SameOwned
  <2> HIDE DEF e
  <2>6. MetricChanged(h, m, Result(h, "OK", e))
    BY <2>4, <2>5, MetricPlain DEF Statuses
  <2> QED BY <2>2, <2>6
<1> HIDE DEF r
<1>5. CASE m.bounds # NULL
  <2>1. m.buckets # NULL
    BY <1>5 DEF MetricGood
  <2>2. MetricChanged(h, m, r)
    BY <1>1, <1>4, <1>5, <2>1
  <2> QED BY <2>2 DEF r
<1>6. CASE m.bounds = NULL /\ m.buckets # NULL
  <2>1. MetricChanged(h, m, r)
    BY <1>1, <1>4, <1>6
  <2> QED BY <2>1 DEF r
<1>7. g \in Heaps /\ g.live = h.live + Bit(CanAlloc(h)) /\ h.live \in Int
  BY MallocUses, HeapNumbers DEF g
<1>8. CASE m.bounds = NULL /\ m.buckets = NULL /\ ~ CanAlloc(h)
  <2>1. g.live = h.live
    BY <1>7, <1>8 DEF Bit
  <2>2. MetricChanged(h, m, Result(h, "NOMEM", d))
    BY <1>3, MetricPlain DEF Statuses
  <2>3. MetricGood(d) /\ h.live = h.live + MetricBlocks(d) - MetricBlocks(m)
    BY <2>2, ResultParts DEF MetricChanged
  <2>4. MetricChanged(h, m, Result(g, "NOMEM", d))
    BY <1>7, <2>1, <2>3, MetricChangedResult DEF Statuses
  <2>5. MetricChanged(h, m, r)
    BY <1>1, <1>8, <2>4
  <2> QED BY <2>5 DEF r
<1>9. CASE m.bounds = NULL /\ m.buckets = NULL /\ CanAlloc(h)
  <2> DEFINE b == <<1>>
  <2>1. b \in Opt(Text) /\ b # NULL
    <3>1. b \in Text
      BY DEF Text
    <3> HIDE DEF b
    <3> QED BY <3>1, TextFacts
  <2> HIDE DEF b
  <2> DEFINE e == [d EXCEPT !.buckets = b]
  <2>2. e \in Metric
    BY Zenon, <1>3, <2>1 DEF Metric
  <2>3. /\ e.name = m.name /\ e.unit = m.unit /\ e.description = m.description
        /\ e.bounds = m.bounds /\ e.pos = m.pos /\ e.neg = m.neg /\ e.attrs = m.attrs
        /\ e.exemplars = m.exemplars /\ e.capExemplars = m.capExemplars /\ e.buckets # NULL
    BY <1>3, <2>1, MetricFields DEF SameOwned
  <2> HIDE DEF e
  <2>4. MetricGood(e)
    BY <1>9, <2>2, <2>3 DEF MetricGood
  <2>5. /\ NameBlocks(e) = NameBlocks(m) /\ SideBlocks(e) = SideBlocks(m)
        /\ BoundBlocks(e) = 1 /\ BoundBlocks(m) = 0
    BY <1>9, <2>3 DEF NameBlocks, SideBlocks, BoundBlocks, Bit
  <2>6. g.live = h.live + 1
    BY <1>7, <1>9 DEF Bit
  <2>7. g.live = h.live + MetricBlocks(e) - MetricBlocks(m)
    BY <1>2, <1>7, <2>3, <2>5, <2>6, MetricBlockTypes DEF MetricBlocks
  <2>8. MetricChanged(h, m, Result(g, "OK", e))
    BY <1>7, <2>4, <2>7, MetricChangedResult DEF Statuses
  <2>9. MetricChanged(h, m, r)
    BY <1>1, <1>9, <2>8 DEF e, b
  <2> QED BY <2>9 DEF r
<1> QED BY <1>5, <1>6, <1>8, <1>9

\* A record into any metric.
LEMMA MetricRecordChanges ==
  ASSUME NEW h \in Heaps, NEW m, MetricGood(m), NEW v \in Int
  PROVE  MetricChanged(h, m, otlp_metric_record(h, m, v))
<1> DEFINE r == otlp_metric_record(h, m, v)
<1> DEFINE a == m.value + v
<1> DEFINE b == m.count + 1
<1> DEFINE c == m.sum + v
<1> DEFINE z == m.zero + Bit(v = 0)
<1> DEFINE Counter == [m EXCEPT !.value = a]
<1> DEFINE Gauge == [m EXCEPT !.value = v]
<1> DEFINE Exp == [m EXCEPT !.count = b, !.sum = c, !.zero = z]
<1>1. m \in Metric /\ m.type \in MetricTypes
  BY MetricFields DEF MetricGood
<1>2. a \in Int /\ b \in Int /\ c \in Int /\ z \in Int
  <2>1. Bit(v = 0) \in Int
    BY BitType
  <2> QED BY <1>1, <2>1, MetricFields
<1>3. \/ r = Result(h, "OK", Counter)
      \/ r = Result(h, "OK", Gauge)
      \/ r = RecordHistogram(h, m, v)
      \/ r = Result(h, "OK", Exp)
  BY <1>1 DEF otlp_metric_record, MetricTypes
<1> HIDE DEF a, b, c, z, r
<1>4. Counter \in Metric /\ Gauge \in Metric /\ Exp \in Metric
  <2>1. Counter \in Metric
    BY Zenon, <1>1, <1>2 DEF Metric
  <2>2. Gauge \in Metric
    BY Zenon, <1>1, <1>2 DEF Metric
  <2>3. Exp \in Metric
    BY Zenon, <1>1, <1>2 DEF Metric
  <2> QED BY <2>1, <2>2, <2>3
<1>5. SameOwned(m, Counter) /\ SameOwned(m, Gauge) /\ SameOwned(m, Exp)
  BY <1>1, MetricFields DEF SameOwned
<1> HIDE DEF Counter, Gauge, Exp
<1>6. MetricChanged(h, m, r)
  BY <1>3, <1>4, <1>5, MetricPlain, RecordHistogramChanges DEF Statuses
<1> QED BY <1>6 DEF r

\* One side of an exponential histogram.
LEMMA SetBucketsChanges ==
  ASSUME NEW h \in Heaps, NEW b \in Buckets, NEW offset \in Int, NEW counts \in Opt(Text)
  PROVE  LET r == SetBuckets(h, b, offset, counts) IN
         /\ r.h \in Heaps /\ r.st \in Statuses /\ r.o \in Buckets
         /\ r.h.live = h.live + Bit(r.o.counts # NULL) - Bit(b.counts # NULL)
<1> DEFINE r == SetBuckets(h, b, offset, counts)
<1> DEFINE had == Bit(b.counts # NULL)
<1> DEFINE g == otlp_free(h, had)
<1> DEFINE n == otlp_malloc(g)
<1> DEFINE c == [offset |-> offset, counts |-> counts, n |-> Len(counts)]
<1> DEFINE d == [b EXCEPT !.offset = offset, !.counts = NULL]
<1> DEFINE Good(x) == /\ x.h \in Heaps /\ x.st \in Statuses /\ x.o \in Buckets
                      /\ x.h.live = h.live + Bit(x.o.counts # NULL) - had
<1> SUFFICES Good(r)
  OBVIOUS
<1>1. r = IF OrEmpty(counts) = <<>> THEN Result(h, "OK", b)
          ELSE IF CanAlloc(g) THEN Result(n, "OK", c) ELSE Result(n, "NOMEM", d)
  BY DEF SetBuckets
<1>2. had \in Int /\ h.live \in Int
  BY BitType, HeapNumbers
<1>3. had = Bit(b.counts # NULL)
  OBVIOUS
<1> HIDE DEF had
<1>4. g \in Heaps /\ g.live = h.live - had
  BY <1>2, FreeUses
<1> HIDE DEF g
<1>5. n \in Heaps /\ n.live = g.live + Bit(CanAlloc(g))
  BY <1>4, MallocUses
<1> HIDE DEF n, r
<1>6. CASE OrEmpty(counts) = <<>>
  <2>1. h.live = h.live + Bit(b.counts # NULL) - had
    BY <1>2, <1>3
  <2>2. r = Result(h, "OK", b)
    BY <1>1, <1>6
  <2> QED BY <2>1, <2>2, ResultParts DEF Statuses
<1>7. CASE OrEmpty(counts) # <<>> /\ CanAlloc(g)
  <2>1. counts # NULL /\ counts \in Text /\ Len(counts) \in Nat
    <3>1. counts # NULL
      BY <1>7 DEF OrEmpty
    <3>2. counts \in Text
      BY <3>1, TextFacts
    <3> QED BY <3>1, <3>2 DEF Text
  <2>2. c \in Buckets /\ c.counts # NULL
    BY <2>1 DEF Buckets, Opt
  <2> HIDE DEF c
  <2>3. n.live = h.live + Bit(c.counts # NULL) - had
    BY <1>2, <1>4, <1>5, <1>7, <2>2 DEF Bit
  <2>4. r = Result(n, "OK", c)
    BY <1>1, <1>7
  <2> QED BY <1>5, <2>2, <2>3, <2>4, ResultParts DEF Statuses
<1>8. CASE OrEmpty(counts) # <<>> /\ ~ CanAlloc(g)
  <2>1. NULL \in Opt(Text)
    BY DEF Opt
  <2>2. d \in Buckets
    BY Zenon, <2>1 DEF Buckets
  <2>3. d.counts = NULL
    BY DEF Buckets
  <2> HIDE DEF d
  <2>4. n.live = h.live + Bit(d.counts # NULL) - had
    BY <1>2, <1>4, <1>5, <1>8, <2>3 DEF Bit
  <2>5. r = Result(n, "NOMEM", d)
    BY <1>1, <1>8
  <2> QED BY <1>5, <2>2, <2>4, <2>5, ResultParts DEF Statuses
<1> QED BY <1>6, <1>7, <1>8

\* A metric with other counters on a side.
LEMMA MetricWithSide ==
  ASSUME NEW m, MetricGood(m), NEW b \in Buckets, NEW which \in {"pos", "neg"}
  PROVE  LET d == [m EXCEPT ![which] = b] IN
         /\ MetricGood(d)
         /\ MetricBlocks(d) = MetricBlocks(m) + Bit(b.counts # NULL)
                                - Bit(m[which].counts # NULL)
<1> DEFINE d == [m EXCEPT ![which] = b]
<1>1. m \in Metric
  BY DEF MetricGood
<1>2. d \in Metric
  <2>1. CASE which = "pos"
    <3>1. [m EXCEPT !.pos = b] \in Metric
      BY Zenon, <1>1 DEF Metric
    <3> QED BY <2>1, <3>1
  <2>2. CASE which = "neg"
    <3>1. [m EXCEPT !.neg = b] \in Metric
      BY Zenon, <1>1 DEF Metric
    <3> QED BY <2>2, <3>1
  <2> QED BY <2>1, <2>2
<1>3. /\ d.name = m.name /\ d.unit = m.unit /\ d.description = m.description
      /\ d.bounds = m.bounds /\ d.buckets = m.buckets /\ d.attrs = m.attrs
      /\ d.exemplars = m.exemplars /\ d.capExemplars = m.capExemplars
      /\ which = "pos" => d.pos = b /\ d.neg = m.neg
      /\ which = "neg" => d.neg = b /\ d.pos = m.pos
  BY <1>1, MetricFields
<1> HIDE DEF d
<1>4. MetricGood(d)
  BY <1>2, <1>3 DEF MetricGood
<1> DEFINE x == Bit(b.counts # NULL)
<1> DEFINE y == Bit(m[which].counts # NULL)
<1>5. SideBlocks(d) = SideBlocks(m) + x - y
  <2> DEFINE p == Bit(m.pos.counts # NULL)
  <2> DEFINE q == Bit(m.neg.counts # NULL)
  <2>1. x \in Int /\ p \in Int /\ q \in Int
    BY BitType
  <2>2. SideBlocks(m) = p + q
    BY DEF SideBlocks
  <2>3. CASE which = "pos"
    <3>1. SideBlocks(d) = x + q /\ y = p
      BY <1>3, <2>3 DEF SideBlocks
    <3> HIDE DEF x, y, p, q
    <3> QED BY <2>1, <2>2, <3>1
  <2>4. CASE which = "neg"
    <3>1. SideBlocks(d) = p + x /\ y = q
      BY <1>3, <2>4 DEF SideBlocks
    <3> HIDE DEF x, y, p, q
    <3> QED BY <2>1, <2>2, <3>1
  <2> QED BY <2>3, <2>4
<1>6. x \in Int /\ y \in Int
  BY BitType
<1>7. NameBlocks(d) = NameBlocks(m) /\ BoundBlocks(d) = BoundBlocks(m)
  BY <1>3 DEF NameBlocks, BoundBlocks
<1>8. MetricBlocks(d) = MetricBlocks(m) + x - y
  <2> HIDE DEF x, y
  <2> QED BY <1>1, <1>3, <1>5, <1>6, <1>7, MetricBlockTypes DEF MetricBlocks
<1> QED BY <1>4, <1>8 DEF d

\* The counters of an exponential histogram.
LEMMA MetricSetExpHistogramChanges ==
  ASSUME NEW h \in Heaps, NEW m, MetricGood(m), NEW scale \in Int, NEW offset \in Int,
         NEW posCounts \in Opt(Text), NEW negCounts \in Opt(Text)
  PROVE  MetricChanged(h, m, otlp_metric_set_exp_histogram(h, m, scale, offset, posCounts, negCounts))
<1> DEFINE r == otlp_metric_set_exp_histogram(h, m, scale, offset, posCounts, negCounts)
<1> DEFINE p == SetBuckets(h, m.pos, offset, posCounts)
<1> DEFINE d == [m EXCEPT !.scale = scale, !.pos = p.o]
<1> DEFINE n == SetBuckets(p.h, m.neg, offset, negCounts)
<1> DEFINE w == [d EXCEPT !.neg = n.o]
<1>1. r = IF m.type # "EXP_HISTOGRAM" THEN Result(h, "INVALID_ARGUMENT", m)
          ELSE IF p.st # "OK" THEN Result(p.h, p.st, d)
          ELSE Result(n.h, n.st, w)
  BY DEF otlp_metric_set_exp_histogram
<1>2. m \in Metric /\ m.pos \in Buckets /\ m.neg \in Buckets /\ h.live \in Int
  BY MetricFields, HeapNumbers DEF MetricGood
<1>3. /\ p.h \in Heaps /\ p.st \in Statuses /\ p.o \in Buckets
      /\ p.h.live = h.live + Bit(p.o.counts # NULL) - Bit(m.pos.counts # NULL)
  BY <1>2, SetBucketsChanges
<1> HIDE DEF p
<1>4. /\ n.h \in Heaps /\ n.st \in Statuses /\ n.o \in Buckets
      /\ n.h.live = p.h.live + Bit(n.o.counts # NULL) - Bit(m.neg.counts # NULL)
  BY <1>2, <1>3, SetBucketsChanges
<1> HIDE DEF n, r
<1> DEFINE s == [m EXCEPT !.scale = scale]
<1>5. MetricGood(s) /\ MetricBlocks(s) = MetricBlocks(m) /\ s.pos = m.pos /\ s.neg = m.neg
  <2>1. scale \in Opt(Int)
    BY DEF Opt
  <2>2. s \in Metric
    BY Zenon, <1>2, <2>1 DEF Metric
  <2>3. SameOwned(m, s)
    BY <1>2, MetricFields DEF SameOwned
  <2> HIDE DEF s
  <2>4. MetricGood(s)
    BY <2>2, <2>3 DEF MetricGood, SameOwned
  <2>5. /\ NameBlocks(s) = NameBlocks(m) /\ SideBlocks(s) = SideBlocks(m)
        /\ BoundBlocks(s) = BoundBlocks(m)
    BY <2>3 DEF NameBlocks, SideBlocks, BoundBlocks, SameOwned, Bit
  <2>6. MetricBlocks(s) = MetricBlocks(m)
    BY <2>3, <2>5 DEF MetricBlocks, SameOwned
  <2> QED BY <2>3, <2>4, <2>6 DEF SameOwned
<1>6. d = [s EXCEPT !.pos = p.o]
  BY <1>2
<1> HIDE DEF s
<1> DEFINE a == Bit(p.o.counts # NULL)
<1> DEFINE b == Bit(m.pos.counts # NULL)
<1> DEFINE c == Bit(n.o.counts # NULL)
<1> DEFINE e == Bit(m.neg.counts # NULL)
<1>7. MetricGood(d) /\ MetricBlocks(d) = MetricBlocks(m) + a - b
  <2>1. MetricGood([s EXCEPT !["pos"] = p.o])
        /\ MetricBlocks([s EXCEPT !["pos"] = p.o]) = MetricBlocks(s) + a - Bit(s["pos"].counts # NULL)
    BY <1>3, <1>5, MetricWithSide
  <2>2. [s EXCEPT !["pos"] = p.o] = d /\ s["pos"] = m.pos
    BY <1>5, <1>6
  <2> HIDE DEF a, d
  <2> QED BY <1>5, <2>1, <2>2
<1>8. d.neg = m.neg
  BY <1>5, <1>6, MetricFields DEF MetricGood
<1> HIDE DEF d
<1>9. MetricGood(w) /\ MetricBlocks(w) = MetricBlocks(d) + c - e
  <2>1. MetricGood([d EXCEPT !["neg"] = n.o])
        /\ MetricBlocks([d EXCEPT !["neg"] = n.o]) = MetricBlocks(d) + c - Bit(d["neg"].counts # NULL)
    BY <1>4, <1>7, MetricWithSide
  <2>2. [d EXCEPT !["neg"] = n.o] = w /\ d["neg"] = m.neg
    BY <1>8
  <2> HIDE DEF c, w
  <2> QED BY <2>1, <2>2
<1> HIDE DEF w
<1>10. a \in Int /\ b \in Int /\ c \in Int /\ e \in Int /\ MetricBlocks(m) \in Int
  BY <1>2, BitType, MetricBlockTypes
<1>11. p.h.live = h.live + a - b /\ n.h.live = p.h.live + c - e
  BY <1>3, <1>4
<1> HIDE DEF a, b, c, e
<1>12. /\ p.h.live = h.live + MetricBlocks(d) - MetricBlocks(m)
       /\ n.h.live = h.live + MetricBlocks(w) - MetricBlocks(m)
  BY <1>2, <1>7, <1>9, <1>10, <1>11
<1>13. MetricChanged(h, m, r)
  <2>1. CASE m.type # "EXP_HISTOGRAM"
    BY <1>1, <2>1, MetricUnchanged DEF Statuses
  <2>2. CASE m.type = "EXP_HISTOGRAM" /\ p.st # "OK"
    BY <1>1, <1>3, <1>7, <1>12, <2>2, MetricChangedResult
  <2>3. CASE m.type = "EXP_HISTOGRAM" /\ p.st = "OK"
    BY <1>1, <1>4, <1>9, <1>12, <2>3, MetricChangedResult
  <2> QED BY <2>1, <2>2, <2>3
<1> QED BY <1>13 DEF r

\* A metric with other exemplars.
LEMMA MetricWithExemplars ==
  ASSUME NEW m, MetricGood(m), NEW q \in Seq(Exemplar), NEW c \in Nat, Len(q) <= c
  PROVE  LET d == [m EXCEPT !.exemplars = q, !.capExemplars = c] IN
         /\ MetricGood(d)
         /\ MetricBlocks(d) = MetricBlocks(m) + Bit(c > 0) - Bit(m.capExemplars > 0)
<1> DEFINE d == [m EXCEPT !.exemplars = q, !.capExemplars = c]
<1>1. m \in Metric
  BY DEF MetricGood
<1>2. d \in Metric
  BY Zenon, <1>1 DEF Metric
<1>3. /\ d.name = m.name /\ d.unit = m.unit /\ d.description = m.description
      /\ d.bounds = m.bounds /\ d.buckets = m.buckets /\ d.attrs = m.attrs
      /\ d.pos = m.pos /\ d.neg = m.neg /\ d.exemplars = q /\ d.capExemplars = c
  BY <1>1, MetricFields
<1> HIDE DEF d
<1>4. MetricGood(d)
  BY <1>2, <1>3 DEF MetricGood
<1>5. /\ NameBlocks(d) = NameBlocks(m) /\ SideBlocks(d) = SideBlocks(m)
      /\ BoundBlocks(d) = BoundBlocks(m)
  BY <1>3 DEF NameBlocks, SideBlocks, BoundBlocks
<1> DEFINE x == Bit(c > 0)
<1> DEFINE y == Bit(m.capExemplars > 0)
<1>6. x \in Int /\ y \in Int
  BY BitType
<1>7. MetricBlocks(d) = 1 + NameBlocks(m) + BoundBlocks(m) + SideBlocks(m) + VecBlocks(m.attrs) + x
      /\ MetricBlocks(m) = 1 + NameBlocks(m) + BoundBlocks(m) + SideBlocks(m) + VecBlocks(m.attrs) + y
  BY <1>3, <1>5 DEF MetricBlocks
<1> HIDE DEF x, y
<1>8. MetricBlocks(d) = MetricBlocks(m) + x - y
  BY <1>1, <1>6, <1>7, MetricBlockTypes
<1> QED BY <1>4, <1>8 DEF d, x, y

\* An exemplar is added, or nothing changed.
LEMMA MetricAddExemplarChanges ==
  ASSUME NEW h \in Heaps, NEW m, MetricGood(m), NEW ex \in Exemplar
  PROVE  LET r == otlp_metric_add_exemplar(h, m, ex) IN
         MetricChanged(h, m, r) /\ IsResult(r) /\ (r.st # "OK" => r.o = m)
<1> DEFINE r == otlp_metric_add_exemplar(h, m, ex)
<1> DEFINE full == Len(m.exemplars) = m.capExemplars
<1> DEFINE had == m.capExemplars > 0
<1> DEFINE a == otlp_realloc(h, had)
<1> DEFINE g == IF full THEN a ELSE h
<1> DEFINE c == IF ~ full THEN m.capExemplars
                ELSE IF m.capExemplars = 0 THEN FirstCap ELSE 2 * m.capExemplars
<1> DEFINE q == Append(m.exemplars, ex)
<1> DEFINE d == [m EXCEPT !.exemplars = q, !.capExemplars = c]
<1>1. r = IF ex.type = "NONE" THEN Result(h, "INVALID_ARGUMENT", m)
          ELSE IF full /\ ~ CanAlloc(h) THEN Result(g, "NOMEM", m)
          ELSE Result(g, "OK", d)
  BY DEF otlp_metric_add_exemplar
<1>2. /\ m \in Metric /\ m.exemplars \in Seq(Exemplar) /\ m.capExemplars \in Nat
      /\ Len(m.exemplars) <= m.capExemplars /\ h.live \in Int /\ MetricBlocks(m) \in Int
  BY MetricFields, MetricBlockTypes, HeapNumbers DEF MetricGood
<1>3. a \in Heaps /\ a.live = h.live + Bit(CanAlloc(h) /\ ~ had)
  <2>1. had \in BOOLEAN
    OBVIOUS
  <2> HIDE DEF had
  <2> QED BY <2>1, ReallocUses
<1> HIDE DEF a
<1>4. q \in Seq(Exemplar) /\ Len(q) = Len(m.exemplars) + 1
  BY <1>2
<1>5. c \in Nat /\ Len(q) <= c
  BY <1>2, <1>4, FirstCapAssumption
<1>6. full => (c > 0) /\ Bit(c > 0) = 1
  BY <1>2, <1>4, <1>5, FirstCapAssumption DEF Bit
<1>7. ~ full => c = m.capExemplars
  OBVIOUS
<1> HIDE DEF q, c
<1>8. MetricGood(d) /\ MetricBlocks(d) = MetricBlocks(m) + Bit(c > 0) - Bit(m.capExemplars > 0)
  BY <1>4, <1>5, MetricWithExemplars
<1> HIDE DEF d, r
<1>9. CASE ex.type = "NONE" \/ (full /\ ~ CanAlloc(h))
  <2>1. PICK f \in Heaps, x \in Statuses : f.live = h.live /\ x # "OK" /\ r = Result(f, x, m)
    <3>1. CASE ex.type = "NONE"
      BY <1>1, <3>1 DEF Statuses
    <3>2. CASE ex.type # "NONE"
      <4>1. a.live = h.live /\ g = a
        BY <1>2, <1>3, <1>9, <3>2 DEF Bit
      <4>2. r = Result(a, "NOMEM", m)
        BY <1>1, <1>9, <3>2, <4>1
      <4> QED BY <1>3, <4>1, <4>2 DEF Statuses
    <3> QED BY <3>1, <3>2
  <2>2. MetricChanged(h, m, r) /\ IsResult(r) /\ r.o = m
    BY <2>1, MetricUnchanged, ResultParts
  <2> QED BY <2>2 DEF r
<1>10. CASE ex.type # "NONE" /\ ~ (full /\ ~ CanAlloc(h))
  <2>1. g \in Heaps /\ g.live = h.live + MetricBlocks(d) - MetricBlocks(m)
    <3>1. CASE full
      <4>1. g = a /\ CanAlloc(h) /\ Bit(CanAlloc(h) /\ ~ had) = 1 - Bit(m.capExemplars > 0)
        BY <1>2, <1>10, <3>1 DEF Bit
      <4>2. Bit(m.capExemplars > 0) \in Int /\ Bit(c > 0) = 1
        BY <1>6, <3>1, BitType
      <4> QED BY <1>2, <1>3, <1>8, <4>1, <4>2
    <3>2. CASE ~ full
      <4>1. g = h /\ c = m.capExemplars /\ Bit(m.capExemplars > 0) \in Int
        BY <1>7, <3>2, BitType
      <4>2. MetricBlocks(d) = MetricBlocks(m)
        BY <1>2, <1>8, <4>1
      <4>3. h.live = h.live + MetricBlocks(d) - MetricBlocks(m)
        BY <1>2, <4>2
      <4> QED BY <4>1, <4>3
    <3> QED BY <3>1, <3>2
  <2>2. r = Result(g, "OK", d)
    BY <1>1, <1>10
  <2> HIDE DEF g
  <2>3. MetricChanged(h, m, r) /\ IsResult(r) /\ r.st = "OK"
    BY <1>8, <2>1, <2>2, MetricChangedResult, ResultParts DEF Statuses
  <2> QED BY <2>3 DEF r
<1> QED BY <1>9, <1>10

\* What a metric being made from nothing may look like after a step, h being
\* the heap at the start: what it owns is in use; it may lack buckets only if
\* the step failed.
Built(h) ==
  {r \in [h : Heaps, st : Statuses, o : Metric] :
     /\ GoodVec(r.o.attrs, MaxMetricAttrs)
     /\ Len(r.o.exemplars) <= r.o.capExemplars
     /\ r.h.live = h.live + MetricBlocks(r.o)
     /\ r.st = "OK" => MetricGood(r.o)}

\* A metric whose blocks are accounted for is being built.
LEMMA BuiltResult ==
  ASSUME NEW h, NEW g \in Heaps, NEW x \in Statuses, NEW d \in Metric,
         GoodVec(d.attrs, MaxMetricAttrs), Len(d.exemplars) <= d.capExemplars,
         g.live = h.live + MetricBlocks(d), x = "OK" => MetricGood(d)
  PROVE  Result(g, x, d) \in Built(h)
<1>1. Result(g, x, d) \in [h : Heaps, st : Statuses, o : Metric]
  BY DEF Result
<1> QED BY <1>1, ResultParts DEF Built

\* A good metric is one being built, whatever the status.
LEMMA BuiltGood ==
  ASSUME NEW h, NEW g \in Heaps, NEW x \in Statuses, NEW d, MetricGood(d),
         g.live = h.live + MetricBlocks(d)
  PROVE  Result(g, x, d) \in Built(h)
BY BuiltResult DEF MetricGood

\* The parts of a metric being built.
LEMMA BuiltParts ==
  ASSUME NEW h, NEW r \in Built(h)
  PROVE  /\ r.h \in Heaps /\ r.st \in Statuses /\ r.o \in Metric
         /\ GoodVec(r.o.attrs, MaxMetricAttrs)
         /\ Len(r.o.exemplars) <= r.o.capExemplars
         /\ r.h.live = h.live + MetricBlocks(r.o)
         /\ r.st = "OK" => MetricGood(r.o)
BY DEF Built

\* A metric with the names copied into it: all else is as in m.
Named(h, m, r) ==
  /\ r \in Built(h) /\ MetricGood(r.o)
  /\ r.o.bounds = m.bounds /\ r.o.buckets = m.buckets /\ r.o.pos = m.pos /\ r.o.neg = m.neg
  /\ r.o.attrs = m.attrs /\ r.o.exemplars = m.exemplars
  /\ r.o.capExemplars = m.capExemplars

\* The names of a metric that had none.
LEMMA DupTextsMakes ==
  ASSUME NEW h \in Heaps, NEW g \in Heaps, NEW m, MetricGood(m), g.live = h.live + MetricBlocks(m),
         m.name = NULL, m.unit = NULL, m.description = NULL,
         NEW name \in Opt(Text), NEW unit \in Opt(Text), NEW description \in Opt(Text)
  PROVE  Named(h, m, DupTexts(g, m, name, unit, description))
<1> DEFINE r == DupTexts(g, m, name, unit, description)
<1> DEFINE n == otlp_dup_str(g, name)
<1> DEFINE u == otlp_dup_str(n.h, unit)
<1> DEFINE d == otlp_dup_str(u.h, description)
<1> DEFINE x == IF {n.st, u.st, d.st} = {"OK"} THEN "OK" ELSE "NOMEM"
<1> DEFINE w == [m EXCEPT !.name = n.o, !.unit = u.o, !.description = d.o]
<1>1. r = Result(d.h, x, w)
  BY DEF DupTexts
<1>2. n.h \in Heaps /\ n.h.live = g.live + Bit(n.o # NULL) /\ n.o \in Opt(Text)
  <2>1. n.h \in Heaps /\ n.h.live = g.live + Bit(n.o # NULL) /\ (n.o = name \/ n.o = NULL)
    BY DupStrUses DEF Uses
  <2> QED BY <2>1 DEF Opt
<1> HIDE DEF n
<1>3. u.h \in Heaps /\ u.h.live = n.h.live + Bit(u.o # NULL) /\ u.o \in Opt(Text)
  <2>1. u.h \in Heaps /\ u.h.live = n.h.live + Bit(u.o # NULL) /\ (u.o = unit \/ u.o = NULL)
    BY <1>2, DupStrUses DEF Uses
  <2> QED BY <2>1 DEF Opt
<1> HIDE DEF u
<1>4. d.h \in Heaps /\ d.h.live = u.h.live + Bit(d.o # NULL) /\ d.o \in Opt(Text)
  <2>1. d.h \in Heaps /\ d.h.live = u.h.live + Bit(d.o # NULL) /\ (d.o = description \/ d.o = NULL)
    BY <1>3, DupStrUses DEF Uses
  <2> QED BY <2>1 DEF Opt
<1> HIDE DEF d
<1>5. m \in Metric /\ x \in Statuses
  BY DEF MetricGood, Statuses
<1> HIDE DEF x, r
<1>6. w \in Metric
  BY Zenon, <1>2, <1>3, <1>4, <1>5 DEF Metric
<1>7. /\ w.name = n.o /\ w.unit = u.o /\ w.description = d.o
      /\ w.bounds = m.bounds /\ w.buckets = m.buckets /\ w.attrs = m.attrs
      /\ w.pos = m.pos /\ w.neg = m.neg
      /\ w.exemplars = m.exemplars /\ w.capExemplars = m.capExemplars
  BY <1>5, MetricFields
<1> HIDE DEF w
<1>8. MetricGood(w)
  BY <1>6, <1>7 DEF MetricGood
<1>9. d.h.live = h.live + MetricBlocks(w)
  <2> DEFINE a == Bit(n.o # NULL)
  <2> DEFINE b == Bit(u.o # NULL)
  <2> DEFINE c == Bit(d.o # NULL)
  <2>1. a \in Int /\ b \in Int /\ c \in Int /\ h.live \in Int
    BY BitType, HeapNumbers
  <2>2. NameBlocks(m) = 0 /\ NameBlocks(w) = a + b + c
    BY <1>7 DEF NameBlocks, Bit
  <2>3. SideBlocks(w) = SideBlocks(m) /\ BoundBlocks(w) = BoundBlocks(m)
    BY <1>7 DEF SideBlocks, BoundBlocks
  <2>4. d.h.live = g.live + a + b + c
    <3>1. g.live \in Int /\ n.h.live = g.live + a /\ u.h.live = n.h.live + b /\ d.h.live = u.h.live + c
      BY <1>2, <1>3, <1>4, HeapNumbers
    <3> HIDE DEF a, b, c
    <3> QED BY <2>1, <3>1
  <2> HIDE DEF a, b, c
  <2>5. MetricBlocks(w) = MetricBlocks(m) + a + b + c
    BY <1>5, <1>7, <2>1, <2>2, <2>3, MetricBlockTypes DEF MetricBlocks
  <2> QED BY <1>5, <2>1, <2>4, <2>5, MetricBlockTypes
<1>10. r \in Built(h) /\ r.o = w
  BY <1>1, <1>4, <1>5, <1>8, <1>9, BuiltGood, ResultParts
<1>11. Named(h, m, r)
  BY <1>7, <1>8, <1>10 DEF Named
<1> QED BY <1>11 DEF r

\* The bounds and buckets of a metric that had none.
LEMMA DupBucketsMakes ==
  ASSUME NEW h \in Heaps, NEW g \in Heaps, NEW m, MetricGood(m), g.live = h.live + MetricBlocks(m),
         m.bounds = NULL, m.buckets = NULL,
         NEW bounds \in Opt(Text), NEW buckets \in Opt(Text), bounds # NULL => buckets # NULL
  PROVE  LET r == DupBuckets(g, m, bounds, buckets) IN
         /\ r \in Built(h) /\ r.o.pos = m.pos /\ r.o.neg = m.neg
<1> DEFINE r == DupBuckets(g, m, bounds, buckets)
<1> DEFINE n == otlp_dup_str(g, bounds)
<1> DEFINE u == otlp_dup_str(n.h, buckets)
<1> DEFINE x == IF n.st = "OK" /\ u.st = "OK" THEN "OK" ELSE "NOMEM"
<1> DEFINE w == [m EXCEPT !.bounds = n.o, !.buckets = u.o]
<1>1. r = Result(u.h, x, w)
  BY DEF DupBuckets
<1>2. n.h \in Heaps /\ n.h.live = g.live + Bit(n.o # NULL) /\ n.o \in Opt(Text)
      /\ (n.st = "OK" => n.o = bounds)
  <2>1. n.h \in Heaps /\ n.h.live = g.live + Bit(n.o # NULL) /\ (n.o = bounds \/ n.o = NULL)
        /\ (n.st = "OK" => n.o = bounds)
    BY DupStrUses DEF Uses
  <2> QED BY <2>1 DEF Opt
<1> HIDE DEF n
<1>3. u.h \in Heaps /\ u.h.live = n.h.live + Bit(u.o # NULL) /\ u.o \in Opt(Text)
      /\ (u.st = "OK" => u.o = buckets)
  <2>1. u.h \in Heaps /\ u.h.live = n.h.live + Bit(u.o # NULL) /\ (u.o = buckets \/ u.o = NULL)
        /\ (u.st = "OK" => u.o = buckets)
    BY <1>2, DupStrUses DEF Uses
  <2> QED BY <2>1 DEF Opt
<1> HIDE DEF u
<1>5. m \in Metric /\ x \in Statuses /\ (x = "OK" => n.o = bounds /\ u.o = buckets)
  BY <1>2, <1>3 DEF MetricGood, Statuses
<1> HIDE DEF x, r
<1>6. w \in Metric
  BY Zenon, <1>2, <1>3, <1>5 DEF Metric
<1>7. /\ w.name = m.name /\ w.unit = m.unit /\ w.description = m.description
      /\ w.bounds = n.o /\ w.buckets = u.o /\ w.attrs = m.attrs
      /\ w.pos = m.pos /\ w.neg = m.neg
      /\ w.exemplars = m.exemplars /\ w.capExemplars = m.capExemplars
  BY <1>5, MetricFields
<1> HIDE DEF w
<1>8. /\ GoodVec(w.attrs, MaxMetricAttrs) /\ Len(w.exemplars) <= w.capExemplars
      /\ x = "OK" => MetricGood(w)
  BY <1>5, <1>6, <1>7 DEF MetricGood
<1>9. u.h.live = h.live + MetricBlocks(w)
  <2> DEFINE a == Bit(n.o # NULL)
  <2> DEFINE b == Bit(u.o # NULL)
  <2>1. a \in Int /\ b \in Int /\ h.live \in Int
    BY BitType, HeapNumbers
  <2>2. BoundBlocks(m) = 0 /\ BoundBlocks(w) = a + b
    BY <1>7 DEF BoundBlocks, Bit
  <2>3. SideBlocks(w) = SideBlocks(m) /\ NameBlocks(w) = NameBlocks(m)
    BY <1>7 DEF SideBlocks, NameBlocks
  <2>4. u.h.live = g.live + a + b
    <3>1. g.live \in Int /\ n.h.live = g.live + a /\ u.h.live = n.h.live + b
      BY <1>2, <1>3, HeapNumbers
    <3> HIDE DEF a, b
    <3> QED BY <2>1, <3>1
  <2> HIDE DEF a, b
  <2>5. MetricBlocks(w) = MetricBlocks(m) + a + b
    BY <1>5, <1>7, <2>1, <2>2, <2>3, MetricBlockTypes DEF MetricBlocks
  <2> QED BY <1>5, <2>1, <2>4, <2>5, MetricBlockTypes
<1>10. r \in Built(h) /\ r.o = w
  BY <1>1, <1>3, <1>5, <1>6, <1>8, <1>9, BuiltResult, ResultParts
<1> QED BY <1>7, <1>10 DEF r

\* A metric, or none: what a call that makes one gives.
MetricMade(h, r) ==
  /\ r.h \in Heaps
  /\ \/ r.o = NULL /\ r.h.live = h.live
     \/ MetricGood(r.o) /\ r.h.live = h.live + MetricBlocks(r.o)

\* A metric that could not be finished is freed with what it already owned.
LEMMA OrFreedMakes ==
  ASSUME NEW h \in Heaps, NEW r \in Built(h) PROVE MetricMade(h, OrFreed(r))
<1> DEFINE f == otlp_metric_free(r.h, r.o)
<1>1. OrFreed(r) = IF r.st = "OK" THEN r ELSE Result(f, "NULL", NULL)
  BY DEF OrFreed
<1>2. r.h \in Heaps /\ r.o \in Metric /\ r.h.live = h.live + MetricBlocks(r.o)
  BY BuiltParts
<1>3. f \in Heaps /\ f.live = r.h.live - MetricBlocks(r.o)
  BY <1>2, MetricFrees
<1> HIDE DEF f
<1>4. f.live = h.live
  <2>1. h.live \in Int /\ MetricBlocks(r.o) \in Int
    BY <1>2, HeapNumbers, MetricBlockTypes
  <2> QED BY <1>2, <1>3, <2>1
<1> QED BY <1>1, <1>2, <1>3, <1>4, BuiltParts, ResultParts DEF MetricMade

\* A metric that owns nothing but itself.
LEMMA NoMetricGood ==
  ASSUME NEW type \in MetricTypes
  PROVE  LET d == [NoMetric EXCEPT !.type = type] IN
         /\ MetricGood(d) /\ MetricBlocks(d) = 1
         /\ d.name = NULL /\ d.unit = NULL /\ d.description = NULL
         /\ d.bounds = NULL /\ d.buckets = NULL
<1> DEFINE d == [NoMetric EXCEPT !.type = type]
<1>1. /\ NULL \in Opt(Int) /\ NULL \in Opt(Text) /\ NULL \in Opt(Int \X Int)
      /\ NoVec \in Vec /\ GoodVec(NoVec, MaxMetricAttrs) /\ VecBlocks(NoVec) = 0
  BY MetricLimits, NoVecGood DEF Opt, GoodVec
<1>2. 0 \in Int /\ 2 \in Int /\ 0 \in Nat /\ TRUE \in BOOLEAN /\ <<>> \in Seq(Exemplar)
  OBVIOUS
<1>3. NoBuckets \in Buckets /\ NoBuckets.counts = NULL
  BY <1>1 DEF NoBuckets, Buckets
<1>4. "COUNTER" \in MetricTypes
  BY DEF MetricTypes
<1>5. NoMetric \in Metric
  BY Zenon, <1>1, <1>2, <1>3, <1>4 DEF NoMetric, Metric
<1>6. d \in Metric
  BY Zenon, <1>5 DEF Metric
<1>7. /\ NoMetric.name = NULL /\ NoMetric.unit = NULL /\ NoMetric.description = NULL
      /\ NoMetric.bounds = NULL /\ NoMetric.buckets = NULL /\ NoMetric.attrs = NoVec
      /\ NoMetric.pos = NoBuckets /\ NoMetric.neg = NoBuckets
      /\ NoMetric.exemplars = <<>> /\ NoMetric.capExemplars = 0
  BY DEF NoMetric
<1>8. /\ d.name = NULL /\ d.unit = NULL /\ d.description = NULL
      /\ d.bounds = NULL /\ d.buckets = NULL /\ d.attrs = NoVec
      /\ d.pos = NoBuckets /\ d.neg = NoBuckets
      /\ d.exemplars = <<>> /\ d.capExemplars = 0
  BY <1>5, <1>7, MetricFields
<1> HIDE DEF d
<1>9. MetricGood(d)
  BY <1>1, <1>6, <1>8 DEF MetricGood
<1>10. NameBlocks(d) = 0 /\ BoundBlocks(d) = 0 /\ SideBlocks(d) = 0 /\ Bit(d.capExemplars > 0) = 0
  BY <1>3, <1>8 DEF NameBlocks, BoundBlocks, SideBlocks, Bit
<1>11. MetricBlocks(d) = 1
  BY <1>1, <1>8, <1>10 DEF MetricBlocks
<1> QED BY <1>8, <1>9, <1>11 DEF d

\* otlp_metric_create makes a metric or leaves nothing behind.
LEMMA MetricCreates ==
  ASSUME NEW h \in Heaps, NEW type \in MetricTypes, NEW name \in Opt(Text), NEW unit \in Opt(Text),
         NEW description \in Opt(Text), NEW bounds \in Opt(Text)
  PROVE  MetricMade(h, otlp_metric_create(h, type, name, unit, description, bounds))
<1> DEFINE r == otlp_metric_create(h, type, name, unit, description, bounds)
<1> DEFINE g == otlp_malloc(h)
<1> DEFINE m == [NoMetric EXCEPT !.type = type]
<1> DEFINE text == DupTexts(g, m, OrEmpty(name), OrEmpty(unit), OrEmpty(description))
<1> DEFINE zeros == [i \in 1..Len(bounds) + 1 |-> 0]
<1> DEFINE hist == DupBuckets(text.h, text.o, bounds, zeros)
<1> DEFINE f == otlp_free(g, 1)
<1> DEFINE Plain == text.st # "OK" \/ type # "HISTOGRAM" \/ OrEmpty(bounds) = <<>>
<1>1. r = IF ~ CanAlloc(h) THEN Result(g, "NULL", NULL)
          ELSE IF \E s \in {name, unit, description} : ~ otlp_str_is_utf8(s)
               THEN Result(f, "NULL", NULL)
          ELSE OrFreed(IF Plain THEN text ELSE hist)
  BY DEF otlp_metric_create
<1>2. g \in Heaps /\ g.live = h.live + Bit(CanAlloc(h)) /\ h.live \in Int /\ 1 \in Int
  BY MallocUses, HeapNumbers
<1>3. /\ MetricGood(m) /\ MetricBlocks(m) = 1
      /\ m.name = NULL /\ m.unit = NULL /\ m.description = NULL
      /\ m.bounds = NULL /\ m.buckets = NULL
  BY NoMetricGood
<1> HIDE DEF g, m
<1>4. f \in Heaps /\ f.live = g.live - 1
  BY <1>2, FreeUses
<1> HIDE DEF f, r
<1>5. CASE ~ CanAlloc(h)
  <2>1. g.live = h.live /\ r = Result(g, "NULL", NULL)
    BY <1>1, <1>2, <1>5 DEF Bit
  <2>2. MetricMade(h, r)
    BY <1>2, <2>1, ResultParts DEF MetricMade
  <2> QED BY <2>2 DEF r
<1>6. CASE CanAlloc(h) /\ \E s \in {name, unit, description} : ~ otlp_str_is_utf8(s)
  <2>1. f.live = h.live /\ r = Result(f, "NULL", NULL)
    BY <1>1, <1>2, <1>4, <1>6 DEF Bit
  <2>2. MetricMade(h, r)
    BY <1>4, <2>1, ResultParts DEF MetricMade
  <2> QED BY <2>2 DEF r
<1>7. CASE CanAlloc(h) /\ ~ \E s \in {name, unit, description} : ~ otlp_str_is_utf8(s)
  <2>1. g.live = h.live + MetricBlocks(m)
    BY <1>2, <1>3, <1>7 DEF Bit
  <2>2. OrEmpty(name) \in Opt(Text) /\ OrEmpty(unit) \in Opt(Text) /\ OrEmpty(description) \in Opt(Text)
    BY TextFacts
  <2>3. text \in Built(h) /\ MetricGood(text.o) /\ text.o.bounds = NULL /\ text.o.buckets = NULL
    <3> DEFINE a == OrEmpty(name)
    <3> DEFINE b == OrEmpty(unit)
    <3> DEFINE c == OrEmpty(description)
    <3>1. a \in Opt(Text) /\ b \in Opt(Text) /\ c \in Opt(Text)
      BY <2>2
    <3> DEFINE t == DupTexts(g, m, a, b, c)
    <3> HIDE DEF a, b, c
    <3>2. Named(h, m, t)
      BY <1>2, <1>3, <2>1, <3>1, DupTextsMakes
    <3>3. t = text
      BY DEF a, b, c
    <3> HIDE DEF t, text
    <3> QED BY <1>3, <3>2, <3>3 DEF Named
  <2> HIDE DEF text
  <2>4. text.h \in Heaps /\ text.h.live = h.live + MetricBlocks(text.o)
    BY <2>3, BuiltParts
  <2>5. ASSUME ~ Plain PROVE hist \in Built(h)
    <3>1. bounds \in Text /\ bounds # NULL
      BY <2>5, TextFacts DEF OrEmpty
    <3>2. zeros \in Text
      <4>1. Len(bounds) + 1 \in Nat
        BY <3>1 DEF Text
      <4> QED BY <4>1 DEF Text
    <3>3. zeros \in Opt(Text) /\ zeros # NULL
      BY <3>2, TextFacts
    <3> HIDE DEF zeros
    <3> QED BY <2>3, <2>4, <3>3, DupBucketsMakes
  <2> DEFINE q == IF Plain THEN text ELSE hist
  <2>6. q \in Built(h)
    BY <2>3, <2>5
  <2>7. r = OrFreed(q)
    BY <1>1, <1>7
  <2> HIDE DEF q
  <2>8. MetricMade(h, r)
    BY <2>6, <2>7, OrFreedMakes
  <2> QED BY <2>8 DEF r
<1> QED BY <1>5, <1>6, <1>7

\* What is still to be copied into a clone, from the last step back.
NoNeg(m) == m.neg = NoBuckets
NoSides(m) == m.pos = NoBuckets /\ NoNeg(m)
NoBounds(m) == m.bounds = NULL /\ m.buckets = NULL /\ NoSides(m)
NoExemplars(m) == m.exemplars = <<>> /\ m.capExemplars = 0 /\ NoBounds(m)

\* The exemplars of a clone.
LEMMA CloneExemplarsMakes ==
  ASSUME NEW h \in Heaps, NEW r \in Built(h), r.st = "OK" => NoExemplars(r.o), NEW src, MetricGood(src)
  PROVE  LET c == CloneExemplars(r, src) IN c \in Built(h) /\ (c.st = "OK" => NoBounds(c.o))
<1> DEFINE c == CloneExemplars(r, src)
<1> DEFINE g == otlp_malloc(r.h)
<1> DEFINE n == Len(src.exemplars)
<1> DEFINE u == r.o
<1> DEFINE d == [u EXCEPT !.exemplars = src.exemplars, !.capExemplars = n]
<1>1. c = IF r.st # "OK" \/ src.exemplars = <<>> THEN r
          ELSE IF CanAlloc(r.h) THEN Result(g, "OK", d) ELSE Result(g, "NOMEM", u)
  BY DEF CloneExemplars
<1>2. src.exemplars \in Seq(Exemplar) /\ n \in Nat /\ r.h \in Heaps
  BY MetricFields, BuiltParts DEF MetricGood
<1>3. g \in Heaps /\ g.live = r.h.live + Bit(CanAlloc(r.h)) /\ r.h.live \in Int
  BY <1>2, MallocUses, HeapNumbers
<1> HIDE DEF g, c
<1>4. CASE r.st # "OK" \/ src.exemplars = <<>>
  <2>1. c = r
    BY <1>1, <1>4
  <2>2. c \in Built(h) /\ (c.st = "OK" => NoBounds(c.o))
    BY <2>1 DEF NoExemplars
  <2> QED BY <2>2 DEF c
<1>5. CASE r.st = "OK" /\ src.exemplars # <<>>
  <2>1. MetricGood(u) /\ NoExemplars(u) /\ r.h.live = h.live + MetricBlocks(u) /\ u \in Metric
    BY <1>5, BuiltParts
  <2> HIDE DEF u
  <2>2. CASE ~ CanAlloc(r.h)
    <3>1. g.live = h.live + MetricBlocks(u)
      BY <1>3, <2>1, <2>2 DEF Bit
    <3>2. c = Result(g, "NOMEM", u)
      BY <1>1, <1>5, <2>2
    <3>3. c \in Built(h) /\ c.st # "OK"
      BY <1>3, <2>1, <3>1, <3>2, BuiltGood, ResultParts DEF Statuses
    <3> QED BY <3>3 DEF c
  <2>3. CASE CanAlloc(r.h)
    <3>1. n > 0
      BY <1>2, <1>5
    <3>2. Len(src.exemplars) <= n
      BY <1>2
    <3> HIDE DEF n
    <3>3. /\ MetricGood(d)
          /\ MetricBlocks(d) = MetricBlocks(u) + Bit(n > 0) - Bit(u.capExemplars > 0)
      BY <1>2, <2>1, <3>2, MetricWithExemplars
    <3>4. NoBounds(d)
      BY <2>1, MetricFields DEF NoExemplars, NoBounds, NoSides, NoNeg
    <3> HIDE DEF d
    <3>5. Bit(n > 0) = 1 /\ Bit(u.capExemplars > 0) = 0
      BY <1>2, <2>1, <3>1 DEF Bit, NoExemplars
    <3>6. g.live = h.live + MetricBlocks(d)
      <4>1. h.live \in Int /\ MetricBlocks(u) \in Int /\ g.live = r.h.live + 1
        BY <1>3, <2>1, <2>3, HeapNumbers, MetricBlockTypes DEF Bit
      <4> QED BY <2>1, <3>3, <3>5, <4>1
    <3>7. c = Result(g, "OK", d)
      BY <1>1, <1>5, <2>3
    <3>8. c \in Built(h) /\ c.o = d
      BY <1>3, <3>3, <3>6, <3>7, BuiltGood, ResultParts DEF Statuses
    <3> QED BY <3>4, <3>8 DEF c
  <2> QED BY <2>2, <2>3
<1> QED BY <1>4, <1>5

\* The bounds and buckets of a clone.
LEMMA CloneBucketsMakes ==
  ASSUME NEW h \in Heaps, NEW r \in Built(h), r.st = "OK" => NoBounds(r.o), NEW src, MetricGood(src)
  PROVE  LET c == CloneBuckets(r, src) IN c \in Built(h) /\ (c.st = "OK" => NoSides(c.o))
<1> DEFINE c == CloneBuckets(r, src)
<1> DEFINE q == DupBuckets(r.h, r.o, src.bounds, src.buckets)
<1>1. c = IF r.st # "OK" \/ src.bounds = NULL THEN r ELSE q
  BY DEF CloneBuckets
<1> HIDE DEF c
<1>2. CASE r.st # "OK" \/ src.bounds = NULL
  <2>1. c = r
    BY <1>1, <1>2
  <2>2. c \in Built(h) /\ (c.st = "OK" => NoSides(c.o))
    BY <2>1 DEF NoBounds
  <2> QED BY <2>2 DEF c
<1>3. CASE r.st = "OK" /\ src.bounds # NULL
  <2> DEFINE u == r.o
  <2> DEFINE g == r.h
  <2>1. MetricGood(u) /\ NoBounds(u) /\ g \in Heaps /\ g.live = h.live + MetricBlocks(u)
    BY <1>3, BuiltParts
  <2>2. src.bounds \in Opt(Text) /\ src.buckets \in Opt(Text) /\ src.buckets # NULL
    BY <1>3, MetricFields DEF MetricGood
  <2>3. c = DupBuckets(g, u, src.bounds, src.buckets)
    BY <1>1, <1>3
  <2> HIDE DEF u, g
  <2>4. u.bounds = NULL /\ u.buckets = NULL /\ NoSides(u)
    BY <2>1 DEF NoBounds
  <2>5. c \in Built(h) /\ c.o.pos = u.pos /\ c.o.neg = u.neg
    BY <2>1, <2>2, <2>3, <2>4, DupBucketsMakes
  <2>6. NoSides(c.o)
    BY <2>4, <2>5 DEF NoSides, NoNeg
  <2> QED BY <2>5, <2>6 DEF c
<1> QED BY <1>2, <1>3

\* One side of a clone.
LEMMA CloneSideMakes ==
  ASSUME NEW h \in Heaps, NEW r \in Built(h), NEW which \in {"pos", "neg"}, NEW b \in Buckets,
         r.st = "OK" => r.o[which] = NoBuckets
  PROVE  LET c == CloneSide(r, which, b) IN
         c \in Built(h) /\ (c.st = "OK" => r.st = "OK" /\ (which = "pos" => c.o.neg = r.o.neg))
<1> DEFINE c == CloneSide(r, which, b)
<1> DEFINE u == r.o
<1> DEFINE g == otlp_malloc(r.h)
<1> DEFINE e == [u EXCEPT ![which].offset = b.offset]
<1> DEFINE d == [u EXCEPT ![which] = b]
<1>1. c = IF r.st # "OK" THEN r
          ELSE IF b.n = 0 \/ b.counts = NULL THEN Result(r.h, "OK", e)
          ELSE IF CanAlloc(r.h) THEN Result(g, "OK", d) ELSE Result(g, "NOMEM", e)
  BY DEF CloneSide
<1> HIDE DEF c
<1>2. CASE r.st # "OK"
  <2>1. c \in Built(h) /\ c.st # "OK"
    BY <1>1, <1>2
  <2> QED BY <2>1 DEF c
<1>3. CASE r.st = "OK"
  <2>1. MetricGood(u) /\ u \in Metric /\ r.h \in Heaps /\ r.h.live = h.live + MetricBlocks(u)
        /\ u[which] = NoBuckets
    BY <1>3, BuiltParts
  <2> HIDE DEF u
  <2>2. g \in Heaps /\ g.live = r.h.live + Bit(CanAlloc(r.h)) /\ r.h.live \in Int
        /\ h.live \in Int /\ MetricBlocks(u) \in Int
    BY <2>1, MallocUses, HeapNumbers, MetricBlockTypes
  <2> HIDE DEF g
  <2> DEFINE x == [NoBuckets EXCEPT !.offset = b.offset]
  <2>3. x \in Buckets /\ x.counts = NULL /\ NoBuckets.counts = NULL /\ b.offset \in Int
    <3>1. NULL \in Opt(Text)
      BY DEF Opt
    <3> QED BY <3>1 DEF NoBuckets, Buckets
  <2>4. e = [u EXCEPT ![which] = x]
    BY <2>1, MetricFields
  <2> HIDE DEF x
  <2>5. MetricGood(e) /\ MetricBlocks(e) = MetricBlocks(u) /\ (which = "pos" => e.neg = u.neg)
    <3> DEFINE w == [u EXCEPT ![which] = x]
    <3>1. MetricGood(w) /\ MetricBlocks(w) = MetricBlocks(u) + Bit(x.counts # NULL)
                                              - Bit(u[which].counts # NULL)
      BY <2>1, <2>3, MetricWithSide
    <3>2. which = "pos" => w.neg = u.neg
      BY <2>1, MetricFields
    <3>3. w = e
      BY <2>4
    <3> HIDE DEF w, e
    <3>4. Bit(x.counts # NULL) = 0 /\ Bit(u[which].counts # NULL) = 0
      BY <2>1, <2>3 DEF Bit
    <3>5. MetricBlocks(w) = MetricBlocks(u)
      BY <2>2, <3>1, <3>4
    <3> QED BY <3>1, <3>2, <3>3, <3>5
  <2>6. MetricGood(d) /\ (which = "pos" => d.neg = u.neg)
        /\ MetricBlocks(d) = MetricBlocks(u) + Bit(b.counts # NULL) - Bit(u[which].counts # NULL)
    BY <2>1, MetricFields, MetricWithSide
  <2> HIDE DEF d, e
  <2>7. CASE b.n = 0 \/ b.counts = NULL
    <3>1. c = Result(r.h, "OK", e)
      BY <1>1, <1>3, <2>7
    <3>2. r.h.live = h.live + MetricBlocks(e)
      BY <2>1, <2>5
    <3>3. c \in Built(h) /\ c.o = e
      BY <2>1, <2>5, <3>1, <3>2, BuiltGood, ResultParts DEF Statuses
    <3> QED BY <1>3, <2>5, <3>3 DEF c, u
  <2>8. CASE b.n # 0 /\ b.counts # NULL /\ CanAlloc(r.h)
    <3>1. c = Result(g, "OK", d)
      BY <1>1, <1>3, <2>8
    <3>2. g.live = h.live + MetricBlocks(d)
      <4>1. Bit(CanAlloc(r.h)) = 1 /\ Bit(b.counts # NULL) = 1 /\ Bit(u[which].counts # NULL) = 0
        BY <2>1, <2>3, <2>8 DEF Bit
      <4>2. MetricBlocks(d) = MetricBlocks(u) + 1
        BY <2>2, <2>6, <4>1
      <4> QED BY <2>1, <2>2, <4>1, <4>2
    <3>3. c \in Built(h) /\ c.o = d
      BY <2>2, <2>6, <3>1, <3>2, BuiltGood, ResultParts DEF Statuses
    <3> QED BY <1>3, <2>6, <3>3 DEF c, u
  <2>9. CASE b.n # 0 /\ b.counts # NULL /\ ~ CanAlloc(r.h)
    <3>1. c = Result(g, "NOMEM", e)
      BY <1>1, <1>3, <2>9
    <3>2. g.live = h.live + MetricBlocks(e)
      BY <2>1, <2>2, <2>5, <2>9 DEF Bit
    <3>3. c \in Built(h) /\ c.st # "OK"
      BY <2>2, <2>5, <3>1, <3>2, BuiltGood, ResultParts DEF Statuses
    <3> QED BY <3>3 DEF c
  <2> QED BY <2>7, <2>8, <2>9
<1> QED BY <1>2, <1>3

\* A clone starts as a copy of the plain fields.
Flat(m) ==
  [m EXCEPT !.name = NULL, !.unit = NULL, !.description = NULL,
            !.bounds = NULL, !.buckets = NULL,
            !.pos = NoBuckets, !.neg = NoBuckets, !.attrs = NoVec,
            !.exemplars = <<>>, !.capExemplars = 0]

\* The flat copy a clone starts from shares no block with its source.
LEMMA FlatGood ==
  ASSUME NEW m \in Metric
  PROVE  /\ MetricGood(Flat(m)) /\ MetricBlocks(Flat(m)) = 1
         /\ Flat(m).name = NULL /\ Flat(m).unit = NULL /\ Flat(m).description = NULL
         /\ Flat(m).attrs = NoVec /\ NoExemplars(Flat(m))
<1> DEFINE d == Flat(m)
<1>1. /\ NULL \in Opt(Text) /\ NoVec \in Vec /\ GoodVec(NoVec, MaxMetricAttrs) /\ VecBlocks(NoVec) = 0
  BY MetricLimits, NoVecGood DEF Opt, GoodVec
<1>2. 0 \in Nat /\ <<>> \in Seq(Exemplar)
  OBVIOUS
<1>3. NoBuckets \in Buckets /\ NoBuckets.counts = NULL
  BY <1>1 DEF NoBuckets, Buckets
<1>4. d \in Metric
  BY Zenon, <1>1, <1>2, <1>3 DEF Flat, Metric
<1>5. /\ d.name = NULL /\ d.unit = NULL /\ d.description = NULL
      /\ d.bounds = NULL /\ d.buckets = NULL /\ d.attrs = NoVec
      /\ d.pos = NoBuckets /\ d.neg = NoBuckets
      /\ d.exemplars = <<>> /\ d.capExemplars = 0
  BY MetricFields DEF Flat
<1> HIDE DEF d
<1>6. MetricGood(d)
  BY <1>1, <1>4, <1>5 DEF MetricGood
<1>7. NameBlocks(d) = 0 /\ BoundBlocks(d) = 0 /\ SideBlocks(d) = 0 /\ Bit(d.capExemplars > 0) = 0
  BY <1>3, <1>5 DEF NameBlocks, BoundBlocks, SideBlocks, Bit
<1>8. MetricBlocks(d) = 1
  BY <1>1, <1>5, <1>7 DEF MetricBlocks
<1>9. NoExemplars(d)
  BY <1>5 DEF NoExemplars, NoBounds, NoSides, NoNeg
<1> QED BY <1>5, <1>6, <1>8, <1>9 DEF d

\* The attributes of a clone that had none.
LEMMA MetricWithAttrs ==
  ASSUME NEW m, MetricGood(m), m.attrs = NoVec, NEW v, GoodVec(v, MaxMetricAttrs)
  PROVE  LET d == [m EXCEPT !.attrs = v] IN
         /\ MetricGood(d) /\ MetricBlocks(d) = MetricBlocks(m) + VecBlocks(v)
         /\ d.bounds = m.bounds /\ d.buckets = m.buckets /\ d.pos = m.pos /\ d.neg = m.neg
         /\ d.exemplars = m.exemplars /\ d.capExemplars = m.capExemplars
<1> DEFINE d == [m EXCEPT !.attrs = v]
<1>1. m \in Metric /\ v \in Vec
  BY DEF MetricGood, GoodVec
<1>2. d \in Metric
  BY Zenon, <1>1 DEF Metric
<1>3. /\ d.name = m.name /\ d.unit = m.unit /\ d.description = m.description
      /\ d.bounds = m.bounds /\ d.buckets = m.buckets /\ d.attrs = v
      /\ d.pos = m.pos /\ d.neg = m.neg
      /\ d.exemplars = m.exemplars /\ d.capExemplars = m.capExemplars
  BY <1>1, MetricFields
<1> HIDE DEF d
<1>4. MetricGood(d)
  BY <1>2, <1>3 DEF MetricGood
<1>5. /\ NameBlocks(d) = NameBlocks(m) /\ SideBlocks(d) = SideBlocks(m)
      /\ BoundBlocks(d) = BoundBlocks(m)
  BY <1>3 DEF NameBlocks, SideBlocks, BoundBlocks
<1>6. VecBlocks(m.attrs) = 0 /\ VecBlocks(v) \in Int
  BY <1>1, MetricLimits, NoVecGood, VecBlocksType
<1>7. MetricBlocks(d) = MetricBlocks(m) + VecBlocks(v)
  BY <1>1, <1>3, <1>5, <1>6, MetricBlockTypes DEF MetricBlocks
<1> QED BY <1>3, <1>4, <1>7 DEF d

\* A clone is a good metric, or there is none and nothing more is in use.
LEMMA MetricClones ==
  ASSUME NEW h \in Heaps, NEW src, MetricGood(src)
  PROVE  MetricMade(h, otlp_metric_clone(h, src))
<1> DEFINE r == otlp_metric_clone(h, src)
<1> DEFINE g == otlp_malloc(h)
<1> DEFINE m == Flat(src)
<1> DEFINE text == DupTexts(g, m, src.name, src.unit, src.description)
<1> DEFINE vec == otlp_attr_vec_copy(text.h, src.attrs)
<1> DEFINE w == [text.o EXCEPT !.attrs = vec.o]
<1> DEFINE attr == IF text.st # "OK" THEN text ELSE Result(vec.h, vec.st, w)
<1> DEFINE ex == CloneExemplars(attr, src)
<1> DEFINE hist == CloneBuckets(ex, src)
<1> DEFINE p == CloneSide(hist, "pos", src.pos)
<1> DEFINE n == CloneSide(p, "neg", src.neg)
<1>1. r = IF ~ CanAlloc(h) THEN Result(g, "NULL", NULL) ELSE OrFreed(n)
  BY DEF otlp_metric_clone, Flat
<1>2. /\ src \in Metric /\ src.name \in Opt(Text) /\ src.unit \in Opt(Text)
      /\ src.description \in Opt(Text) /\ src.pos \in Buckets /\ src.neg \in Buckets
      /\ GoodVec(src.attrs, MaxMetricAttrs)
  BY MetricFields DEF MetricGood
<1>3. g \in Heaps /\ g.live = h.live + Bit(CanAlloc(h)) /\ h.live \in Int
  BY MallocUses, HeapNumbers
<1>4. /\ MetricGood(m) /\ MetricBlocks(m) = 1
      /\ m.name = NULL /\ m.unit = NULL /\ m.description = NULL
      /\ m.attrs = NoVec /\ NoExemplars(m)
  BY <1>2, FlatGood
<1> HIDE DEF g, m, r
<1>5. CASE ~ CanAlloc(h)
  <2>1. g.live = h.live /\ r = Result(g, "NULL", NULL)
    BY <1>1, <1>3, <1>5 DEF Bit
  <2>2. MetricMade(h, r)
    BY <1>3, <2>1, ResultParts DEF MetricMade
  <2> QED BY <2>2 DEF r
<1>6. CASE CanAlloc(h)
  <2>1. g.live = h.live + MetricBlocks(m)
    BY <1>3, <1>4, <1>6 DEF Bit
  <2>2. Named(h, m, text)
    BY <1>2, <1>3, <1>4, <2>1, DupTextsMakes
  <2> HIDE DEF text
  <2>3. /\ text \in Built(h) /\ text.h \in Heaps /\ MetricGood(text.o) /\ text.o.attrs = NoVec
        /\ text.h.live = h.live + MetricBlocks(text.o) /\ NoExemplars(text.o)
    <3>1. text \in Built(h) /\ text.h \in Heaps /\ text.h.live = h.live + MetricBlocks(text.o)
      BY <2>2, BuiltParts DEF Named
    <3> QED BY <1>4, <2>2, <3>1 DEF Named, NoExemplars, NoBounds, NoSides, NoNeg
  <2>4. /\ vec.h \in Heaps /\ vec.st \in Statuses /\ GoodVec(vec.o, MaxMetricAttrs)
        /\ vec.h.live = text.h.live + VecBlocks(vec.o)
    BY <1>2, <2>3, MetricLimits, VecCopies
  <2> HIDE DEF vec
  <2>5. attr \in Built(h) /\ (attr.st = "OK" => NoExemplars(attr.o))
    <3>1. MetricGood(w) /\ MetricBlocks(w) = MetricBlocks(text.o) + VecBlocks(vec.o) /\ NoExemplars(w)
      <4> DEFINE t == text.o
      <4> DEFINE v == vec.o
      <4> DEFINE y == [t EXCEPT !.attrs = v]
      <4>1. MetricGood(t) /\ t.attrs = NoVec /\ GoodVec(v, MaxMetricAttrs) /\ NoExemplars(t)
        BY <2>3, <2>4
      <4> HIDE DEF t, v
      <4>2. /\ MetricGood(y) /\ MetricBlocks(y) = MetricBlocks(t) + VecBlocks(v)
            /\ y.bounds = t.bounds /\ y.buckets = t.buckets /\ y.pos = t.pos /\ y.neg = t.neg
            /\ y.exemplars = t.exemplars /\ y.capExemplars = t.capExemplars
        BY <4>1, MetricWithAttrs
      <4>3. NoExemplars(y)
        BY <4>1, <4>2 DEF NoExemplars, NoBounds, NoSides, NoNeg
      <4> QED BY <4>2, <4>3 DEF t, v, y
    <3> HIDE DEF w
    <3>2. vec.h.live = h.live + MetricBlocks(w)
      <4>1. MetricBlocks(text.o) \in Int /\ VecBlocks(vec.o) \in Int
        BY <2>3, <2>4, MetricBlockTypes, VecBlocksType DEF MetricGood, GoodVec
      <4> QED BY <1>3, <2>3, <2>4, <3>1, <4>1
    <3>3. Result(vec.h, vec.st, w) \in Built(h)
      BY <2>4, <3>1, <3>2, BuiltGood
    <3> QED BY <2>3, <3>1, <3>3, ResultParts
  <2> HIDE DEF attr
  <2>6. ex \in Built(h) /\ (ex.st = "OK" => NoBounds(ex.o))
    BY <2>5, CloneExemplarsMakes
  <2> HIDE DEF ex
  <2>7. hist \in Built(h) /\ (hist.st = "OK" => NoSides(hist.o))
    BY <2>6, CloneBucketsMakes
  <2> HIDE DEF hist
  <2>8. p \in Built(h) /\ (p.st = "OK" => p.o.neg = NoBuckets)
    <3>1. hist.st = "OK" => hist.o["pos"] = NoBuckets /\ hist.o.neg = NoBuckets
      BY <2>7 DEF NoSides, NoNeg
    <3>2. p \in Built(h) /\ (p.st = "OK" => hist.st = "OK" /\ p.o.neg = hist.o.neg)
      BY <1>2, <2>7, <3>1, CloneSideMakes
    <3> QED BY <3>1, <3>2
  <2> HIDE DEF p
  <2>9. n \in Built(h)
    <3>1. p.st = "OK" => p.o["neg"] = NoBuckets
      BY <2>8
    <3> QED BY <1>2, <2>8, <3>1, CloneSideMakes
  <2> HIDE DEF n
  <2>10. MetricMade(h, r)
    BY <1>1, <1>6, <2>9, OrFreedMakes
  <2> QED BY <2>10 DEF r
<1> QED BY <1>5, <1>6

---------------------------------------------------------------------------
(* Log records *)

\* A log record whose vector is good, and what it owns.
LogGood(l) == l \in Log /\ GoodVec(l.attrs, MaxLogAttrs)

LogBlocks(l) == 1 + Bit(l.text # NULL) + Bit(l.body # NULL) + VecBlocks(l.attrs)

\* The parts of a log record.
LEMMA LogFields ==
  /\ MaxLogAttrs \in Nat
  /\ \A l \in Log :
        /\ l # NULL /\ l.text \in Opt(Text) /\ l.body \in Opt(Text) /\ l.attrs \in Vec
        /\ DOMAIN l = {"severity", "text", "body", "time", "traceId", "spanId", "attrs"}
BY LogAssumption DEF Log

\* The numbers of blocks.
LEMMA LogBlockTypes ==
  ASSUME NEW l \in Log
  PROVE  /\ Bit(l.text # NULL) \in Int /\ Bit(l.body # NULL) \in Int
         /\ VecBlocks(l.attrs) \in Int /\ LogBlocks(l) \in Int
<1>1. Bit(l.text # NULL) \in Int /\ Bit(l.body # NULL) \in Int /\ VecBlocks(l.attrs) \in Int
  BY BitType, LogFields, VecBlocksType
<1> QED BY <1>1 DEF LogBlocks

\* A log record is freed with all it owns.
LEMMA LogFrees ==
  ASSUME NEW h \in Heaps, NEW l \in Log
  PROVE  /\ otlp_log_record_free(h, l) \in Heaps
         /\ otlp_log_record_free(h, l).live = h.live - LogBlocks(l)
<1> DEFINE a == Bit(l.text # NULL) + Bit(l.body # NULL)
<1> DEFINE g == otlp_free(h, a)
<1> DEFINE k == otlp_attr_vec_free(g, l.attrs)
<1>1. otlp_log_record_free(h, l) = otlp_free(k, 1)
  BY DEF otlp_log_record_free
<1>2. a \in Int /\ VecBlocks(l.attrs) \in Int /\ h.live \in Int /\ l.attrs \in Vec /\ 1 \in Int
  BY LogBlockTypes, LogFields, HeapNumbers
<1>3. LogBlocks(l) = a + VecBlocks(l.attrs) + 1
  BY LogBlockTypes DEF LogBlocks
<1> HIDE DEF a
<1>5. g \in Heaps /\ g.live = h.live - a
  BY <1>2, FreeUses
<1> HIDE DEF g
<1>6. k \in Heaps /\ k.live = g.live - VecBlocks(l.attrs)
  BY <1>2, <1>5, VecFrees
<1> HIDE DEF k
<1>7. otlp_free(k, 1) \in Heaps /\ otlp_free(k, 1).live = k.live - 1
  BY <1>2, <1>6, FreeUses
<1> QED BY <1>1, <1>2, <1>3, <1>5, <1>6, <1>7

\* A call on a log record: it stays good and what it owns is accounted for.
LogChanged(h, l, r) ==
  /\ r.h \in Heaps /\ r.st \in Statuses /\ LogGood(r.o)
  /\ r.h.live = h.live + LogBlocks(r.o) - LogBlocks(l)

\* A result whose blocks balance is a call on the log record.
LEMMA LogChangedResult ==
  ASSUME NEW h, NEW l, NEW g \in Heaps, NEW x \in Statuses, NEW d, LogGood(d),
         g.live = h.live + LogBlocks(d) - LogBlocks(l)
  PROVE  LogChanged(h, l, Result(g, x, d))
BY ResultParts DEF LogChanged

\* Nothing happened, or to plain fields only.
LEMMA LogPlain ==
  ASSUME NEW h \in Heaps, NEW l, LogGood(l), NEW d \in Log,
         d.text = l.text, d.body = l.body, d.attrs = l.attrs, NEW x \in Statuses
  PROVE  LogChanged(h, l, Result(h, x, d))
<1>1. LogGood(d) /\ LogBlocks(d) = LogBlocks(l)
  BY DEF LogGood, LogBlocks
<1>2. h.live \in Int /\ LogBlocks(l) \in Int
  BY HeapNumbers, LogBlockTypes DEF LogGood
<1>3. h.live = h.live + LogBlocks(d) - LogBlocks(l)
  BY <1>1, <1>2
<1> QED BY <1>1, <1>3, LogChangedResult

\* The time and the identifiers.
LEMMA LogSetTimestampChanges ==
  ASSUME NEW h \in Heaps, NEW l, LogGood(l), NEW t \in Opt(Int)
  PROVE  LET r == otlp_log_record_set_timestamp(h, l, t) IN LogChanged(h, l, r) /\ r.st = "OK"
<1> DEFINE d == [l EXCEPT !.time = t]
<1>1. l \in Log
  BY DEF LogGood
<1>2. d \in Log
  BY Zenon, <1>1 DEF Log
<1>3. d.text = l.text /\ d.body = l.body /\ d.attrs = l.attrs
  BY <1>1, LogFields
<1>4. otlp_log_record_set_timestamp(h, l, t) = Result(h, "OK", d)
  BY DEF otlp_log_record_set_timestamp
<1> HIDE DEF d
<1> QED BY <1>2, <1>3, <1>4, LogPlain, ResultParts DEF Statuses

\* otlp_log_record_set_trace_id and otlp_log_record_set_span_id.
LEMMA LogSetIdChanges ==
  ASSUME NEW h \in Heaps, NEW l, LogGood(l), NEW which \in {"traceId", "spanId"}, NEW id \in Opt(Int)
  PROVE  LET r == otlp_log_record_set_id(h, l, which, id) IN
         LogChanged(h, l, r) /\ (r.st # "OK" => r.o = l)
<1> DEFINE r == otlp_log_record_set_id(h, l, which, id)
<1> DEFINE d == [l EXCEPT ![which] = id]
<1>1. l \in Log
  BY DEF LogGood
<1>2. d \in Log
  <2>1. CASE which = "traceId"
    <3>1. [l EXCEPT !.traceId = id] \in Log
      BY Zenon, <1>1 DEF Log
    <3> QED BY <2>1, <3>1
  <2>2. CASE which = "spanId"
    <3>1. [l EXCEPT !.spanId = id] \in Log
      BY Zenon, <1>1 DEF Log
    <3> QED BY <2>2, <3>1
  <2> QED BY <2>1, <2>2
<1>3. d.text = l.text /\ d.body = l.body /\ d.attrs = l.attrs
  BY <1>1, LogFields
<1>4. (\E x \in {"NULL", "INVALID_ARGUMENT"} : r = Result(h, x, l)) \/ r = Result(h, "OK", d)
  BY DEF otlp_log_record_set_id
<1> HIDE DEF d, r
<1>5. LogChanged(h, l, r) /\ (r.st # "OK" => r.o = l)
  BY <1>1, <1>2, <1>3, <1>4, LogPlain, ResultParts DEF Statuses
<1> QED BY <1>5 DEF r

\* The severity text: whatever becomes of the new one, the old one is gone.
LEMMA LogSetSeverityTextChanges ==
  ASSUME NEW h \in Heaps, NEW l, LogGood(l), NEW text \in Opt(Text)
  PROVE  LogChanged(h, l, otlp_log_record_set_severity_text(h, l, text))
<1> DEFINE r == otlp_log_record_set_severity_text(h, l, text)
<1> DEFINE had == Bit(l.text # NULL)
<1> DEFINE g == otlp_free(h, had)
<1> DEFINE n == otlp_dup_str(g, OrEmpty(text))
<1> DEFINE d == [l EXCEPT !.text = n.o]
<1> DEFINE x == IF text = NULL THEN "OK" ELSE n.st
<1>1. r = IF ~ otlp_str_is_utf8(text) THEN Result(h, "UTF8", l) ELSE Result(n.h, x, d)
  BY DEF otlp_log_record_set_severity_text
<1>2. l \in Log /\ had \in Int /\ h.live \in Int
  BY LogBlockTypes, HeapNumbers DEF LogGood
<1>3. had = Bit(l.text # NULL)
  OBVIOUS
<1> HIDE DEF had
<1>4. g \in Heaps /\ g.live = h.live - had
  BY <1>2, FreeUses
<1> HIDE DEF g
<1>5. /\ n.h \in Heaps /\ n.h.live = g.live + Bit(n.o # NULL) /\ n.o \in Opt(Text)
      /\ n.st \in Statuses
  <2>1. /\ n.h \in Heaps /\ n.h.live = g.live + Bit(n.o # NULL)
        /\ n.st \in Statuses /\ (n.o = OrEmpty(text) \/ n.o = NULL)
    BY <1>4, DupStrUses DEF Uses
  <2> QED BY <2>1, TextFacts
<1> HIDE DEF n
<1>6. x \in Statuses
  BY <1>5 DEF Statuses
<1>7. d \in Log
  BY Zenon, <1>2, <1>5 DEF Log
<1>8. d.text = n.o /\ d.body = l.body /\ d.attrs = l.attrs
  BY <1>2, LogFields
<1> HIDE DEF d, x, r
<1>9. LogGood(d)
  BY <1>7, <1>8 DEF LogGood
<1>10. n.h.live = h.live + LogBlocks(d) - LogBlocks(l)
  <2> DEFINE a == Bit(n.o # NULL)
  <2>1. a \in Int /\ n.h.live = g.live + a
    BY <1>5, BitType
  <2>2. LogBlocks(d) = 1 + a + Bit(l.body # NULL) + VecBlocks(l.attrs)
        /\ LogBlocks(l) = 1 + had + Bit(l.body # NULL) + VecBlocks(l.attrs)
    BY <1>3, <1>8 DEF LogBlocks
  <2> HIDE DEF a
  <2> QED BY <1>2, <1>4, <2>1, <2>2, LogBlockTypes
<1>11. LogChanged(h, l, Result(n.h, x, d))
  BY <1>5, <1>6, <1>9, <1>10, LogChangedResult
<1>12. LogChanged(h, l, Result(h, "UTF8", l))
  BY <1>2, LogPlain DEF Statuses
<1>13. LogChanged(h, l, r)
  BY <1>1, <1>11, <1>12
<1> QED BY <1>13 DEF r

\* A log record with another vector of attributes.
LEMMA LogWithAttrs ==
  ASSUME NEW l, LogGood(l), NEW v, GoodVec(v, MaxLogAttrs)
  PROVE  LET d == [l EXCEPT !.attrs = v] IN
         /\ LogGood(d) /\ LogBlocks(d) = LogBlocks(l) + VecBlocks(v) - VecBlocks(l.attrs)
         /\ v.items = l.attrs.items => Held(d) = Held(l)
<1> DEFINE d == [l EXCEPT !.attrs = v]
<1>1. l \in Log /\ v \in Vec
  BY DEF LogGood, GoodVec
<1>2. d \in Log
  BY Zenon, <1>1 DEF Log
<1>3. /\ d.text = l.text /\ d.body = l.body /\ d.attrs = v /\ "attrs" \in DOMAIN l
      /\ DOMAIN d = DOMAIN l /\ \A f \in DOMAIN l : f # "attrs" => d[f] = l[f]
  BY <1>1, LogFields
<1> HIDE DEF d
<1>4. LogGood(d)
  BY <1>2, <1>3 DEF LogGood
<1>5. VecBlocks(v) \in Int
  BY <1>1, VecBlocksType
<1>6. LogBlocks(d) = LogBlocks(l) + VecBlocks(v) - VecBlocks(l.attrs)
  BY <1>1, <1>3, <1>5, LogBlockTypes DEF LogBlocks
<1>7. ASSUME v.items = l.attrs.items PROVE Held(d) = Held(l)
  BY <1>3, <1>7 DEF Held
<1> QED BY <1>4, <1>6, <1>7 DEF d

\* An attribute of a log record.
LEMMA LogSetAttributeChanges ==
  ASSUME NEW h \in Heaps, NEW l, LogGood(l), NEW key \in Opt(Text), NEW v, IsValue(v)
  PROVE  LET r == otlp_log_record_set_attribute(h, l, key, v) IN
         LogChanged(h, l, r) /\ (r.st # "OK" => Held(r.o) = Held(l))
<1> DEFINE q == SetAny(h, l.attrs, MaxLogAttrs, key, v)
<1> DEFINE d == [l EXCEPT !.attrs = q.o]
<1>1. otlp_log_record_set_attribute(h, l, key, v) = Result(q.h, q.st, d)
  BY DEF otlp_log_record_set_attribute, Into
<1>2. l \in Log /\ GoodVec(l.attrs, MaxLogAttrs) /\ h.live \in Int
  BY HeapNumbers DEF LogGood
<1>3. Changed(h, l.attrs, MaxLogAttrs, q)
  BY <1>2, LogFields, SetAnyChanges
<1> HIDE DEF q
<1>4. /\ q.h \in Heaps /\ q.st \in Statuses /\ GoodVec(q.o, MaxLogAttrs)
      /\ q.h.live = h.live + VecBlocks(q.o) - VecBlocks(l.attrs)
      /\ q.st # "OK" => q.o.items = l.attrs.items
  BY <1>3 DEF Changed
<1>5. /\ LogGood(d) /\ LogBlocks(d) = LogBlocks(l) + VecBlocks(q.o) - VecBlocks(l.attrs)
      /\ q.o.items = l.attrs.items => Held(d) = Held(l)
  BY <1>4, LogWithAttrs
<1> HIDE DEF d
<1>6. q.h.live = h.live + LogBlocks(d) - LogBlocks(l)
  <2>1. VecBlocks(q.o) \in Int
    BY <1>4, VecBlocksType DEF GoodVec
  <2> QED BY <1>2, <1>4, <1>5, <2>1, LogBlockTypes
<1> QED BY <1>1, <1>4, <1>5, <1>6, LogChangedResult, ResultParts

\* A log record, or none: what a call that makes one gives.
LogMade(h, r) ==
  /\ r.h \in Heaps
  /\ \/ r.o = NULL /\ r.h.live = h.live
     \/ LogGood(r.o) /\ r.h.live = h.live + LogBlocks(r.o)

\* otlp_log_record_create makes a log record or leaves nothing behind.
LEMMA LogCreates ==
  ASSUME NEW h \in Heaps, NEW severity \in Int, NEW body \in Opt(Text)
  PROVE  LogMade(h, otlp_log_record_create(h, severity, body))
<1> DEFINE r == otlp_log_record_create(h, severity, body)
<1> DEFINE g == otlp_malloc(h)
<1> DEFINE b == otlp_dup_str(g, OrEmpty(body))
<1> DEFINE f == otlp_free(g, 1)
<1> DEFINE k == otlp_free(b.h, 1)
<1> DEFINE d == [severity |-> severity, text |-> NULL, body |-> b.o, time |-> NULL,
                 traceId |-> NULL, spanId |-> NULL, attrs |-> NoVec]
<1>1. r = IF ~ CanAlloc(h) THEN Result(g, "NULL", NULL)
          ELSE IF ~ otlp_str_is_utf8(body) THEN Result(f, "NULL", NULL)
          ELSE IF b.st # "OK" THEN Result(k, "NULL", NULL)
          ELSE Result(b.h, "OK", d)
  BY DEF otlp_log_record_create
<1>2. ASSUME NEW x \in Heaps, x.live = h.live PROVE LogMade(h, Result(x, "NULL", NULL))
  BY <1>2, ResultParts DEF LogMade
<1>3. g \in Heaps /\ g.live = h.live + Bit(CanAlloc(h)) /\ h.live \in Int /\ 1 \in Int
  BY MallocUses, HeapNumbers
<1> HIDE DEF g
<1>4. /\ b.h \in Heaps /\ b.h.live = g.live + Bit(b.o # NULL)
      /\ b.st = "OK" => b.o = OrEmpty(body)
      /\ b.st # "OK" => b.o = NULL
  BY <1>3, DupStrUses DEF Uses
<1> HIDE DEF b
<1>5. f \in Heaps /\ f.live = g.live - 1 /\ k \in Heaps /\ k.live = b.h.live - 1
  BY <1>3, <1>4, FreeUses
<1> HIDE DEF f, k, r, d
<1>6. CASE ~ CanAlloc(h)
  <2>1. g.live = h.live
    BY <1>3, <1>6 DEF Bit
  <2>2. LogMade(h, r)
    BY <1>1, <1>2, <1>3, <1>6, <2>1
  <2> QED BY <2>2 DEF r
<1>7. CASE CanAlloc(h) /\ ~ otlp_str_is_utf8(body)
  <2>1. f.live = h.live
    BY <1>3, <1>5, <1>7 DEF Bit
  <2>2. LogMade(h, r)
    BY <1>1, <1>2, <1>5, <1>7, <2>1
  <2> QED BY <2>2 DEF r
<1>8. CASE CanAlloc(h) /\ otlp_str_is_utf8(body) /\ b.st # "OK"
  <2>1. k.live = h.live
    BY <1>3, <1>4, <1>5, <1>8 DEF Bit
  <2>2. LogMade(h, r)
    BY <1>1, <1>2, <1>5, <1>8, <2>1
  <2> QED BY <2>2 DEF r
<1>9. CASE CanAlloc(h) /\ otlp_str_is_utf8(body) /\ b.st = "OK"
  <2>1. b.o \in Text /\ b.o # NULL /\ b.o \in Opt(Text)
    BY <1>4, <1>9, TextFacts
  <2>2. LogGood(d) /\ LogBlocks(d) = 2
    <3>1. /\ NULL \in Opt(Int) /\ NULL \in Opt(Text)
          /\ NoVec \in Vec /\ GoodVec(NoVec, MaxLogAttrs) /\ VecBlocks(NoVec) = 0
      BY LogFields, NoVecGood DEF Opt, GoodVec
    <3>2. d \in Log
      BY Zenon, <2>1, <3>1 DEF d, Log
    <3>3. d.text = NULL /\ d.body = b.o /\ d.attrs = NoVec
      BY DEF d
    <3> QED BY <2>1, <3>1, <3>2, <3>3 DEF LogGood, LogBlocks, Bit
  <2>3. b.h.live = h.live + LogBlocks(d)
    BY <1>3, <1>4, <1>9, <2>1, <2>2 DEF Bit
  <2>4. r = Result(b.h, "OK", d)
    BY <1>1, <1>9
  <2>5. LogMade(h, r)
    BY <1>4, <2>2, <2>3, <2>4, ResultParts DEF LogMade
  <2> QED BY <2>5 DEF r
<1> QED BY <1>6, <1>7, <1>8, <1>9

\* A clone is a good log record, or there is none and nothing more is in use.
LEMMA LogClones ==
  ASSUME NEW h \in Heaps, NEW src, LogGood(src)
  PROVE  LogMade(h, otlp_log_record_clone(h, src))
<1> DEFINE r == otlp_log_record_clone(h, src)
<1> DEFINE g == otlp_malloc(h)
<1> DEFINE t == otlp_dup_str(g, src.text)
<1> DEFINE b == otlp_dup_str(t.h, src.body)
<1> DEFINE v == otlp_attr_vec_copy(b.h, src.attrs)
<1> DEFINE d == [src EXCEPT !.text = t.o, !.body = b.o, !.attrs = NoVec]
<1> DEFINE e == [d EXCEPT !.attrs = v.o]
<1> DEFINE f == otlp_log_record_free(b.h, d)
<1> DEFINE k == otlp_log_record_free(v.h, d)
<1>1. r = IF ~ CanAlloc(h) THEN Result(g, "NULL", NULL)
          ELSE IF t.st # "OK" \/ b.st # "OK" THEN Result(f, "NULL", NULL)
          ELSE IF v.st # "OK" THEN Result(k, "NULL", NULL)
          ELSE Result(v.h, "OK", e)
  BY DEF otlp_log_record_clone
<1>2. ASSUME NEW x \in Heaps, x.live = h.live PROVE LogMade(h, Result(x, "NULL", NULL))
  BY <1>2, ResultParts DEF LogMade
<1>3. /\ g \in Heaps /\ g.live = h.live + Bit(CanAlloc(h)) /\ h.live \in Int /\ src \in Log
      /\ src.text \in Opt(Text) /\ src.body \in Opt(Text) /\ GoodVec(src.attrs, MaxLogAttrs)
  BY MallocUses, HeapNumbers, LogFields DEF LogGood
<1> HIDE DEF g
<1>4. t.h \in Heaps /\ t.h.live = g.live + Bit(t.o # NULL) /\ t.o \in Opt(Text)
  <2>1. t.h \in Heaps /\ t.h.live = g.live + Bit(t.o # NULL) /\ (t.o = src.text \/ t.o = NULL)
    BY <1>3, DupStrUses DEF Uses
  <2> QED BY <1>3, <2>1 DEF Opt
<1> HIDE DEF t
<1>5. b.h \in Heaps /\ b.h.live = t.h.live + Bit(b.o # NULL) /\ b.o \in Opt(Text)
  <2>1. b.h \in Heaps /\ b.h.live = t.h.live + Bit(b.o # NULL) /\ (b.o = src.body \/ b.o = NULL)
    BY <1>4, DupStrUses DEF Uses
  <2> QED BY <1>3, <2>1 DEF Opt
<1> HIDE DEF b
<1>6. /\ v.h \in Heaps /\ v.st \in Statuses /\ GoodVec(v.o, MaxLogAttrs)
      /\ v.h.live = b.h.live + VecBlocks(v.o)
      /\ v.st # "OK" => VecBlocks(v.o) = 0
  <2>1. /\ v.h \in Heaps /\ v.st \in Statuses /\ GoodVec(v.o, MaxLogAttrs)
        /\ v.h.live = b.h.live + VecBlocks(v.o)
    <3> DEFINE a == src.attrs
    <3> DEFINE c == b.h
    <3>1. c \in Heaps /\ GoodVec(a, MaxLogAttrs) /\ MaxLogAttrs \in Nat
      BY <1>3, <1>5, LogFields
    <3>2. v = otlp_attr_vec_copy(c, a)
      OBVIOUS
    <3> HIDE DEF v, a, c
    <3>3. /\ v.h \in Heaps /\ v.st \in Statuses /\ GoodVec(v.o, MaxLogAttrs)
          /\ v.h.live = c.live + VecBlocks(v.o)
      BY <3>1, <3>2, VecCopies
    <3> QED BY <3>3 DEF c
  <2>2. v.st # "OK" => v.o = NoVec
    BY ResultParts DEF otlp_attr_vec_copy
  <2> QED BY <2>1, <2>2, LogFields, NoVecGood
<1> HIDE DEF v, r
<1>7. /\ LogGood(d) /\ d \in Log /\ d.attrs = NoVec
      /\ LogBlocks(d) = 1 + Bit(t.o # NULL) + Bit(b.o # NULL)
  <2>1. NoVec \in Vec /\ GoodVec(NoVec, MaxLogAttrs) /\ VecBlocks(NoVec) = 0
    BY LogFields, NoVecGood DEF GoodVec
  <2>2. d \in Log
    BY Zenon, <1>3, <1>4, <1>5, <2>1 DEF Log
  <2>3. d.text = t.o /\ d.body = b.o /\ d.attrs = NoVec
    BY <1>3, LogFields
  <2> HIDE DEF d
  <2>4. Bit(t.o # NULL) \in Int /\ Bit(b.o # NULL) \in Int
    BY BitType
  <2> QED BY <2>1, <2>2, <2>3, <2>4 DEF LogGood, LogBlocks
<1>8. /\ LogGood(e) /\ LogBlocks(e) = LogBlocks(d) + VecBlocks(v.o) - VecBlocks(d.attrs)
      /\ VecBlocks(d.attrs) = 0
  <2>1. VecBlocks(d.attrs) = 0
    BY <1>7, LogFields, NoVecGood
  <2> HIDE DEF d
  <2> QED BY <1>6, <1>7, <2>1, LogWithAttrs
<1> HIDE DEF d, e
<1>9. f \in Heaps /\ f.live = b.h.live - LogBlocks(d) /\ k \in Heaps /\ k.live = v.h.live - LogBlocks(d)
  BY <1>5, <1>6, <1>7, LogFrees
<1> HIDE DEF f, k
<1>10. CASE ~ CanAlloc(h)
  <2>1. g.live = h.live
    BY <1>3, <1>10 DEF Bit
  <2>2. LogMade(h, r)
    BY <1>1, <1>2, <1>3, <1>10, <2>1
  <2> QED BY <2>2 DEF r
<1>11. CASE CanAlloc(h)
  <2>1. b.h.live = h.live + LogBlocks(d) /\ LogBlocks(d) \in Int
    <3> DEFINE x == Bit(t.o # NULL)
    <3> DEFINE y == Bit(b.o # NULL)
    <3>1. x \in Int /\ y \in Int
      BY BitType
    <3>2. t.h.live = g.live + x /\ b.h.live = t.h.live + y /\ LogBlocks(d) = 1 + x + y
      BY <1>4, <1>5, <1>7
    <3>3. g.live = h.live + 1
      BY <1>3, <1>11 DEF Bit
    <3> HIDE DEF x, y
    <3> QED BY <1>3, <3>1, <3>2, <3>3
  <2>2. CASE t.st # "OK" \/ b.st # "OK"
    <3>1. f.live = h.live
      BY <1>3, <1>9, <2>1
    <3>2. LogMade(h, r)
      BY <1>1, <1>2, <1>9, <1>11, <2>2, <3>1
    <3> QED BY <3>2 DEF r
  <2>3. CASE ~ (t.st # "OK" \/ b.st # "OK") /\ v.st # "OK"
    <3>1. k.live = h.live
      BY <1>3, <1>6, <1>9, <2>1, <2>3
    <3>2. LogMade(h, r)
      BY <1>1, <1>2, <1>9, <1>11, <2>3, <3>1
    <3> QED BY <3>2 DEF r
  <2>4. CASE ~ (t.st # "OK" \/ b.st # "OK") /\ v.st = "OK"
    <3>1. VecBlocks(v.o) \in Int
      BY <1>6, VecBlocksType DEF GoodVec
    <3>2. v.h.live = h.live + LogBlocks(e)
      BY <1>3, <1>6, <1>8, <2>1, <3>1
    <3>3. r = Result(v.h, "OK", e)
      BY <1>1, <1>11, <2>4
    <3>4. LogMade(h, r)
      BY <1>6, <1>8, <3>2, <3>3, ResultParts DEF LogMade
    <3> QED BY <3>4 DEF r
  <2> QED BY <2>2, <2>3, <2>4
<1> QED BY <1>10, <1>11

\* The calls on an exemplar: a value, identifiers and a time.
LEMMA ExemplarMade ==
  ASSUME NEW h, NEW type \in {"DOUBLE", "INT64", "NONE"}, NEW v \in Int,
         NEW id \in Opt(Int), NEW t \in Opt(Int)
  PROVE  LET given == otlp_exemplar_set_value(h, NoExemplar, type, v).o
             ids   == otlp_exemplar_set_trace_context(h, given, id, id).o
         IN  otlp_exemplar_set_timestamp(h, ids, t).o \in Exemplar
<1> DEFINE given == otlp_exemplar_set_value(h, NoExemplar, type, v).o
<1> DEFINE ids == otlp_exemplar_set_trace_context(h, given, id, id).o
<1> DEFINE timed == otlp_exemplar_set_timestamp(h, ids, t).o
<1>1. given = [NoExemplar EXCEPT !.type = type, !.val = v]
  BY DEF otlp_exemplar_set_value, Result
<1>2. NoExemplar \in Exemplar
  BY DEF NoExemplar, Exemplar, Opt
<1> HIDE DEF given
<1>3. given \in Exemplar
  BY <1>1, <1>2 DEF Exemplar
<1>4. ids = given \/ ids = [given EXCEPT !.traceId = id, !.spanId = id]
  BY DEF otlp_exemplar_set_trace_context, Result
<1> HIDE DEF ids
<1>5. ids \in Exemplar
  BY <1>3, <1>4 DEF Exemplar
<1>6. timed = [ids EXCEPT !.time = t]
  BY DEF otlp_exemplar_set_timestamp, Result
<1> HIDE DEF timed
<1>7. timed \in Exemplar
  BY <1>5, <1>6 DEF Exemplar
<1> QED BY <1>7 DEF timed, ids, given

\* What MetricAddExemplar calls: an exemplar is made, filled, added and freed.
AddOneExemplar(h, m, type, id, t) ==
  LET made  == otlp_exemplar_create(h)
      given == otlp_exemplar_set_value(made.h, made.o, type, t).o
      ids   == otlp_exemplar_set_trace_context(made.h, given, id, id).o
      timed == otlp_exemplar_set_timestamp(made.h, ids, t).o
      r     == otlp_metric_add_exemplar(made.h, m, timed)
  IN  IF made.st # "OK" THEN Result(made.h, "NULL", m)
      ELSE [r EXCEPT !.h = otlp_exemplar_free(r.h)]

\* The exemplar the caller made is gone again afterwards.
LEMMA AddOneExemplarChanges ==
  ASSUME NEW h \in Heaps, NEW m, MetricGood(m), NEW type \in {"DOUBLE", "INT64", "NONE"},
         NEW id \in Opt(Int), NEW t \in Int
  PROVE  LET q == AddOneExemplar(h, m, type, id, t) IN
         MetricChanged(h, m, q) /\ (q.st # "OK" => q.o = m)
<1> DEFINE made == otlp_exemplar_create(h)
<1> DEFINE given == otlp_exemplar_set_value(made.h, made.o, type, t).o
<1> DEFINE ids == otlp_exemplar_set_trace_context(made.h, given, id, id).o
<1> DEFINE timed == otlp_exemplar_set_timestamp(made.h, ids, t).o
<1> DEFINE r == otlp_metric_add_exemplar(made.h, m, timed)
<1> DEFINE f == otlp_exemplar_free(r.h)
<1> DEFINE q == AddOneExemplar(h, m, type, id, t)
<1>1. q = IF made.st # "OK" THEN Result(made.h, "NULL", m) ELSE [r EXCEPT !.h = f]
  BY DEF AddOneExemplar
<1>2. /\ made.h = otlp_malloc(h) /\ made.o = NoExemplar
      /\ made.st = IF CanAlloc(h) THEN "OK" ELSE "NULL"
  BY ResultParts DEF otlp_exemplar_create
<1> HIDE DEF made
<1>3. made.h \in Heaps /\ made.h.live = h.live + Bit(CanAlloc(h)) /\ h.live \in Int /\ t \in Opt(Int)
      /\ MetricBlocks(m) \in Int
  BY <1>2, MallocUses, HeapNumbers, MetricBlockTypes DEF Opt, MetricGood
<1>4. timed \in Exemplar
  <2> DEFINE x == made.h
  <2> HIDE DEF x
  <2>1. otlp_exemplar_set_timestamp(x,
            otlp_exemplar_set_trace_context(x,
                otlp_exemplar_set_value(x, NoExemplar, type, t).o, id, id).o, t).o \in Exemplar
    BY <1>3, ExemplarMade
  <2> QED BY <1>2, <2>1 DEF x
<1> HIDE DEF timed
<1>5. CASE ~ CanAlloc(h)
  <2>1. q = Result(made.h, "NULL", m) /\ made.h.live = h.live + MetricBlocks(m) - MetricBlocks(m)
    BY <1>1, <1>2, <1>3, <1>5 DEF Bit
  <2>2. MetricChanged(h, m, q) /\ q.o = m
    <3>1. "NULL" \in Statuses
      BY DEF Statuses
    <3> QED BY <1>3, <2>1, <3>1, MetricChangedResult, ResultParts
  <2> QED BY <2>2
<1>6. CASE CanAlloc(h)
  <2>1. MetricChanged(made.h, m, r) /\ IsResult(r) /\ (r.st # "OK" => r.o = m)
    <3> DEFINE x == made.h
    <3> HIDE DEF x
    <3>1. LET y == otlp_metric_add_exemplar(x, m, timed) IN
          MetricChanged(x, m, y) /\ IsResult(y) /\ (y.st # "OK" => y.o = m)
      BY <1>3, <1>4, MetricAddExemplarChanges DEF x
    <3> QED BY <3>1 DEF x
  <2> HIDE DEF r
  <2>2. /\ r.h \in Heaps /\ r.st \in Statuses /\ MetricGood(r.o)
        /\ r.h.live = made.h.live + MetricBlocks(r.o) - MetricBlocks(m)
        /\ MetricBlocks(r.o) \in Int
    BY <2>1, MetricBlockTypes DEF MetricChanged, MetricGood
  <2>3. f \in Heaps /\ f.live = r.h.live - 1
    <3>1. 1 \in Int
      OBVIOUS
    <3> QED BY <2>2, <3>1, FreeUses DEF otlp_exemplar_free
  <2> HIDE DEF f
  <2>4. q = Result(f, r.st, r.o)
    <3>1. q = [r EXCEPT !.h = f]
      BY <1>1, <1>2, <1>6
    <3>2. r = [h |-> r.h, st |-> r.st, o |-> r.o]
      BY <2>1 DEF IsResult, Result
    <3> QED BY <3>1, <3>2 DEF Result
  <2>5. f.live = h.live + MetricBlocks(r.o) - MetricBlocks(m)
    BY <1>3, <1>6, <2>2, <2>3 DEF Bit
  <2>6. MetricChanged(h, m, q)
    BY <2>2, <2>3, <2>4, <2>5, MetricChangedResult
  <2> QED BY <2>1, <2>4, <2>6, ResultParts
<1> QED BY <1>5, <1>6

---------------------------------------------------------------------------
(* The calls *)

\* A whole object of the kind, and the blocks it owns.
OfKind(k, o) ==
  CASE k = "span" -> SpanGood(o) [] k = "metric" -> MetricGood(o) [] k = "log" -> LogGood(o)

BlocksOf(k, o) ==
  IF o = NULL THEN 0
  ELSE CASE k = "span" -> SpanBlocks(o) [] k = "metric" -> MetricBlocks(o) [] k = "log" -> LogBlocks(o)

\* The inductive invariant: what the caller holds is whole, and what is in use
\* is what it owns.
CInv ==
  /\ kind \in Kinds
  /\ obj # NULL => OfKind(kind, obj)
  /\ copy # NULL => OfKind(kind, copy)
  /\ live = BlocksOf(kind, obj) + BlocksOf(kind, copy)
  /\ FailureAtomic

\* A whole object is not a null pointer, and has a number of blocks.
LEMMA OfKindFacts ==
  ASSUME NEW k \in {"span", "metric", "log"}, NEW o, OfKind(k, o)
  PROVE  o # NULL /\ BlocksOf(k, o) \in Int
<1>1. CASE k = "span"
  <2>1. o \in Span /\ o # NULL /\ SpanBlocks(o) \in Int
    BY <1>1, SpanLimits, SpanBlockTypes DEF OfKind, SpanGood
  <2> QED BY <1>1, <2>1 DEF BlocksOf
<1>2. CASE k = "metric"
  <2>1. o \in Metric /\ o # NULL /\ MetricBlocks(o) \in Int
    BY <1>2, MetricLimits, MetricBlockTypes DEF OfKind, MetricGood
  <2> QED BY <1>2, <2>1 DEF BlocksOf
<1>3. CASE k = "log"
  <2>1. o \in Log /\ o # NULL /\ LogBlocks(o) \in Int
    BY <1>3, LogFields, LogBlockTypes DEF OfKind, LogGood
  <2> QED BY <1>3, <2>1 DEF BlocksOf
<1> QED BY <1>1, <1>2, <1>3

\* What is in use is a number, and a call starts from it.
LEMMA InUse ==
  ASSUME CInv, NEW fails \in SUBSET Int
  PROVE  /\ kind \in {"span", "metric", "log"}
         /\ BlocksOf(kind, obj) \in Int /\ BlocksOf(kind, copy) \in Int /\ live \in Int
         /\ Heap(live, fails) \in Heaps /\ Heap(live, fails).live = live
<1>1. kind \in {"span", "metric", "log"}
  BY CallsAssumption DEF CInv
<1>2. \A o \in {obj, copy} : o # NULL => BlocksOf(kind, o) \in Int
  BY <1>1, OfKindFacts DEF CInv
<1>3. \A o \in {obj, copy} : BlocksOf(kind, o) \in Int
  <2>1. ASSUME NEW o, o = NULL PROVE BlocksOf(kind, o) \in Int
    <3>1. BlocksOf(kind, o) = 0
      BY <2>1 DEF BlocksOf
    <3> QED BY <3>1
  <2> QED BY <1>2, <2>1
<1>4. live \in Int
  BY <1>3 DEF CInv
<1> QED BY <1>1, <1>3, <1>4 DEF Heap, Heaps

\* What a call on the object has to leave, when it ends with r.
Kept(k, h, o, r) ==
  /\ r.h \in Heaps /\ OfKind(k, r.o)
  /\ r.h.live = h.live + BlocksOf(k, r.o) - BlocksOf(k, o)

\* The step of such a call.
Did(op, r) ==
  /\ obj # NULL /\ copy = NULL
  /\ obj' = r.o /\ live' = r.h.live
  /\ spoiled' = IF r.st # "OK" /\ Held(r.o) # Held(obj) THEN spoiled \cup {op} ELSE spoiled
  /\ kind' = kind /\ copy' = copy

Forgetful == {"set_exp_histogram", "set_severity_text", "record"}

\* A call that leaves a whole object and a balanced heap keeps the invariant.
LEMMA DidKeeps ==
  ASSUME CInv, NEW fails \in SUBSET Int, NEW op, NEW r, Did(op, r),
         Kept(kind, Heap(live, fails), obj, r),
         op \in Forgetful \/ (r.st # "OK" => Held(r.o) = Held(obj))
  PROVE  CInv'
<1> DEFINE b == BlocksOf(kind, r.o)
<1> DEFINE c == BlocksOf(kind, obj)
<1>1. /\ c \in Int /\ live = c + BlocksOf(kind, copy)
      /\ Heap(live, fails).live = live /\ kind \in {"span", "metric", "log"}
  BY InUse DEF CInv
<1>2. /\ obj' = r.o /\ live' = r.h.live /\ kind' = kind /\ copy' = NULL /\ copy = NULL
  BY DEF Did
<1>3. BlocksOf(kind, copy) = 0 /\ BlocksOf(kind', copy') = 0
  BY <1>2 DEF BlocksOf
<1>4. OfKind(kind, r.o) /\ r.h.live = live + b - c
  BY <1>1 DEF Kept
<1>5. b \in Int
  BY <1>1, <1>4, OfKindFacts
<1>6. BlocksOf(kind', obj') = b
  BY <1>2
<1> HIDE DEF b, c
<1>7. live' = BlocksOf(kind', obj') + BlocksOf(kind', copy')
  BY <1>1, <1>2, <1>3, <1>4, <1>5, <1>6
<1>8. spoiled' \subseteq Forgetful
  BY DEF CInv, FailureAtomic, Did, Forgetful
<1>9. kind' \in Kinds /\ (obj' # NULL => OfKind(kind', obj')) /\ (copy' # NULL => OfKind(kind', copy'))
  BY <1>2, <1>4 DEF CInv
<1> QED BY <1>7, <1>8, <1>9 DEF CInv, FailureAtomic, Forgetful

\* The same, for each kind.
LEMMA SpanKeeps ==
  ASSUME CInv, kind = "span", NEW fails \in SUBSET Int, NEW op, NEW r, Did(op, r),
         SpanChanged(Heap(live, fails), obj, r)
  PROVE  CInv'
<1>1. obj # NULL /\ r.o # NULL
  BY SpanLimits DEF Did, SpanChanged, SpanGood
<1>2. Kept(kind, Heap(live, fails), obj, r)
  BY <1>1 DEF Kept, SpanChanged, OfKind, BlocksOf
<1> QED BY <1>2, DidKeeps DEF SpanChanged

\* For a metric.
LEMMA MetricKeeps ==
  ASSUME CInv, kind = "metric", NEW fails \in SUBSET Int, NEW op, NEW r, Did(op, r),
         MetricChanged(Heap(live, fails), obj, r),
         op \in Forgetful \/ (r.st # "OK" => Held(r.o) = Held(obj))
  PROVE  CInv'
<1>1. obj # NULL /\ r.o # NULL
  BY MetricLimits DEF Did, MetricChanged, MetricGood
<1>2. Kept(kind, Heap(live, fails), obj, r)
  BY <1>1 DEF Kept, MetricChanged, OfKind, BlocksOf
<1> QED BY <1>2, DidKeeps

\* For a log record.
LEMMA LogKeeps ==
  ASSUME CInv, kind = "log", NEW fails \in SUBSET Int, NEW op, NEW r, Did(op, r),
         LogChanged(Heap(live, fails), obj, r),
         op \in Forgetful \/ (r.st # "OK" => Held(r.o) = Held(obj))
  PROVE  CInv'
<1>1. obj # NULL /\ r.o # NULL
  BY LogFields DEF Did, LogChanged, LogGood
<1>2. Kept(kind, Heap(live, fails), obj, r)
  BY <1>1 DEF Kept, LogChanged, OfKind, BlocksOf
<1> QED BY <1>2, DidKeeps

\* The allocations that fail in a call are numbers.
LEMMA Ranges == \A x : \A k \in 1..x : {k} \in SUBSET Int /\ k..x \in SUBSET Int
OBVIOUS

\* The step of a call that makes the object or the clone.
LEMMA MadeKeeps ==
  ASSUME CInv, NEW fails \in SUBSET Int, NEW r, r.h \in Heaps,
         \/ r.o = NULL /\ r.h.live = Heap(live, fails).live
         \/ OfKind(kind, r.o) /\ r.h.live = Heap(live, fails).live + BlocksOf(kind, r.o),
         \/ obj = NULL /\ obj' = r.o /\ copy' = copy
         \/ copy = NULL /\ copy' = r.o /\ obj' = obj,
         live' = r.h.live, kind' = kind, spoiled' = spoiled
  PROVE  CInv'
<1> DEFINE b == BlocksOf(kind, r.o)
<1> DEFINE x == BlocksOf(kind, obj)
<1> DEFINE y == BlocksOf(kind, copy)
<1>1. /\ x \in Int /\ y \in Int /\ live = x + y
      /\ Heap(live, fails).live = live /\ kind \in {"span", "metric", "log"}
  BY InUse DEF CInv
<1>2. b \in Int /\ r.h.live = live + b /\ (r.o # NULL => OfKind(kind, r.o))
  <2>1. CASE r.o = NULL /\ r.h.live = Heap(live, fails).live
    <3>1. b = 0
      BY <2>1 DEF BlocksOf
    <3> HIDE DEF b
    <3> QED BY <1>1, <2>1, <3>1
  <2>2. CASE OfKind(kind, r.o) /\ r.h.live = Heap(live, fails).live + b
    BY <1>1, <2>2, OfKindFacts
  <2> QED BY <2>1, <2>2
<1>3. CASE obj = NULL /\ obj' = r.o /\ copy' = copy
  <2>1. x = 0 /\ BlocksOf(kind', obj') = b /\ BlocksOf(kind', copy') = y
    BY <1>3 DEF BlocksOf
  <2> HIDE DEF b, x, y
  <2>2. live' = BlocksOf(kind', obj') + BlocksOf(kind', copy')
    BY <1>1, <1>2, <2>1
  <2> QED BY <1>2, <1>3, <2>2 DEF CInv, FailureAtomic
<1>4. CASE copy = NULL /\ copy' = r.o /\ obj' = obj
  <2>1. y = 0 /\ BlocksOf(kind', obj') = x /\ BlocksOf(kind', copy') = b
    BY <1>4 DEF BlocksOf
  <2> HIDE DEF b, x, y
  <2>2. live' = BlocksOf(kind', obj') + BlocksOf(kind', copy')
    BY <1>1, <1>2, <2>1
  <2> QED BY <1>2, <1>4, <2>2 DEF CInv, FailureAtomic
<1> QED BY <1>3, <1>4

\* What the values given to the calls are.
LEMMA Given ==
  /\ Texts \subseteq Opt(Text) /\ Ids \subseteq Opt(Int) /\ Times \subseteq Opt(Int)
  /\ Measured \subseteq Int /\ BoundLists \subseteq Opt(Text) /\ BucketLists \subseteq Opt(Text)
  /\ \A a \in Attributes : a[1] \in Opt(Text) /\ IsValue(a[2])
  /\ \A a \in SubAttributes : a[1] \in Opt(Text) /\ IsValue(a[2])
  /\ SomeTime \in Int /\ SomeTime \in Opt(Int)
<1>1. SomeTime \in Times /\ SomeTime # NULL
  BY CallsAssumption DEF SomeTime
<1>2. SomeTime \in Opt(Int)
  BY <1>1, CallsAssumption
<1>3. SomeTime \in Int
  BY <1>1, <1>2 DEF Opt
<1> QED BY <1>2, <1>3, CallsAssumption

\* otlp_span_set_trace_id and its like.
LEMMA SpanSetIdKeeps == ASSUME CInv, SpanSetId PROVE CInv'
<1>1. kind = "span"
  BY DEF SpanSetId
<1>3. PICK which \in {"traceId", "spanId", "parent"}, id \in Ids :
       Calls("set_id", LAMBDA h : otlp_span_set_id(h, obj, which, id))
  BY DEF SpanSetId
<1>4. PICK fails \in SUBSET Int :
       Did("set_id", otlp_span_set_id(Heap(live, fails), obj, which, id))
  BY <1>3, Ranges DEF Calls, OneFault, Did
<1> DEFINE r == otlp_span_set_id(Heap(live, fails), obj, which, id)
<1>5. obj # NULL /\ OfKind(kind, obj) /\ Heap(live, fails) \in Heaps
  BY <1>4, InUse DEF CInv, Did
<1>6. SpanChanged(Heap(live, fails), obj, r)
  BY <1>1, <1>5, Given, SpanSetIdChanges DEF OfKind
<1> QED BY <1>1, <1>4, <1>6, SpanKeeps

\* The setters of a span's times, kind and sampled flag.
LEMMA SpanSetPlainKeeps == ASSUME CInv, SpanSetPlain PROVE CInv'
<1>1. kind = "span"
  BY DEF SpanSetPlain
<1> DEFINE C1 ==
         \E which \in {"start", "end"}, t \in Times \ {NULL} :
            Calls("set_time", LAMBDA h : otlp_span_set_time(h, obj, which, t))
<1> DEFINE C2 == \E k \in {0, 2} : Calls("set_kind", LAMBDA h : otlp_span_set_kind(h, obj, k))
<1> DEFINE C3 == Calls("set_sampled", LAMBDA h : otlp_span_set_sampled(h, obj, FALSE))
<1>2. C1 \/ C2 \/ C3
  BY DEF SpanSetPlain
<1> HIDE DEF C1, C2, C3
<1>3. CASE C1
  <2>1. PICK which \in {"start", "end"}, t \in Times \ {NULL} :
         Calls("set_time", LAMBDA h : otlp_span_set_time(h, obj, which, t))
    BY <1>3 DEF C1
  <2>2. PICK fails \in SUBSET Int :
         Did("set_time", otlp_span_set_time(Heap(live, fails), obj, which, t))
    BY <2>1, Ranges DEF Calls, OneFault, Did
  <2> DEFINE r == otlp_span_set_time(Heap(live, fails), obj, which, t)
  <2>3. obj # NULL /\ OfKind(kind, obj) /\ Heap(live, fails) \in Heaps
    BY <2>2, InUse DEF CInv, Did
  <2>4. SpanChanged(Heap(live, fails), obj, r)
    BY <1>1, <2>3, Given, SpanSetTimeChanges DEF OfKind
  <2> QED BY <1>1, <2>2, <2>4, SpanKeeps
<1>4. CASE C2
  <2>1. PICK k \in {0, 2} :
         Calls("set_kind", LAMBDA h : otlp_span_set_kind(h, obj, k))
    BY <1>4 DEF C2
  <2>2. PICK fails \in SUBSET Int :
         Did("set_kind", otlp_span_set_kind(Heap(live, fails), obj, k))
    BY <2>1, Ranges DEF Calls, OneFault, Did
  <2> DEFINE r == otlp_span_set_kind(Heap(live, fails), obj, k)
  <2>3. obj # NULL /\ OfKind(kind, obj) /\ Heap(live, fails) \in Heaps
    BY <2>2, InUse DEF CInv, Did
  <2>4. SpanChanged(Heap(live, fails), obj, r)
    BY <1>1, <2>3, Given, SpanSetKindChanges DEF OfKind
  <2> QED BY <1>1, <2>2, <2>4, SpanKeeps
<1>5. CASE C3
  <2>1. Calls("set_sampled", LAMBDA h : otlp_span_set_sampled(h, obj, FALSE))
    BY <1>5 DEF C3
  <2>2. PICK fails \in SUBSET Int :
         Did("set_sampled", otlp_span_set_sampled(Heap(live, fails), obj, FALSE))
    <3> DEFINE R(h) == otlp_span_set_sampled(h, obj, FALSE)
    <3>1. Calls("set_sampled", LAMBDA h : R(h))
      BY <2>1
    <3> HIDE DEF R
    <3>2. PICK fails \in SUBSET Int : Did("set_sampled", R(Heap(live, fails)))
      BY <3>1, Ranges DEF Calls, OneFault, Did
    <3> QED BY <3>2 DEF R
  <2> DEFINE r == otlp_span_set_sampled(Heap(live, fails), obj, FALSE)
  <2>3. obj # NULL /\ OfKind(kind, obj) /\ Heap(live, fails) \in Heaps
    BY <2>2, InUse DEF CInv, Did
  <2>4. SpanChanged(Heap(live, fails), obj, r)
    BY <1>1, <2>3, Given, SpanSetSampledChanges DEF OfKind
  <2> QED BY <1>1, <2>2, <2>4, SpanKeeps
<1> QED BY <1>2, <1>3, <1>4, <1>5

\* The setters of a span's texts.
LEMMA SpanSetTextKeeps == ASSUME CInv, SpanSetText PROVE CInv'
<1>1. kind = "span"
  BY DEF SpanSetText
<1>2. PICK t \in Texts :
         \/ Calls("set_name", LAMBDA h : otlp_span_set_name(h, obj, t))
         \/ \E c \in {0, 2} : Calls("set_status", LAMBDA h : otlp_span_set_status(h, obj, c, t))
         \/ Calls("set_trace_state", LAMBDA h : otlp_span_set_trace_state(h, obj, t))
  BY DEF SpanSetText
<1>3. CASE Calls("set_name", LAMBDA h : otlp_span_set_name(h, obj, t))
  <2>1. Calls("set_name", LAMBDA h : otlp_span_set_name(h, obj, t))
    BY <1>3
  <2>2. PICK fails \in SUBSET Int : Did("set_name", otlp_span_set_name(Heap(live, fails), obj, t))
    BY <2>1, Ranges DEF Calls, OneFault, Did
  <2>3. obj # NULL /\ OfKind(kind, obj) /\ Heap(live, fails) \in Heaps
    BY <2>2, InUse DEF CInv, Did
  <2>4. SpanChanged(Heap(live, fails), obj, otlp_span_set_name(Heap(live, fails), obj, t))
    BY <1>1, <2>3, Given, SpanSetNameChanges DEF OfKind
  <2> QED BY <1>1, <2>2, <2>4, SpanKeeps
<1>4. CASE \E c \in {0, 2} : Calls("set_status", LAMBDA h : otlp_span_set_status(h, obj, c, t))
  <2>1. PICK c \in {0, 2} : Calls("set_status", LAMBDA h : otlp_span_set_status(h, obj, c, t))
    BY <1>4
  <2>2. PICK fails \in SUBSET Int :
         Did("set_status", otlp_span_set_status(Heap(live, fails), obj, c, t))
    BY <2>1, Ranges DEF Calls, OneFault, Did
  <2>3. obj # NULL /\ OfKind(kind, obj) /\ Heap(live, fails) \in Heaps /\ c \in Int /\ t \in Opt(Text)
    BY <2>1, Given, <2>2, InUse DEF CInv, Did
  <2>4. SpanChanged(Heap(live, fails), obj, otlp_span_set_status(Heap(live, fails), obj, c, t))
    BY <1>1, <2>3, Given, SpanSetStatusChanges DEF OfKind
  <2> QED BY <1>1, <2>2, <2>4, SpanKeeps
<1>5. CASE Calls("set_trace_state", LAMBDA h : otlp_span_set_trace_state(h, obj, t))
  <2>1. Calls("set_trace_state", LAMBDA h : otlp_span_set_trace_state(h, obj, t))
    BY <1>5
  <2>2. PICK fails \in SUBSET Int :
         Did("set_trace_state", otlp_span_set_trace_state(Heap(live, fails), obj, t))
    BY <2>1, Ranges DEF Calls, OneFault, Did
  <2>3. obj # NULL /\ OfKind(kind, obj) /\ Heap(live, fails) \in Heaps
    BY <2>2, InUse DEF CInv, Did
  <2>4. SpanChanged(Heap(live, fails), obj, otlp_span_set_trace_state(Heap(live, fails), obj, t))
    BY <1>1, <2>3, Given, SpanSetTraceStateChanges DEF OfKind
  <2> QED BY <1>1, <2>2, <2>4, SpanKeeps
<1> QED BY <1>2, <1>3, <1>4, <1>5

\* An event or a link is added to a span.
LEMMA SpanAddKeeps == ASSUME CInv, SpanAdd PROVE CInv'
<1>1. kind = "span"
  BY DEF SpanAdd
<1> DEFINE C1 ==
         \E n \in Texts :
            Calls("add_event", LAMBDA h : otlp_span_add_event(h, obj, n, SomeTime))
<1> DEFINE C2 == \E id \in Ids : Calls("add_link", LAMBDA h : otlp_span_add_link(h, obj, id, id))
<1>2. C1 \/ C2
  BY DEF SpanAdd
<1> HIDE DEF C1, C2
<1>3. CASE C1
  <2>1. PICK n \in Texts :
         Calls("add_event", LAMBDA h : otlp_span_add_event(h, obj, n, SomeTime))
    BY <1>3 DEF C1
  <2>2. PICK fails \in SUBSET Int :
         Did("add_event", otlp_span_add_event(Heap(live, fails), obj, n, SomeTime))
    BY <2>1, Ranges DEF Calls, OneFault, Did
  <2> DEFINE r == otlp_span_add_event(Heap(live, fails), obj, n, SomeTime)
  <2>3. obj # NULL /\ OfKind(kind, obj) /\ Heap(live, fails) \in Heaps
    BY <2>2, InUse DEF CInv, Did
  <2>4. SpanChanged(Heap(live, fails), obj, r)
    BY <1>1, <2>3, Given, SpanAddEventChanges DEF OfKind
  <2> QED BY <1>1, <2>2, <2>4, SpanKeeps
<1>4. CASE C2
  <2>1. PICK id \in Ids :
         Calls("add_link", LAMBDA h : otlp_span_add_link(h, obj, id, id))
    BY <1>4 DEF C2
  <2>2. PICK fails \in SUBSET Int :
         Did("add_link", otlp_span_add_link(Heap(live, fails), obj, id, id))
    BY <2>1, Ranges DEF Calls, OneFault, Did
  <2> DEFINE r == otlp_span_add_link(Heap(live, fails), obj, id, id)
  <2>3. obj # NULL /\ OfKind(kind, obj) /\ Heap(live, fails) \in Heaps
    BY <2>2, InUse DEF CInv, Did
  <2>4. SpanChanged(Heap(live, fails), obj, r)
    BY <1>1, <2>3, Given, SpanAddLinkChanges DEF OfKind
  <2> QED BY <1>1, <2>2, <2>4, SpanKeeps
<1> QED BY <1>2, <1>3, <1>4

\* A span's attributes, and those of its last event and link.
LEMMA SpanSetAttributeKeeps == ASSUME CInv, SpanSetAttribute PROVE CInv'
<1>1. kind = "span"
  BY DEF SpanSetAttribute
<1> DEFINE OnSpan(a) ==
         Calls("set_attribute", LAMBDA h : otlp_span_set_attribute(h, obj, a[1], a[2]))
<1> DEFINE OnEvent(a) ==
         Calls("set_event_attribute", LAMBDA h : otlp_span_set_event_attribute(h, obj, a[1], a[2]))
<1> DEFINE OnLink(a) ==
         Calls("set_link_attribute", LAMBDA h : otlp_span_set_link_attribute(h, obj, a[1], a[2]))
<1>2. (\E a \in Attributes : OnSpan(a)) \/ (\E a \in SubAttributes : OnEvent(a) \/ OnLink(a))
  BY DEF SpanSetAttribute
<1> HIDE DEF OnSpan, OnEvent, OnLink
<1>3. PICK a \in Attributes \cup SubAttributes : OnSpan(a) \/ OnEvent(a) \/ OnLink(a)
  BY <1>2
<1>4. CASE OnSpan(a)
  <2>1. Calls("set_attribute", LAMBDA h : otlp_span_set_attribute(h, obj, a[1], a[2]))
    BY <1>4 DEF OnSpan
  <2>2. PICK fails \in SUBSET Int :
         Did("set_attribute", otlp_span_set_attribute(Heap(live, fails), obj, a[1], a[2]))
    BY <2>1, Ranges DEF Calls, OneFault, Did
  <2>3. obj # NULL /\ OfKind(kind, obj) /\ Heap(live, fails) \in Heaps
    BY <2>2, InUse DEF CInv, Did
  <2>4. SpanChanged(Heap(live, fails), obj, otlp_span_set_attribute(Heap(live, fails), obj, a[1], a[2]))
    BY <1>1, <2>3, Given, SpanSetAttributeChanges DEF OfKind
  <2> QED BY <1>1, <2>2, <2>4, SpanKeeps
<1>5. CASE OnEvent(a)
  <2>1. Calls("set_event_attribute", LAMBDA h : otlp_span_set_event_attribute(h, obj, a[1], a[2]))
    BY <1>5 DEF OnEvent
  <2>2. PICK fails \in SUBSET Int :
         Did("set_event_attribute", otlp_span_set_event_attribute(Heap(live, fails), obj, a[1], a[2]))
    BY <2>1, Ranges DEF Calls, OneFault, Did
  <2>3. obj # NULL /\ OfKind(kind, obj) /\ Heap(live, fails) \in Heaps
    BY <2>2, InUse DEF CInv, Did
  <2>4. SpanChanged(Heap(live, fails), obj, otlp_span_set_event_attribute(Heap(live, fails), obj, a[1], a[2]))
    BY <1>1, <2>3, Given, SpanSetEventAttributeChanges DEF OfKind
  <2> QED BY <1>1, <2>2, <2>4, SpanKeeps
<1>6. CASE OnLink(a)
  <2>1. Calls("set_link_attribute", LAMBDA h : otlp_span_set_link_attribute(h, obj, a[1], a[2]))
    BY <1>6 DEF OnLink
  <2>2. PICK fails \in SUBSET Int :
         Did("set_link_attribute", otlp_span_set_link_attribute(Heap(live, fails), obj, a[1], a[2]))
    BY <2>1, Ranges DEF Calls, OneFault, Did
  <2>3. obj # NULL /\ OfKind(kind, obj) /\ Heap(live, fails) \in Heaps
    BY <2>2, InUse DEF CInv, Did
  <2>4. SpanChanged(Heap(live, fails), obj, otlp_span_set_link_attribute(Heap(live, fails), obj, a[1], a[2]))
    BY <1>1, <2>3, Given, SpanSetLinkAttributeChanges DEF OfKind
  <2> QED BY <1>1, <2>2, <2>4, SpanKeeps
<1> QED BY <1>3, <1>4, <1>5, <1>6

\* otlp_metric_record.
LEMMA MetricRecordKeeps == ASSUME CInv, MetricRecord PROVE CInv'
<1>1. kind = "metric"
  BY DEF MetricRecord
<1>3. PICK v \in Measured :
       Calls("record", LAMBDA h : otlp_metric_record(h, obj, v))
  BY DEF MetricRecord
<1>4. PICK fails \in SUBSET Int :
       Did("record", otlp_metric_record(Heap(live, fails), obj, v))
  BY <1>3, Ranges DEF Calls, OneFault, Did
<1> DEFINE r == otlp_metric_record(Heap(live, fails), obj, v)
<1>5. obj # NULL /\ OfKind(kind, obj) /\ Heap(live, fails) \in Heaps
  BY <1>4, InUse DEF CInv, Did
<1>6. MetricChanged(Heap(live, fails), obj, r)
  BY <1>1, <1>5, Given, MetricRecordChanges DEF OfKind
<1>7. "record" \in Forgetful
  BY DEF Forgetful
<1> HIDE DEF r
<1> QED BY <1>1, <1>4, <1>6, <1>7, MetricKeeps DEF r

\* The setters of a metric's times and flags.
LEMMA MetricSetPlainKeeps == ASSUME CInv, MetricSetPlain PROVE CInv'
<1>1. kind = "metric"
  BY DEF MetricSetPlain
<1> DEFINE C1 ==
         \E which \in {"start", "time"}, t \in Times \ {NULL} :
            Calls("set_time", LAMBDA h : otlp_metric_set_time(h, obj, which, t))
<1> DEFINE C2 ==
         \E t \in 0..2 :
            Calls("set_temporality", LAMBDA h : otlp_metric_set_aggregation_temporality(h, obj, t))
<1> DEFINE C3 == Calls("set_monotonic", LAMBDA h : otlp_metric_set_monotonic(h, obj, FALSE))
<1>2. C1 \/ C2 \/ C3
  BY DEF MetricSetPlain
<1> HIDE DEF C1, C2, C3
<1>3. CASE C1
  <2>1. PICK which \in {"start", "time"}, t \in Times \ {NULL} :
         Calls("set_time", LAMBDA h : otlp_metric_set_time(h, obj, which, t))
    BY <1>3 DEF C1
  <2>2. PICK fails \in SUBSET Int :
         Did("set_time", otlp_metric_set_time(Heap(live, fails), obj, which, t))
    BY <2>1, Ranges DEF Calls, OneFault, Did
  <2> DEFINE r == otlp_metric_set_time(Heap(live, fails), obj, which, t)
  <2>3. obj # NULL /\ OfKind(kind, obj) /\ Heap(live, fails) \in Heaps
    BY <2>2, InUse DEF CInv, Did
  <2>4. MetricChanged(Heap(live, fails), obj, r) /\ r.st = "OK"
    BY <1>1, <2>3, Given, MetricSetTimeChanges DEF OfKind
  <2> QED BY <1>1, <2>2, <2>4, MetricKeeps
<1>4. CASE C2
  <2>1. PICK t \in 0..2 :
         Calls("set_temporality", LAMBDA h : otlp_metric_set_aggregation_temporality(h, obj, t))
    BY <1>4 DEF C2
  <2>2. PICK fails \in SUBSET Int :
         Did("set_temporality", otlp_metric_set_aggregation_temporality(Heap(live, fails), obj, t))
    BY <2>1, Ranges DEF Calls, OneFault, Did
  <2> DEFINE r == otlp_metric_set_aggregation_temporality(Heap(live, fails), obj, t)
  <2>3. obj # NULL /\ OfKind(kind, obj) /\ Heap(live, fails) \in Heaps
    BY <2>2, InUse DEF CInv, Did
  <2>4. MetricChanged(Heap(live, fails), obj, r) /\ (r.st # "OK" => r.o = obj)
    BY <1>1, <2>3, Given, MetricSetTemporalityChanges DEF OfKind
  <2> QED BY <1>1, <2>2, <2>4, MetricKeeps
<1>5. CASE C3
  <2>1. Calls("set_monotonic", LAMBDA h : otlp_metric_set_monotonic(h, obj, FALSE))
    BY <1>5 DEF C3
  <2>2. PICK fails \in SUBSET Int :
         Did("set_monotonic", otlp_metric_set_monotonic(Heap(live, fails), obj, FALSE))
    <3> DEFINE R(h) == otlp_metric_set_monotonic(h, obj, FALSE)
    <3>1. Calls("set_monotonic", LAMBDA h : R(h))
      BY <2>1
    <3> HIDE DEF R
    <3>2. PICK fails \in SUBSET Int : Did("set_monotonic", R(Heap(live, fails)))
      BY <3>1, Ranges DEF Calls, OneFault, Did
    <3> QED BY <3>2 DEF R
  <2> DEFINE r == otlp_metric_set_monotonic(Heap(live, fails), obj, FALSE)
  <2>3. obj # NULL /\ OfKind(kind, obj) /\ Heap(live, fails) \in Heaps
    BY <2>2, InUse DEF CInv, Did
  <2>4. MetricChanged(Heap(live, fails), obj, r) /\ r.st = "OK"
    BY <1>1, <2>3, Given, MetricSetMonotonicChanges DEF OfKind
  <2> QED BY <1>1, <2>2, <2>4, MetricKeeps
<1> QED BY <1>2, <1>3, <1>4, <1>5

\* otlp_metric_set_exp_histogram.
LEMMA MetricSetExpHistogramKeeps == ASSUME CInv, MetricSetExpHistogram PROVE CInv'
<1>1. kind = "metric"
  BY DEF MetricSetExpHistogram
<1>3. PICK p, n \in BucketLists, offset \in {-1, 0} :
       Calls("set_exp_histogram", LAMBDA h : otlp_metric_set_exp_histogram(h, obj, offset, offset, p, n))
  BY DEF MetricSetExpHistogram
<1>4. PICK fails \in SUBSET Int :
       Did("set_exp_histogram", otlp_metric_set_exp_histogram(Heap(live, fails), obj, offset, offset, p, n))
  BY <1>3, Ranges DEF Calls, OneFault, Did
<1> DEFINE r == otlp_metric_set_exp_histogram(Heap(live, fails), obj, offset, offset, p, n)
<1>5. obj # NULL /\ OfKind(kind, obj) /\ Heap(live, fails) \in Heaps /\ offset \in Int
  BY <1>4, InUse DEF CInv, Did
<1>6. MetricChanged(Heap(live, fails), obj, r)
  BY <1>1, <1>5, Given, MetricSetExpHistogramChanges DEF OfKind
<1>7. "set_exp_histogram" \in Forgetful
  BY DEF Forgetful
<1> HIDE DEF r
<1> QED BY <1>1, <1>4, <1>6, <1>7, MetricKeeps DEF r

\* otlp_metric_set_attribute.
LEMMA MetricSetAttributeKeeps == ASSUME CInv, MetricSetAttribute PROVE CInv'
<1>1. kind = "metric"
  BY DEF MetricSetAttribute
<1>3. PICK a \in SubAttributes :
       Calls("set_attribute", LAMBDA h : otlp_metric_set_attribute(h, obj, a[1], a[2]))
  BY DEF MetricSetAttribute
<1>4. PICK fails \in SUBSET Int :
       Did("set_attribute", otlp_metric_set_attribute(Heap(live, fails), obj, a[1], a[2]))
  BY <1>3, Ranges DEF Calls, OneFault, Did
<1> DEFINE r == otlp_metric_set_attribute(Heap(live, fails), obj, a[1], a[2])
<1>5. obj # NULL /\ OfKind(kind, obj) /\ Heap(live, fails) \in Heaps
  BY <1>4, InUse DEF CInv, Did
<1>6. MetricChanged(Heap(live, fails), obj, r) /\ (r.st # "OK" => Held(r.o) = Held(obj))
  BY <1>1, <1>5, Given, MetricSetAttributeChanges DEF OfKind
<1> QED BY <1>1, <1>4, <1>6, MetricKeeps

\* The setters of a log record's time, identifiers and severity text.
LEMMA LogSetKeeps == ASSUME CInv, LogSet PROVE CInv'
<1>1. kind = "log"
  BY DEF LogSet
<1> DEFINE C1 ==
         \E t \in Times \ {NULL} :
            Calls("set_timestamp", LAMBDA h : otlp_log_record_set_timestamp(h, obj, t))
<1> DEFINE C2 ==
         \E which \in {"traceId", "spanId"}, id \in Ids :
            Calls("set_id", LAMBDA h : otlp_log_record_set_id(h, obj, which, id))
<1> DEFINE C3 ==
         \E t \in Texts :
            Calls("set_severity_text", LAMBDA h : otlp_log_record_set_severity_text(h, obj, t))
<1>2. C1 \/ C2 \/ C3
  BY DEF LogSet
<1> HIDE DEF C1, C2, C3
<1>3. CASE C1
  <2>1. PICK t \in Times \ {NULL} :
         Calls("set_timestamp", LAMBDA h : otlp_log_record_set_timestamp(h, obj, t))
    BY <1>3 DEF C1
  <2>2. PICK fails \in SUBSET Int :
         Did("set_timestamp", otlp_log_record_set_timestamp(Heap(live, fails), obj, t))
    BY <2>1, Ranges DEF Calls, OneFault, Did
  <2> DEFINE r == otlp_log_record_set_timestamp(Heap(live, fails), obj, t)
  <2>3. obj # NULL /\ OfKind(kind, obj) /\ Heap(live, fails) \in Heaps
    BY <2>2, InUse DEF CInv, Did
  <2>4. LogChanged(Heap(live, fails), obj, r) /\ r.st = "OK"
    BY <1>1, <2>3, Given, LogSetTimestampChanges DEF OfKind
  <2> QED BY <1>1, <2>2, <2>4, LogKeeps
<1>4. CASE C2
  <2>1. PICK which \in {"traceId", "spanId"}, id \in Ids :
         Calls("set_id", LAMBDA h : otlp_log_record_set_id(h, obj, which, id))
    BY <1>4 DEF C2
  <2>2. PICK fails \in SUBSET Int :
         Did("set_id", otlp_log_record_set_id(Heap(live, fails), obj, which, id))
    BY <2>1, Ranges DEF Calls, OneFault, Did
  <2> DEFINE r == otlp_log_record_set_id(Heap(live, fails), obj, which, id)
  <2>3. obj # NULL /\ OfKind(kind, obj) /\ Heap(live, fails) \in Heaps
    BY <2>2, InUse DEF CInv, Did
  <2>4. LogChanged(Heap(live, fails), obj, r) /\ (r.st # "OK" => r.o = obj)
    BY <1>1, <2>3, Given, LogSetIdChanges DEF OfKind
  <2> QED BY <1>1, <2>2, <2>4, LogKeeps
<1>5. CASE C3
  <2>1. PICK t \in Texts :
         Calls("set_severity_text", LAMBDA h : otlp_log_record_set_severity_text(h, obj, t))
    BY <1>5 DEF C3
  <2>2. PICK fails \in SUBSET Int :
         Did("set_severity_text", otlp_log_record_set_severity_text(Heap(live, fails), obj, t))
    BY <2>1, Ranges DEF Calls, OneFault, Did
  <2> DEFINE r == otlp_log_record_set_severity_text(Heap(live, fails), obj, t)
  <2>3. obj # NULL /\ OfKind(kind, obj) /\ Heap(live, fails) \in Heaps
    BY <2>2, InUse DEF CInv, Did
  <2>4. LogChanged(Heap(live, fails), obj, r)
    BY <1>1, <2>3, Given, LogSetSeverityTextChanges DEF OfKind
  <2>5. "set_severity_text" \in Forgetful
    BY DEF Forgetful
  <2> HIDE DEF r
  <2> QED BY <1>1, <2>2, <2>4, <2>5, LogKeeps DEF r
<1> QED BY <1>2, <1>3, <1>4, <1>5

\* otlp_log_record_set_attribute.
LEMMA LogSetAttributeKeeps == ASSUME CInv, LogSetAttribute PROVE CInv'
<1>1. kind = "log"
  BY DEF LogSetAttribute
<1>3. PICK a \in Attributes :
       Calls("set_attribute", LAMBDA h : otlp_log_record_set_attribute(h, obj, a[1], a[2]))
  BY DEF LogSetAttribute
<1>4. PICK fails \in SUBSET Int :
       Did("set_attribute", otlp_log_record_set_attribute(Heap(live, fails), obj, a[1], a[2]))
  BY <1>3, Ranges DEF Calls, OneFault, Did
<1> DEFINE r == otlp_log_record_set_attribute(Heap(live, fails), obj, a[1], a[2])
<1>5. obj # NULL /\ OfKind(kind, obj) /\ Heap(live, fails) \in Heaps
  BY <1>4, InUse DEF CInv, Did
<1>6. LogChanged(Heap(live, fails), obj, r) /\ (r.st # "OK" => Held(r.o) = Held(obj))
  BY <1>1, <1>5, Given, LogSetAttributeChanges DEF OfKind
<1> QED BY <1>1, <1>4, <1>6, LogKeeps

\* otlp_span_create.
LEMMA SpanCreateKeeps == ASSUME CInv, SpanCreate PROVE CInv'
<1>1. kind = "span"
  BY DEF SpanCreate
<1>2. PICK n \in Texts : Creates(LAMBDA h : otlp_span_create(h, n))
  BY DEF SpanCreate
<1>3. PICK fails \in SUBSET Int :
        /\ obj = NULL /\ obj' = otlp_span_create(Heap(live, fails), n).o
        /\ live' = otlp_span_create(Heap(live, fails), n).h.live
        /\ kind' = kind /\ copy' = copy /\ spoiled' = spoiled
  BY <1>2, Ranges DEF Creates, Faults, OneFault
<1> DEFINE r == otlp_span_create(Heap(live, fails), n)
<1>4. r \in Cloned(Heap(live, fails))
  BY Given, InUse, SpanCreates
<1> HIDE DEF r
<1>5. /\ r.h \in Heaps
      /\ \/ r.o = NULL /\ r.h.live = Heap(live, fails).live
         \/ OfKind(kind, r.o) /\ r.h.live = Heap(live, fails).live + BlocksOf(kind, r.o)
  BY <1>1, <1>4, SpanLimits DEF Cloned, OfKind, BlocksOf, SpanGood
<1>6. /\ obj = NULL /\ obj' = r.o /\ live' = r.h.live
      /\ kind' = kind /\ copy' = copy /\ spoiled' = spoiled
  BY <1>3 DEF r
<1> QED BY <1>5, <1>6, MadeKeeps

\* otlp_metric_create.
LEMMA MetricCreateKeeps == ASSUME CInv, MetricCreate PROVE CInv'
<1>1. kind = "metric"
  BY DEF MetricCreate
<1>2. PICK type \in MetricTypes, n \in Texts, bounds \in BoundLists :
        Creates(LAMBDA h : otlp_metric_create(h, type, n, n, n, bounds))
  BY DEF MetricCreate
<1>3. PICK fails \in SUBSET Int :
        /\ obj = NULL /\ obj' = otlp_metric_create(Heap(live, fails), type, n, n, n, bounds).o
        /\ live' = otlp_metric_create(Heap(live, fails), type, n, n, n, bounds).h.live
        /\ kind' = kind /\ copy' = copy /\ spoiled' = spoiled
  BY <1>2, Ranges DEF Creates, Faults, OneFault
<1> DEFINE r == otlp_metric_create(Heap(live, fails), type, n, n, n, bounds)
<1>4. MetricMade(Heap(live, fails), r)
  BY Given, InUse, MetricCreates
<1> HIDE DEF r
<1>5. /\ r.h \in Heaps
      /\ \/ r.o = NULL /\ r.h.live = Heap(live, fails).live
         \/ OfKind(kind, r.o) /\ r.h.live = Heap(live, fails).live + BlocksOf(kind, r.o)
  BY <1>1, <1>4, MetricLimits DEF MetricMade, OfKind, BlocksOf, MetricGood
<1>6. /\ obj = NULL /\ obj' = r.o /\ live' = r.h.live
      /\ kind' = kind /\ copy' = copy /\ spoiled' = spoiled
  BY <1>3 DEF r
<1> QED BY <1>5, <1>6, MadeKeeps

\* otlp_log_record_create.
LEMMA LogCreateKeeps == ASSUME CInv, LogCreate PROVE CInv'
<1>1. kind = "log"
  BY DEF LogCreate
<1>2. PICK sev \in {0, 9}, b \in Texts : Creates(LAMBDA h : otlp_log_record_create(h, sev, b))
  BY DEF LogCreate
<1>3. PICK fails \in SUBSET Int :
        /\ obj = NULL /\ obj' = otlp_log_record_create(Heap(live, fails), sev, b).o
        /\ live' = otlp_log_record_create(Heap(live, fails), sev, b).h.live
        /\ kind' = kind /\ copy' = copy /\ spoiled' = spoiled
  BY <1>2, Ranges DEF Creates, Faults, OneFault
<1> DEFINE r == otlp_log_record_create(Heap(live, fails), sev, b)
<1>4. LogMade(Heap(live, fails), r)
  <2>1. sev \in Int /\ b \in Opt(Text)
    BY <1>2, Given
  <2> QED BY <2>1, InUse, LogCreates
<1> HIDE DEF r
<1>5. /\ r.h \in Heaps
      /\ \/ r.o = NULL /\ r.h.live = Heap(live, fails).live
         \/ OfKind(kind, r.o) /\ r.h.live = Heap(live, fails).live + BlocksOf(kind, r.o)
  BY <1>1, <1>4, LogFields DEF LogMade, OfKind, BlocksOf, LogGood
<1>6. /\ obj = NULL /\ obj' = r.o /\ live' = r.h.live
      /\ kind' = kind /\ copy' = copy /\ spoiled' = spoiled
  BY <1>3 DEF r
<1> QED BY <1>5, <1>6, MadeKeeps

\* The exemplar is copied into the metric and freed.
LEMMA MetricAddExemplarKeeps == ASSUME CInv, MetricAddExemplar PROVE CInv'
<1>1. kind = "metric"
  BY DEF MetricAddExemplar
<1>2. PICK type \in {"DOUBLE", "INT64", "NONE"}, id \in Ids :
        Calls("add_exemplar", LAMBDA h : AddOneExemplar(h, obj, type, id, SomeTime))
  BY DEF MetricAddExemplar, AddOneExemplar
<1>3. PICK fails \in SUBSET Int :
        Did("add_exemplar", AddOneExemplar(Heap(live, fails), obj, type, id, SomeTime))
  BY <1>2, Ranges DEF Calls, OneFault, Did
<1> DEFINE r == AddOneExemplar(Heap(live, fails), obj, type, id, SomeTime)
<1>4. obj # NULL /\ OfKind(kind, obj) /\ Heap(live, fails) \in Heaps
  BY <1>3, InUse DEF CInv, Did
<1>5. MetricChanged(Heap(live, fails), obj, r) /\ (r.st # "OK" => r.o = obj)
  BY <1>1, <1>4, Given, AddOneExemplarChanges DEF OfKind
<1> HIDE DEF r
<1> QED BY <1>1, <1>3, <1>5, MetricKeeps DEF r

\* A whole object of the kind, or none, and nothing else in use.
WholeOrNone(k, h, r) ==
  /\ r.h \in Heaps
  /\ \/ r.o = NULL /\ r.h.live = h.live
     \/ OfKind(k, r.o) /\ r.h.live = h.live + BlocksOf(k, r.o)

\* The clone is whole, or there is none.
LEMMA CloneObjectMakes ==
  ASSUME NEW h \in Heaps, kind \in {"span", "metric", "log"}, OfKind(kind, obj)
  PROVE  WholeOrNone(kind, h, CloneObject(h, obj))
<1> DEFINE r == CloneObject(h, obj)
<1>1. CASE kind = "span"
  <2>1. SpanGood(obj) /\ r = otlp_span_clone(h, obj)
    BY <1>1 DEF OfKind, CloneObject
  <2>2. r \in Cloned(h)
    BY <2>1, SpanClones
  <2> HIDE DEF r
  <2>3. WholeOrNone(kind, h, r)
    BY <1>1, <2>2, SpanLimits DEF Cloned, OfKind, BlocksOf, SpanGood, WholeOrNone
  <2> QED BY <2>3 DEF r
<1>2. CASE kind = "metric"
  <2>1. MetricGood(obj) /\ r = otlp_metric_clone(h, obj)
    BY <1>2 DEF OfKind, CloneObject
  <2>2. MetricMade(h, r)
    BY <2>1, MetricClones
  <2> HIDE DEF r
  <2>3. WholeOrNone(kind, h, r)
    BY <1>2, <2>2, MetricLimits DEF MetricMade, OfKind, BlocksOf, MetricGood, WholeOrNone
  <2> QED BY <2>3 DEF r
<1>3. CASE kind = "log"
  <2>1. LogGood(obj) /\ r = otlp_log_record_clone(h, obj)
    BY <1>3 DEF OfKind, CloneObject
  <2>2. LogMade(h, r)
    BY <2>1, LogClones
  <2> HIDE DEF r
  <2>3. WholeOrNone(kind, h, r)
    BY <1>3, <2>2, LogFields DEF LogMade, OfKind, BlocksOf, LogGood, WholeOrNone
  <2> QED BY <2>3 DEF r
<1> QED BY <1>1, <1>2, <1>3

\* otlp_span_clone, otlp_metric_clone and otlp_log_record_clone.
LEMMA CloneKeeps == ASSUME CInv, Clone PROVE CInv'
<1>1. PICK fails \in SUBSET Int :
        /\ obj # NULL /\ copy = NULL
        /\ copy' = CloneObject(Heap(live, fails), obj).o
        /\ live' = CloneObject(Heap(live, fails), obj).h.live
        /\ kind' = kind /\ obj' = obj /\ spoiled' = spoiled
  BY Ranges DEF Clone, Faults, OneFault
<1> DEFINE r == CloneObject(Heap(live, fails), obj)
<1>2. /\ r.h \in Heaps
      /\ \/ r.o = NULL /\ r.h.live = Heap(live, fails).live
         \/ OfKind(kind, r.o) /\ r.h.live = Heap(live, fails).live + BlocksOf(kind, r.o)
  <2>1. kind \in {"span", "metric", "log"} /\ Heap(live, fails) \in Heaps /\ OfKind(kind, obj)
    BY <1>1, InUse DEF CInv
  <2>2. WholeOrNone(kind, Heap(live, fails), r)
    BY <2>1, CloneObjectMakes
  <2> HIDE DEF r
  <2> QED BY <2>2 DEF WholeOrNone
<1>3. /\ copy = NULL /\ copy' = r.o /\ live' = r.h.live
      /\ kind' = kind /\ obj' = obj /\ spoiled' = spoiled
  BY <1>1
<1> HIDE DEF r
<1> QED BY <1>2, <1>3, MadeKeeps

\* What the free functions give back.
LEMMA FreeObjectFrees ==
  ASSUME NEW h \in Heaps, NEW o, OfKind(kind, o), kind \in {"span", "metric", "log"}
  PROVE  /\ FreeObject(h, o) \in Heaps
         /\ FreeObject(h, o).live = h.live - BlocksOf(kind, o)
<1>1. CASE kind = "span"
  <2>1. o \in Span /\ FreeObject(h, o) = otlp_span_free(h, o) /\ BlocksOf(kind, o) = SpanBlocks(o)
    BY <1>1, SpanLimits DEF OfKind, SpanGood, FreeObject, BlocksOf
  <2> QED BY <2>1, SpanFrees
<1>2. CASE kind = "metric"
  <2>1. o \in Metric /\ FreeObject(h, o) = otlp_metric_free(h, o) /\ BlocksOf(kind, o) = MetricBlocks(o)
    BY <1>2, MetricLimits DEF OfKind, MetricGood, FreeObject, BlocksOf
  <2> QED BY <2>1, MetricFrees
<1>3. CASE kind = "log"
  <2>1. o \in Log /\ FreeObject(h, o) = otlp_log_record_free(h, o) /\ BlocksOf(kind, o) = LogBlocks(o)
    BY <1>3, LogFields DEF OfKind, LogGood, FreeObject, BlocksOf
  <2> QED BY <2>1, LogFrees
<1> QED BY <1>1, <1>2, <1>3

\* The object is freed.
LEMMA FreeKeeps == ASSUME CInv, Free PROVE CInv'
<1> DEFINE x == BlocksOf(kind, obj)
<1> DEFINE f == FreeObject(Heap(live, {}), obj)
<1>1. /\ obj # NULL /\ copy = NULL /\ live' = f.live /\ obj' = NULL
      /\ kind' = kind /\ copy' = copy /\ spoiled' = spoiled
  BY DEF Free
<1>2. {} \in SUBSET Int
  OBVIOUS
<1>3. /\ kind \in {"span", "metric", "log"} /\ x \in Int /\ live = x + BlocksOf(kind, copy)
      /\ Heap(live, {}) \in Heaps /\ Heap(live, {}).live = live /\ OfKind(kind, obj)
  BY <1>1, <1>2, InUse DEF CInv
<1>4. f.live = live - x
  BY <1>3, FreeObjectFrees
<1>5. BlocksOf(kind, copy) = 0 /\ BlocksOf(kind', obj') = 0 /\ BlocksOf(kind', copy') = 0
  BY <1>1 DEF BlocksOf
<1> HIDE DEF x, f
<1>6. live' = BlocksOf(kind', obj') + BlocksOf(kind', copy')
  BY <1>1, <1>3, <1>4, <1>5
<1> QED BY <1>1, <1>6 DEF CInv, FailureAtomic

\* The clone is freed.
LEMMA FreeCopyKeeps == ASSUME CInv, FreeCopy PROVE CInv'
<1> DEFINE x == BlocksOf(kind, obj)
<1> DEFINE y == BlocksOf(kind, copy)
<1> DEFINE f == FreeObject(Heap(live, {}), copy)
<1>1. /\ copy # NULL /\ live' = f.live /\ copy' = NULL
      /\ kind' = kind /\ obj' = obj /\ spoiled' = spoiled
  BY DEF FreeCopy
<1>2. {} \in SUBSET Int
  OBVIOUS
<1>3. /\ kind \in {"span", "metric", "log"} /\ x \in Int /\ y \in Int /\ live = x + y
      /\ Heap(live, {}) \in Heaps /\ Heap(live, {}).live = live /\ OfKind(kind, copy)
  BY <1>1, <1>2, InUse DEF CInv
<1>4. f.live = live - y
  BY <1>3, FreeObjectFrees
<1>5. BlocksOf(kind', obj') = x /\ BlocksOf(kind', copy') = 0
  BY <1>1 DEF BlocksOf
<1> HIDE DEF x, y, f
<1>6. live' = BlocksOf(kind', obj') + BlocksOf(kind', copy')
  BY <1>1, <1>3, <1>4, <1>5
<1> QED BY <1>1, <1>6 DEF CInv, FailureAtomic

---------------------------------------------------------------------------
(* The properties *)

\* Every call keeps the invariant.
LEMMA CallsKeep == ASSUME CInv, [CallsNext]_callVars PROVE CInv'
<1>1. ASSUME UNCHANGED callVars PROVE CInv'
  BY <1>1 DEF callVars, CInv, FailureAtomic
<1> QED
  BY <1>1, SpanCreateKeeps, SpanSetIdKeeps, SpanSetPlainKeeps, SpanSetTextKeeps, SpanAddKeeps,
     SpanSetAttributeKeeps, MetricCreateKeeps, MetricRecordKeeps, MetricSetPlainKeeps,
     MetricSetExpHistogramKeeps, MetricAddExemplarKeeps, MetricSetAttributeKeeps,
     LogCreateKeeps, LogSetKeeps, LogSetAttributeKeeps, CloneKeeps, FreeCopyKeeps, FreeKeeps
  DEF CallsNext

\* There is nothing at the start.
LEMMA CallsStart == ASSUME CallsInit PROVE CInv
BY DEF CallsInit, CInv, BlocksOf, FailureAtomic

\* What the caller holds is whole and owns exactly what is in use, whatever
\* calls were made and whatever allocations failed in them.
THEOREM CallsInductive == CallsSpec => []CInv
<1>1. CallsInit => CInv
  BY CallsStart
<1>2. CInv /\ [CallsNext]_callVars => CInv'
  BY CallsKeep
<1> QED BY <1>1, <1>2, PTL DEF CallsSpec

\* The object and its clone are spans, metrics or log records as the kind
\* says, fields of the C types included, after every public call.
THEOREM CallsTypeCorrect == CallsSpec => []CallsTypeOK
<1>1. CInv => CallsTypeOK
  <2> SUFFICES ASSUME CInv PROVE CallsTypeOK
    OBVIOUS
  <2>1. {} \in SUBSET Int
    OBVIOUS
  <2>2. kind \in {"span", "metric", "log"} /\ live \in Int /\ kind \in Kinds
    BY <2>1, InUse DEF CInv
  <2>3. \A o \in {obj, copy} : o \in Opt(Objects)
    <3>1. ASSUME NEW o, OfKind(kind, o) PROVE o \in Objects
      BY <2>2, <3>1 DEF OfKind, Objects, SpanGood, MetricGood, LogGood
    <3> QED BY <3>1 DEF CInv, Opt
  <2> QED BY <2>2, <2>3 DEF CallsTypeOK
<1> QED BY <1>1, CallsInductive, PTL

\* The vectors of a whole object are within their limits, their keys distinct.
LEMMA WholeVecs ==
  ASSUME NEW o, kind \in {"span", "metric", "log"}, OfKind(kind, o), NEW p \in Vecs(o)
  PROVE  GoodVec(p[1], p[2])
<1>1. CASE kind = "span"
  <2>1. SpanGood(o)
    BY <1>1 DEF OfKind
  <2>2. \/ p = <<o.attrs, MaxAttrs>>
        \/ \E e \in Range(o.events) : p = <<e.attrs, MaxEventAttrs>>
        \/ \E l \in Range(o.links) : p = <<l.attrs, MaxLinkAttrs>>
    BY <1>1 DEF Vecs
  <2>3. CASE p = <<o.attrs, MaxAttrs>>
    BY <2>1, <2>3 DEF SpanGood
  <2>4. ASSUME NEW e \in Range(o.events), p = <<e.attrs, MaxEventAttrs>>
        PROVE  GoodVec(p[1], p[2])
    <3>1. GoodVec(e.attrs, MaxEventAttrs)
      BY <2>1 DEF SpanGood, Range
    <3> QED BY <2>4, <3>1
  <2>5. ASSUME NEW l \in Range(o.links), p = <<l.attrs, MaxLinkAttrs>>
        PROVE  GoodVec(p[1], p[2])
    <3>1. GoodVec(l.attrs, MaxLinkAttrs)
      BY <2>1 DEF SpanGood, Range
    <3> QED BY <2>5, <3>1
  <2> QED BY <2>2, <2>3, <2>4, <2>5
<1>2. CASE kind = "metric"
  <2>1. p = <<o.attrs, MaxMetricAttrs>> /\ GoodVec(o.attrs, MaxMetricAttrs)
    BY <1>2 DEF Vecs, OfKind, MetricGood
  <2> QED BY <2>1
<1>3. CASE kind = "log"
  <2>1. p = <<o.attrs, MaxLogAttrs>> /\ GoodVec(o.attrs, MaxLogAttrs)
    BY <1>3 DEF Vecs, OfKind, LogGood
  <2> QED BY <2>1
<1> QED BY <1>1, <1>2, <1>3

\* No attribute vector is ever over its capacity or its limit, or holds a key
\* twice: of the object, of its events and links, and of the clone.
THEOREM VecsHold == CallsSpec => []VecsOK
<1>1. CInv => VecsOK
  <2> SUFFICES ASSUME CInv, NEW o \in {obj, copy} \ {NULL}, NEW p \in Vecs(o)
               PROVE  /\ Len(p[1].items) <= p[1].cap /\ p[1].cap <= p[2]
                      /\ \A i, j \in DOMAIN p[1].items :
                            p[1].items[i].key = p[1].items[j].key => i = j
    BY DEF VecsOK
  <2>1. {} \in SUBSET Int
    OBVIOUS
  <2>2. kind \in {"span", "metric", "log"} /\ OfKind(kind, o)
    BY <2>1, InUse DEF CInv
  <2>3. GoodVec(p[1], p[2])
    BY <2>2, WholeVecs
  <2> QED BY <2>3 DEF GoodVec
<1> QED BY <1>1, CallsInductive, PTL

\* No call leaks and none frees twice: what the free functions give back for
\* the object and the clone is what is in use, no more and no less.
THEOREM HeapExactHolds == CallsSpec => []HeapExact
<1>1. CInv => HeapExact
  <2> SUFFICES ASSUME CInv PROVE HeapExact
    OBVIOUS
  <2> DEFINE After(h, o) == IF o = NULL THEN h ELSE FreeObject(h, o)
  <2> DEFINE g == After(Heap(live, {}), obj)
  <2> DEFINE k == After(g, copy)
  <2> DEFINE x == BlocksOf(kind, obj)
  <2> DEFINE y == BlocksOf(kind, copy)
  <2>1. {} \in SUBSET Int
    OBVIOUS
  <2>2. /\ kind \in {"span", "metric", "log"} /\ x \in Int /\ y \in Int /\ live = x + y
        /\ Heap(live, {}) \in Heaps /\ Heap(live, {}).live = live
        /\ obj # NULL => OfKind(kind, obj)
        /\ copy # NULL => OfKind(kind, copy)
    BY <2>1, InUse DEF CInv
  <2>3. ASSUME NEW h \in Heaps, NEW o, o # NULL => OfKind(kind, o)
        PROVE  After(h, o) \in Heaps /\ After(h, o).live = h.live - BlocksOf(kind, o)
    <3>1. CASE o = NULL
      <4>1. After(h, o) = h /\ BlocksOf(kind, o) = 0 /\ h.live \in Int
        BY <3>1, HeapNumbers DEF BlocksOf
      <4> QED BY <4>1
    <3>2. CASE o # NULL
      BY <2>2, <2>3, <3>2, FreeObjectFrees
    <3> QED BY <3>1, <3>2
  <2>4. g \in Heaps /\ g.live = live - x
    BY <2>2, <2>3
  <2> HIDE DEF g
  <2>5. k.live = g.live - y
    BY <2>2, <2>3, <2>4
  <2> HIDE DEF k, x, y
  <2>6. k.live = 0
    BY <2>2, <2>4, <2>5
  <2> QED BY <2>6 DEF k, g, HeapExact
<1> QED BY <1>1, CallsInductive, PTL

\* Only the three calls known for it leave the object changed when they fail:
\* every other is all or nothing.
THEOREM FailureAtomicHolds == CallsSpec => []FailureAtomic
<1>1. CInv => FailureAtomic
  BY DEF CInv
<1> QED BY <1>1, CallsInductive, PTL
=============================================================================
