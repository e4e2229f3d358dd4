-------------------------- MODULE MpscQueueProofs --------------------------
(***************************************************************************)
(* Proofs about the ring of src/mpsc_queue.c, for any set of producers,    *)
(* any number of calls and any capacity of at least two slots.             *)
(***************************************************************************)
EXTENDS MpscQueue, NatRecursion, TLAPS

(***************************************************************************)
(* Arithmetic of slot numbers                                              *)
(***************************************************************************)
\* Two indices less than a lap apart use different slots.
LEMMA SlotDistinct ==
  ASSUME NEW i \in Nat, NEW j \in Nat, i # j, j - i < Capacity, i - j < Capacity
  PROVE  SlotOf(i) # SlotOf(j)
<1> DEFINE n == Capacity
<1> DEFINE a == i \div n
<1> DEFINE b == j \div n
<1> DEFINE r == i % n
<1> DEFINE s == j % n
<1>0. n \in Nat \ {0}
  BY CapacityAssumption
<1> HIDE DEF n
<1>1. i = n * a + r /\ a \in Nat /\ r \in 0..(n-1)
  BY <1>0, DivMod, Zenon
<1>2. j = n * b + s /\ b \in Nat /\ s \in 0..(n-1)
  BY <1>0, DivMod, Zenon
<1> HIDE DEF a, b, r, s
<1>3. SUFFICES ASSUME r = s PROVE FALSE
  BY <1>3 DEF SlotOf, r, s, n
<1>4. j - i = n * (b - a) /\ i - j = n * (a - b)
  BY <1>0, <1>1, <1>2, <1>3
<1>5. ~ (b - a >= 1)
  BY <1>0, <1>1, <1>2, <1>4, MultipleAtLeast DEF n
<1>6. ~ (a - b >= 1)
  BY <1>0, <1>1, <1>2, <1>4, MultipleAtLeast DEF n
<1>7. a = b
  BY <1>1, <1>2, <1>5, <1>6
<1> QED BY <1>1, <1>2, <1>3, <1>7

\* The index one lap later uses the same slot.
LEMMA SlotNextLap ==
  ASSUME NEW i \in Nat
  PROVE  SlotOf(i + Capacity) = SlotOf(i)
<1> DEFINE n == Capacity
<1> DEFINE a == i \div n
<1> DEFINE b == (i + n) \div n
<1> DEFINE r == i % n
<1> DEFINE s == (i + n) % n
<1>0. n \in Nat \ {0}
  BY CapacityAssumption
<1> HIDE DEF n
<1>1. i = n * a + r /\ a \in Nat /\ r \in 0..(n-1)
  BY <1>0, DivMod, Zenon
<1>2. i + n = n * b + s /\ b \in Nat /\ s \in 0..(n-1)
  <2>1. i + n \in Nat
    BY <1>0
  <2> QED BY <1>0, <2>1, DivMod, Zenon
<1> HIDE DEF a, b, r, s
<1>3. n * (a + 1) + r = n * b + s
  BY <1>0, <1>1, <1>2
<1>4. r = s
  BY <1>0, <1>1, <1>2, <1>3, DivModUnique
<1> QED BY <1>4 DEF SlotOf, r, s, n

\* Every slot number is used by some index of each lap-long interval.
LEMMA SlotCovered ==
  ASSUME NEW h \in Nat, NEW r \in Nat
  PROVE  \E i \in r..(r + Capacity - 1) : SlotOf(i) = SlotOf(h)
<1> DEFINE n == Capacity
<1> DEFINE m == h % n
<1> DEFINE q == r \div n
<1> DEFINE t == r % n
<1>0. n \in Nat \ {0}
  BY CapacityAssumption
<1> HIDE DEF n
<1>1. m \in 0..(n-1)
  BY <1>0, DivMod, Zenon
<1>2. r = n * q + t /\ q \in Nat /\ t \in 0..(n-1)
  BY <1>0, DivMod, Zenon
<1> HIDE DEF m, q, t
<1>3. ASSUME NEW k \in Nat PROVE (n * k + m) \in Nat /\ (n * k + m) % n = m
  <2> DEFINE i == n * k + m
  <2>1. i \in Nat
    BY <1>0, <1>1
  <2> HIDE DEF i
  <2> DEFINE a == i \div n
  <2> DEFINE b == i % n
  <2>2. i = n * a + b /\ a \in Nat /\ b \in 0..(n-1)
    BY <1>0, <2>1, DivMod, Zenon
  <2> HIDE DEF a, b
  <2>3. n * k + m = n * a + b
    BY <2>2 DEF i
  <2>4. m = b
    BY <1>0, <1>1, <2>2, <2>3, DivModUnique
  <2> QED BY <2>1, <2>4 DEF b, i
<1>4. CASE m >= t
  <2>1. n * q + m \in r..(r + n - 1)
    BY <1>0, <1>1, <1>2, <1>4
  <2>2. (n * q + m) % n = m
    BY <1>2, <1>3
  <2> QED BY <2>1, <2>2 DEF SlotOf, n, m
<1>5. CASE m < t
  <2>0. n * (q + 1) = n * q + n /\ q + 1 \in Nat
    BY <1>0, <1>2
  <2>1. n * (q + 1) + m \in r..(r + n - 1)
    BY <1>0, <1>1, <1>2, <1>5, <2>0
  <2>2. (n * (q + 1) + m) % n = m
    BY <1>3, <2>0
  <2> QED BY <2>1, <2>2 DEF SlotOf, n, m
<1> QED BY <1>1, <1>2, <1>4, <1>5

\* SlotOf yields a slot.
LEMMA SlotInRange == ASSUME NEW i \in Nat PROVE SlotOf(i) \in Slots
<1>1. Capacity \in Nat \ {0}
  BY CapacityAssumption
<1> QED BY <1>1 DEF SlotOf, Slots

(***************************************************************************)
(* Type correctness                                                        *)
(***************************************************************************)
\* Every step of push and pop preserves the types.
LEMMA TypeOKStep == TypeOK /\ [Next]_vars => TypeOK'
<1> SUFFICES ASSUME TypeOK, [Next]_vars PROVE TypeOK'
  OBVIOUS
<1> USE CapacityAssumption, MaxCallsAssumption DEF TypeOK, Items, NULL
<1>1. ASSUME NEW p \in Producers, PushStart(p) PROVE TypeOK'
  BY <1>1 DEF PushStart, LoadHead, shared, cvars
<1>2. ASSUME NEW p \in Producers, PushSlotFree(p) PROVE TypeOK'
  BY <1>2 DEF PushSlotFree, shared, cvars
<1>3. ASSUME NEW p \in Producers, PushFull(p) PROVE TypeOK'
  BY <1>3 DEF PushFull, shared, cvars
<1>4. ASSUME NEW p \in Producers, PushReload(p) PROVE TypeOK'
  BY <1>4 DEF PushReload, LoadHead, shared, cvars
<1>5. ASSUME NEW p \in Producers, PushClaim(p) PROVE TypeOK'
  BY <1>5 DEF PushClaim, cvars
<1>6. ASSUME NEW p \in Producers, PushClaimFails(p) PROVE TypeOK'
  BY <1>6 DEF PushClaimFails, LoadHead, shared, cvars
<1>7. ASSUME NEW p \in Producers, PushWrite(p) PROVE TypeOK'
  BY <1>7 DEF PushWrite, cvars
<1>8. ASSUME NEW p \in Producers, PushPublish(p) PROVE TypeOK'
  <2>1. ph[p] + 1 \in Nat
    OBVIOUS
  <2>2. seq' \in [Slots -> Nat]
    BY <1>8, <2>1 DEF PushPublish
  <2> QED BY <1>8, <2>2 DEF PushPublish, cvars
<1>9. CASE PopStart
  BY <1>9 DEF PopStart, shared, pvars
<1>10. CASE PopRead
  <2>1. SlotOf(tail) \in Slots
    BY SlotInRange
  <2> QED BY <1>10, <2>1 DEF PopRead, shared, pvars
<1>11. CASE PopRelease
  <2>1. tail + Capacity \in Nat
    OBVIOUS
  <2>2. seq' \in [Slots -> Nat]
    BY <1>11, <2>1 DEF PopRelease
  <2> QED BY <1>11, <2>2 DEF PopRelease, pvars
<1>12. CASE PopAdvance
  BY <1>12 DEF PopAdvance, pvars
<1>13. CASE UNCHANGED vars
  BY <1>13 DEF vars, shared, pvars, cvars
<1> QED BY <1>1, <1>2, <1>3, <1>4, <1>5, <1>6, <1>7, <1>8, <1>9, <1>10,
           <1>11, <1>12, <1>13 DEF Next, Push, Pop

\* The queue's fields and the threads' locals keep their types.
THEOREM TypeCorrect == Spec => []TypeOK
<1>1. Init => TypeOK
  BY CapacityAssumption, MaxCallsAssumption DEF Init, TypeOK, Slots, Items, NULL
<1> QED BY <1>1, TypeOKStep, PTL DEF Spec
(***************************************************************************)
(* The inductive invariant                                                 *)
(***************************************************************************)
\* The parts of IInv that mention only shared memory and the owning producers
\* survive a step that touches neither.
LEMMA LocalStep ==
  ASSUME IInv, UNCHANGED <<shared, cvars, log, out>>,
         \A q \in Producers :
            /\ Owns(q)' <=> Owns(q)
            /\ Owns(q) => ph'[q] = ph[q] /\ pitem'[q] = pitem[q] /\ ppc'[q] = ppc[q]
  PROVE  WithinCapacity' /\ WindowSlots' /\ OwnedIndices' /\ ConsumerReads' /\ FifoOrder'
<1>1. UNCHANGED <<Released, head, tail, seq, data, cpc, cdata, log, out>>
  BY DEF shared, cvars, Released
<1>2. WithinCapacity'
  BY <1>1 DEF IInv, WithinCapacity
<1>3. WindowSlots'
  BY <1>1 DEF IInv, WindowSlots, Window
<1>4. OwnedIndices'
  BY <1>1 DEF IInv, OwnedIndices
<1>5. ConsumerReads'
  BY <1>1 DEF IInv, ConsumerReads, PopPublished
<1>6. FifoOrder'
  BY <1>1 DEF IInv, FifoOrder
<1> QED BY <1>2, <1>3, <1>4, <1>5, <1>6

\* Each step preserves the inductive invariant when the ring has two slots or
\* more.  With one slot a published slot and a free one carry the same seq.
LEMMA IInvStep ==
  ASSUME Capacity >= 2, IInv, [Next]_vars
  PROVE  IInv'
<1>0. TypeOK /\ TypeOK' /\ Capacity \in Nat
  BY TypeOKStep, CapacityAssumption DEF IInv
<1> USE <1>0
<1>r. Released \in Nat /\ Released <= head /\ head - Released <= Capacity
  BY DEF IInv, WithinCapacity, Released, TypeOK
<1>d. ASSUME NEW i \in Window, NEW j \in Window, i # j PROVE SlotOf(i) # SlotOf(j)
  <2>1. Capacity \in Nat
    BY CapacityAssumption
  <2>2. i \in Nat /\ j \in Nat /\ j - i < Capacity /\ i - j < Capacity
    BY <1>r, <2>1 DEF Window
  <2> QED BY <1>d, <2>2, SlotDistinct
<1>w. ASSUME NEW i \in Nat, Released <= i, i < head PROVE i \in Window
  <2>1. Capacity \in Nat /\ head \in Nat
    BY CapacityAssumption DEF TypeOK
  <2> QED BY <1>r, <1>w, <2>1 DEF Window
<1>1. ASSUME NEW p \in Producers, PushStart(p) PROVE IInv'
  <2>1. \A q \in Producers :
            /\ Owns(q)' <=> Owns(q)
            /\ Owns(q) => ph'[q] = ph[q] /\ pitem'[q] = pitem[q] /\ ppc'[q] = ppc[q]
    BY <1>1 DEF PushStart, LoadHead, Owns, TypeOK
  <2>2. UNCHANGED <<shared, cvars, log, out>>
    BY <1>1 DEF PushStart
  <2>3. ClaimHasRoom'
    BY <1>1 DEF PushStart, LoadHead, IInv, ClaimHasRoom, TypeOK, Released, shared, cvars
  <2> QED BY <2>1, <2>2, <2>3, LocalStep DEF IInv
<1>2. ASSUME NEW p \in Producers, PushSlotFree(p) PROVE IInv'
  <2>1. \A q \in Producers :
            /\ Owns(q)' <=> Owns(q)
            /\ Owns(q) => ph'[q] = ph[q] /\ pitem'[q] = pitem[q] /\ ppc'[q] = ppc[q]
    BY <1>2 DEF PushSlotFree, Owns, TypeOK
  <2>2. UNCHANGED <<shared, cvars, log, out>>
    BY <1>2 DEF PushSlotFree
  <2>3. ph[p] = head => head - Released < Capacity
    <3> SUFFICES ASSUME ph[p] = head, head - Released = Capacity PROVE FALSE
      BY <1>r DEF TypeOK
    <3>1. seq[SlotOf(Released)] \in {Released, Released + 1}
      BY <1>r DEF IInv, WindowSlots, Window
    <3>2. head = Released + Capacity
      BY <1>r DEF TypeOK
    <3>3. SlotOf(head) = SlotOf(Released)
      BY <1>r, <3>2, SlotNextLap
    <3>4. seq[SlotOf(head)] = head
      BY <1>2 DEF PushSlotFree
    <3> QED BY <1>r, <3>1, <3>2, <3>3, <3>4
  <2>4. ClaimHasRoom'
    BY <1>2, <2>3 DEF PushSlotFree, IInv, ClaimHasRoom, TypeOK, Released, shared, cvars
  <2> QED BY <2>1, <2>2, <2>4, LocalStep DEF IInv
<1>3. ASSUME NEW p \in Producers, PushFull(p) PROVE IInv'
  <2>1. \A q \in Producers :
            /\ Owns(q)' <=> Owns(q)
            /\ Owns(q) => ph'[q] = ph[q] /\ pitem'[q] = pitem[q] /\ ppc'[q] = ppc[q]
    BY <1>3 DEF PushFull, Owns, TypeOK
  <2>2. UNCHANGED <<shared, cvars, log, out>>
    BY <1>3 DEF PushFull
  <2>3. ClaimHasRoom'
    BY <1>3 DEF PushFull, IInv, ClaimHasRoom, TypeOK, Released, shared, cvars
  <2> QED BY <2>1, <2>2, <2>3, LocalStep DEF IInv
<1>4. ASSUME NEW p \in Producers, PushReload(p) PROVE IInv'
  <2>1. \A q \in Producers :
            /\ Owns(q)' <=> Owns(q)
            /\ Owns(q) => ph'[q] = ph[q] /\ pitem'[q] = pitem[q] /\ ppc'[q] = ppc[q]
    BY <1>4 DEF PushReload, LoadHead, Owns, TypeOK
  <2>2. UNCHANGED <<shared, cvars, log, out>>
    BY <1>4 DEF PushReload
  <2>3. ClaimHasRoom'
    BY <1>4 DEF PushReload, LoadHead, IInv, ClaimHasRoom, TypeOK, Released, shared, cvars
  <2> QED BY <2>1, <2>2, <2>3, LocalStep DEF IInv
<1>6. ASSUME NEW p \in Producers, PushClaimFails(p) PROVE IInv'
  <2>1. \A q \in Producers :
            /\ Owns(q)' <=> Owns(q)
            /\ Owns(q) => ph'[q] = ph[q] /\ pitem'[q] = pitem[q] /\ ppc'[q] = ppc[q]
    BY <1>6 DEF PushClaimFails, LoadHead, Owns, TypeOK
  <2>2. UNCHANGED <<shared, cvars, log, out>>
    BY <1>6 DEF PushClaimFails
  <2>3. ClaimHasRoom'
    BY <1>6 DEF PushClaimFails, LoadHead, IInv, ClaimHasRoom, TypeOK, Released, shared, cvars
  <2> QED BY <2>1, <2>2, <2>3, LocalStep DEF IInv
<1>5. ASSUME NEW p \in Producers, PushClaim(p) PROVE IInv'
  <2>1. /\ head = ph[p] /\ head' = head + 1 /\ log' = Append(log, pitem[p])
        /\ ppc' = [ppc EXCEPT ![p] = "write"] /\ ~Owns(p) /\ Owns(p)'
        /\ UNCHANGED <<tail, seq, data, ph, pitem, cpc, cdata, out, Released>>
    BY <1>5 DEF PushClaim, cvars, Released, Owns, TypeOK
  <2>2. head - Released < Capacity
    BY <1>5 DEF PushClaim, IInv, ClaimHasRoom
  <2>3. WithinCapacity'
    BY <1>r, <2>1, <2>2 DEF WithinCapacity, TypeOK
  <2>4. Len(log) = head /\ Len(log') = head + 1 /\ log'[head + 1] = pitem[p]
        /\ \A i \in 1..head : log'[i] = log[i]
    BY <2>1 DEF IInv, FifoOrder, TypeOK
  <2>5. \A q \in Producers : q # p => (Owns(q)' <=> Owns(q)) /\ ppc'[q] = ppc[q]
    BY <2>1 DEF Owns, TypeOK
  <2>6. seq[SlotOf(head)] = head
    BY <1>r, <2>2 DEF IInv, WindowSlots, Window, TypeOK
  <2>7. WindowSlots'
    <3> SUFFICES ASSUME NEW i \in Window
                 PROVE  \/ i >= head + 1 /\ seq[SlotOf(i)] = i
                        \/ i < head + 1 /\ seq[SlotOf(i)] = i /\ \E q \in Producers : Owns(q)' /\ ph[q] = i
                        \/ i < head + 1 /\ seq[SlotOf(i)] = i + 1 /\ data[SlotOf(i)] = log'[i + 1]
      BY <2>1 DEF WindowSlots, Window
    <3>1. i \in Nat /\ i >= Released
      BY <1>r DEF Window
    <3>2. CASE i = head
      BY <3>2, <2>1, <2>6 DEF TypeOK
    <3>3. CASE i > head
      BY <3>3, <3>1 DEF IInv, WindowSlots, TypeOK
    <3>4. CASE i < head
      BY <3>4, <3>1, <2>4, <2>5, <2>1 DEF IInv, WindowSlots, TypeOK
    <3> QED BY <3>1, <3>2, <3>3, <3>4 DEF TypeOK
  <2>8. OwnedIndices'
    <3>1. ASSUME NEW q \in Producers, Owns(q)', q # p
          PROVE  /\ Released <= ph[q] /\ ph[q] < head
                 /\ seq[SlotOf(ph[q])] = ph[q]
                 /\ log'[ph[q] + 1] = pitem[q]
                 /\ ppc'[q] = "publish" => data[SlotOf(ph[q])] = pitem[q]
      <4>1. Owns(q) /\ ppc'[q] = ppc[q]
        BY <2>5, <3>1
      <4>2. /\ ph[q] \in Nat /\ Released <= ph[q] /\ ph[q] < head
            /\ seq[SlotOf(ph[q])] = ph[q]
            /\ log[ph[q] + 1] = pitem[q]
            /\ ppc[q] = "publish" => data[SlotOf(ph[q])] = pitem[q]
        BY <4>1 DEF IInv, OwnedIndices, TypeOK
      <4>3. ph[q] + 1 \in 1..head
        <5>1. PICK m \in Nat : m = ph[q]
          BY <4>2
        <5>2. head \in Nat /\ m < head
          BY <4>2, <5>1 DEF TypeOK
        <5> QED BY <5>1, <5>2
      <4> QED BY <2>4, <4>1, <4>2, <4>3
    <3>2. ppc'[p] # "publish"
      BY <2>1 DEF TypeOK
    <3>3. ASSUME NEW q \in Producers, Owns(q)'
          PROVE  /\ Released' <= ph'[q] /\ ph'[q] < head'
                 /\ seq'[SlotOf(ph'[q])] = ph'[q]
                 /\ log'[ph'[q] + 1] = pitem'[q]
                 /\ ppc'[q] = "publish" => data'[SlotOf(ph'[q])] = pitem'[q]
      <4>1. CASE q = p
        BY <1>r, <2>1, <2>4, <2>6, <3>2, <4>1 DEF TypeOK
      <4>2. CASE q # p
        <5>1. /\ Released <= ph[q] /\ ph[q] < head
              /\ seq[SlotOf(ph[q])] = ph[q]
              /\ log'[ph[q] + 1] = pitem[q]
              /\ ppc'[q] = "publish" => data[SlotOf(ph[q])] = pitem[q]
          BY <3>1, <3>3, <4>2
        <5>2. ph[q] < head + 1
          BY <5>1 DEF TypeOK
        <5> QED BY <2>1, <5>1, <5>2
      <4> QED BY <4>1, <4>2
    <3>4. ASSUME NEW q \in Producers, NEW r \in Producers, q # r, Owns(q)', Owns(r)'
          PROVE  ph'[q] # ph'[r]
      <4>1. CASE q = p
        BY <2>1, <3>1, <3>4, <4>1 DEF TypeOK
      <4>2. CASE r = p
        BY <2>1, <3>1, <3>4, <4>2 DEF TypeOK
      <4>3. CASE q # p /\ r # p
        BY <2>1, <2>5, <3>4, <4>3 DEF IInv, OwnedIndices
      <4> QED BY <4>1, <4>2, <4>3
    <3> QED BY <3>3, <3>4 DEF OwnedIndices
  <2>9. ClaimHasRoom'
    BY <2>1 DEF IInv, ClaimHasRoom, TypeOK
  <2>10. ConsumerReads'
    BY <2>1, <2>4 DEF IInv, ConsumerReads, PopPublished, TypeOK
  <2>11. FifoOrder'
    BY <1>r, <2>1, <2>4 DEF IInv, FifoOrder, TypeOK
  <2> QED BY <2>3, <2>7, <2>8, <2>9, <2>10, <2>11 DEF IInv
<1>7. ASSUME NEW p \in Producers, PushWrite(p) PROVE IInv'
  <2>1. /\ ppc[p] = "write" /\ Owns(p) /\ Owns(p)'
        /\ data' = [data EXCEPT ![SlotOf(ph[p])] = pitem[p]]
        /\ ppc' = [ppc EXCEPT ![p] = "publish"]
        /\ UNCHANGED <<head, tail, seq, ph, pitem, cpc, cdata, log, out, Released>>
    BY <1>7 DEF PushWrite, cvars, Released, Owns, TypeOK
  <2>2. \A q \in Producers : (Owns(q)' <=> Owns(q)) /\ (q # p => ppc'[q] = ppc[q])
    BY <2>1 DEF Owns, TypeOK
  <2>3. /\ ph[p] \in Nat /\ Released <= ph[p] /\ ph[p] < head
        /\ seq[SlotOf(ph[p])] = ph[p]
    BY <2>1 DEF IInv, OwnedIndices, TypeOK
  <2>4. SlotOf(ph[p]) \in Slots
    BY <2>3, SlotInRange
  <2>5. \A s \in Slots : s # SlotOf(ph[p]) => data'[s] = data[s]
    BY <2>1 DEF TypeOK
  <2>6. WindowSlots'
    <3> SUFFICES ASSUME NEW i \in Window
                 PROVE  \/ i >= head /\ seq[SlotOf(i)] = i
                        \/ i < head /\ seq[SlotOf(i)] = i /\ \E q \in Producers : Owns(q)' /\ ph[q] = i
                        \/ i < head /\ seq[SlotOf(i)] = i + 1 /\ data'[SlotOf(i)] = log[i + 1]
      BY <2>1 DEF WindowSlots, Window
    <3>1. i \in Nat
      BY <1>r DEF Window
    <3>2. CASE seq[SlotOf(i)] = i
      BY <2>2, <3>1, <3>2 DEF IInv, WindowSlots
    <3>3. CASE seq[SlotOf(i)] = i + 1 /\ i < head
      <4>1. i # ph[p]
        BY <2>3, <3>1, <3>3
      <4>2. SlotOf(i) # SlotOf(ph[p])
        <5>1. ph[p] \in Window
          BY <1>w, <2>3
        <5> QED BY <1>d, <4>1, <5>1
      <4>3. data'[SlotOf(i)] = data[SlotOf(i)]
        BY <2>5, <3>1, <4>2, SlotInRange
      <4> QED BY <3>1, <3>3, <4>3 DEF IInv, WindowSlots
    <3> QED BY <3>2, <3>3 DEF IInv, WindowSlots
  <2>7. OwnedIndices'
    <3>1. data'[SlotOf(ph[p])] = pitem[p]
      BY <2>1, <2>4 DEF TypeOK
    <3>2. ASSUME NEW q \in Producers, Owns(q), q # p
          PROVE  data'[SlotOf(ph[q])] = data[SlotOf(ph[q])]
      <4>1. ph[q] \in Nat /\ Released <= ph[q] /\ ph[q] < head /\ ph[q] # ph[p]
        BY <2>1, <3>2 DEF IInv, OwnedIndices, TypeOK
      <4>2. SlotOf(ph[q]) # SlotOf(ph[p])
        <5>1. ph[p] \in Window /\ ph[q] \in Window
          BY <1>w, <2>3, <4>1
        <5> QED BY <1>d, <4>1, <5>1
      <4> QED BY <2>5, <4>1, <4>2, SlotInRange
    <3> QED BY <2>1, <2>2, <3>1, <3>2 DEF IInv, OwnedIndices
  <2>8. ClaimHasRoom'
    BY <2>1 DEF IInv, ClaimHasRoom, TypeOK
  <2>9. WithinCapacity' /\ ConsumerReads' /\ FifoOrder'
    BY <2>1 DEF IInv, WithinCapacity, ConsumerReads, PopPublished, FifoOrder
  <2> QED BY <2>6, <2>7, <2>8, <2>9 DEF IInv
<1>8. ASSUME NEW p \in Producers, PushPublish(p) PROVE IInv'
  <2>1. /\ ppc[p] = "publish" /\ Owns(p) /\ ~Owns(p)'
        /\ seq' = [seq EXCEPT ![SlotOf(ph[p])] = ph[p] + 1]
        /\ ppc' = [ppc EXCEPT ![p] = "idle"]
        /\ UNCHANGED <<head, tail, data, ph, pitem, cpc, cdata, log, out, Released>>
    BY <1>8 DEF PushPublish, cvars, Released, Owns, TypeOK
  <2>2. \A q \in Producers : q # p => (Owns(q)' <=> Owns(q)) /\ ppc'[q] = ppc[q]
    BY <2>1 DEF Owns, TypeOK
  <2>3. /\ ph[p] \in Nat /\ Released <= ph[p] /\ ph[p] < head
        /\ seq[SlotOf(ph[p])] = ph[p]
        /\ data[SlotOf(ph[p])] = log[ph[p] + 1]
    BY <2>1 DEF IInv, OwnedIndices, TypeOK
  <2>4. SlotOf(ph[p]) \in Slots
    BY <2>3, SlotInRange
  <2>5. seq'[SlotOf(ph[p])] = ph[p] + 1
    BY <2>1, <2>4 DEF TypeOK
  <2>6. ASSUME NEW i \in Nat, i # ph[p], Released <= i, i < Released + Capacity
        PROVE  seq'[SlotOf(i)] = seq[SlotOf(i)]
    <3>0. i - ph[p] < Capacity /\ ph[p] - i < Capacity
      <4>1. head \in Nat
        BY DEF TypeOK
      <4>2. ph[p] \in Nat /\ Released <= ph[p] /\ ph[p] < head
        BY <2>3
      <4>3. i \in Nat /\ Released <= i /\ i < Released + Capacity
        BY <2>6
      <4> QED BY <1>r, <4>1, <4>2, <4>3
    <3>1. SlotOf(i) # SlotOf(ph[p])
      BY <2>3, <2>6, <3>0, SlotDistinct
    <3>2. SlotOf(i) \in Slots
      BY SlotInRange
    <3> QED BY <2>1, <3>1, <3>2 DEF TypeOK
  <2>7. WindowSlots'
    <3> SUFFICES ASSUME NEW i \in Window
                 PROVE  \/ i >= head /\ seq'[SlotOf(i)] = i
                        \/ i < head /\ seq'[SlotOf(i)] = i /\ \E q \in Producers : Owns(q)' /\ ph[q] = i
                        \/ i < head /\ seq'[SlotOf(i)] = i + 1 /\ data[SlotOf(i)] = log[i + 1]
      BY <2>1 DEF WindowSlots, Window
    <3>1. i \in Nat /\ Released <= i /\ i < Released + Capacity
      BY <1>r DEF Window
    <3>2. CASE i = ph[p]
      BY <2>3, <2>5, <3>2
    <3>3. CASE i # ph[p]
      <4>1. seq'[SlotOf(i)] = seq[SlotOf(i)]
        BY <2>6, <3>1, <3>3
      <4> QED BY <2>2, <3>3, <4>1 DEF IInv, WindowSlots
    <3> QED BY <3>2, <3>3
  <2>8. OwnedIndices'
    <3>1. ASSUME NEW q \in Producers, Owns(q)'
          PROVE  q # p /\ Owns(q) /\ seq'[SlotOf(ph[q])] = seq[SlotOf(ph[q])]
      <4>1. q # p /\ Owns(q)
        BY <2>1, <2>2, <3>1
      <4>2. ph[q] \in Nat /\ Released <= ph[q] /\ ph[q] < head /\ ph[q] # ph[p]
        BY <2>1, <4>1 DEF IInv, OwnedIndices, TypeOK
      <4>3. ph[q] < Released + Capacity
        BY <1>r, <4>2 DEF TypeOK
      <4> QED BY <2>6, <4>1, <4>2, <4>3
    <3> QED BY <2>1, <2>2, <3>1 DEF IInv, OwnedIndices
  <2>9. ClaimHasRoom'
    BY <2>1 DEF IInv, ClaimHasRoom, TypeOK
  <2>10. ConsumerReads'
    <3> SUFFICES ASSUME cpc \in {"read", "release"} PROVE seq'[SlotOf(tail)] = seq[SlotOf(tail)]
      BY <2>1 DEF IInv, ConsumerReads, PopPublished
    <3>1. Released = tail /\ tail \in Nat /\ seq[SlotOf(tail)] = tail + 1
      BY DEF Released, IInv, ConsumerReads, PopPublished, TypeOK
    <3>2. tail # ph[p]
      BY <2>3, <3>1
    <3> QED BY <2>6, <3>1, <3>2
  <2>11. WithinCapacity' /\ FifoOrder'
    BY <2>1 DEF IInv, WithinCapacity, FifoOrder
  <2> QED BY <2>7, <2>8, <2>9, <2>10, <2>11 DEF IInv
<1>9. CASE PopStart
  <2>1. /\ cpc = "idle" /\ PopPublished /\ cpc' = "read"
        /\ UNCHANGED <<head, tail, seq, data, ppc, ph, pitem, cdata, log, out>>
    BY <1>9 DEF PopStart, shared, pvars
  <2>2. UNCHANGED Released
    BY <2>1 DEF Released
  <2>3. tail < head
    <3>1. Released = tail
      BY <2>1 DEF Released
    <3>2. tail \in Window
      BY <1>r, <3>1 DEF Window, TypeOK
    <3>3. ~ (tail >= head /\ seq[SlotOf(tail)] = tail)
      BY <2>1 DEF PopPublished, TypeOK
    <3> QED BY <3>2, <3>3 DEF IInv, WindowSlots
  <2>4. WithinCapacity' /\ FifoOrder'
    BY <2>1, <2>2 DEF IInv, WithinCapacity, FifoOrder
  <2>5. WindowSlots'
    BY <2>1, <2>2 DEF IInv, WindowSlots, Window, Owns
  <2>6. OwnedIndices' /\ ClaimHasRoom'
    BY <2>1, <2>2 DEF IInv, OwnedIndices, ClaimHasRoom, Owns
  <2>7. ConsumerReads'
    BY <2>1, <2>3 DEF ConsumerReads, PopPublished
  <2> QED BY <2>4, <2>5, <2>6, <2>7 DEF IInv
<1>10. CASE PopRead
  <2>1. /\ cpc = "read" /\ cpc' = "release" /\ cdata' = data[SlotOf(tail)]
        /\ UNCHANGED <<head, tail, seq, data, ppc, ph, pitem, log, out>>
    BY <1>10 DEF PopRead, shared, pvars
  <2>2. UNCHANGED Released /\ Released = tail
    BY <2>1 DEF Released
  <2>3. tail < head /\ PopPublished
    BY <2>1 DEF IInv, ConsumerReads
  <2>4. data[SlotOf(tail)] = log[tail + 1]
    <3>1. tail \in Window
      BY <1>r, <2>2 DEF Window, TypeOK
    <3>2. seq[SlotOf(tail)] # tail
      BY <2>3 DEF PopPublished, TypeOK
    <3> QED BY <3>1, <3>2 DEF IInv, WindowSlots
  <2>5. WithinCapacity' /\ FifoOrder'
    BY <2>1, <2>2 DEF IInv, WithinCapacity, FifoOrder
  <2>6. WindowSlots'
    BY <2>1, <2>2 DEF IInv, WindowSlots, Window, Owns
  <2>7. OwnedIndices' /\ ClaimHasRoom'
    BY <2>1, <2>2 DEF IInv, OwnedIndices, ClaimHasRoom, Owns
  <2>8. ConsumerReads'
    BY <2>1, <2>3, <2>4 DEF ConsumerReads, PopPublished
  <2> QED BY <2>5, <2>6, <2>7, <2>8 DEF IInv
<1>11. CASE PopRelease
  <2>1. /\ cpc = "release" /\ cpc' = "advance"
        /\ seq' = [seq EXCEPT ![SlotOf(tail)] = tail + Capacity]
        /\ out' = Append(out, cdata)
        /\ UNCHANGED <<head, tail, data, ppc, ph, pitem, cdata, log>>
    BY <1>11 DEF PopRelease, pvars
  <2>2. Released = tail /\ Released' = tail + 1 /\ tail \in Nat /\ head \in Nat
    BY <2>1 DEF Released, TypeOK
  <2>3. tail < head /\ seq[SlotOf(tail)] = tail + 1 /\ cdata = log[tail + 1]
    BY <2>1 DEF IInv, ConsumerReads, PopPublished
  <2>4. \A q \in Producers : Owns(q)' <=> Owns(q)
    BY <2>1 DEF Owns
  <2>5. seq'[SlotOf(tail)] = tail + Capacity
    <3>1. SlotOf(tail) \in Slots
      BY <2>2, SlotInRange
    <3> QED BY <2>1, <3>1 DEF TypeOK
  <2>6. ASSUME NEW i \in Nat, tail < i, i < tail + Capacity
        PROVE  seq'[SlotOf(i)] = seq[SlotOf(i)]
    <3>0. i # tail /\ i - tail < Capacity /\ tail - i < Capacity
      BY <2>2, <2>6
    <3>1. SlotOf(i) # SlotOf(tail)
      BY <2>2, <3>0, SlotDistinct
    <3>2. SlotOf(i) \in Slots
      BY SlotInRange
    <3> QED BY <2>1, <3>1, <3>2 DEF TypeOK
  <2>7. WithinCapacity'
    BY <1>r, <2>1, <2>2, <2>3 DEF WithinCapacity
  <2>8. WindowSlots'
    <3> SUFFICES ASSUME NEW i \in (tail + 1)..(tail + Capacity)
                 PROVE  \/ i >= head /\ seq'[SlotOf(i)] = i
                        \/ i < head /\ seq'[SlotOf(i)] = i /\ \E q \in Producers : Owns(q) /\ ph[q] = i
                        \/ i < head /\ seq'[SlotOf(i)] = i + 1 /\ data[SlotOf(i)] = log[i + 1]
      <4>1. Window' = (tail + 1)..(tail + Capacity)
        BY <2>2 DEF Window
      <4> QED BY <2>1, <2>4, <4>1 DEF WindowSlots
    <3>1. i \in Nat /\ tail < i
      BY <2>2
    <3>2. CASE i = tail + Capacity
      <4>1. SlotOf(i) = SlotOf(tail)
        BY <2>2, <3>2, SlotNextLap
      <4>2. i >= head
        BY <1>r, <2>2, <3>2
      <4> QED BY <2>5, <3>2, <4>1, <4>2
    <3>3. CASE i < tail + Capacity
      <4>1. seq'[SlotOf(i)] = seq[SlotOf(i)]
        BY <2>6, <3>1, <3>3
      <4>2. i \in Window
        BY <2>2, <3>1, <3>3 DEF Window
      <4> QED BY <4>1, <4>2 DEF IInv, WindowSlots
    <3> QED BY <2>2, <3>1, <3>2, <3>3
  <2>9. OwnedIndices'
    <3>1. ASSUME NEW q \in Producers, Owns(q)
          PROVE  tail + 1 <= ph[q] /\ seq'[SlotOf(ph[q])] = seq[SlotOf(ph[q])]
      <4>1. /\ ph[q] \in Nat /\ tail <= ph[q] /\ ph[q] < head
            /\ seq[SlotOf(ph[q])] = ph[q]
        BY <2>2, <3>1 DEF IInv, OwnedIndices, TypeOK
      <4>2. ph[q] # tail
        BY <2>2, <2>3, <4>1
      <4>3. tail < ph[q]
        BY <2>2, <4>1, <4>2
      <4>4. ph[q] < tail + Capacity
        <5>1. ph[q] < head /\ ph[q] \in Nat
          BY <4>1
        <5> QED BY <1>r, <2>2, <5>1
      <4>5. tail + 1 <= ph[q]
        <5>1. ph[q] \in Nat
          BY <4>1
        <5> QED BY <2>2, <4>3, <5>1
      <4> QED BY <2>6, <4>1, <4>3, <4>4, <4>5
    <3> QED BY <2>1, <2>2, <2>4, <3>1 DEF IInv, OwnedIndices
  <2>10. ClaimHasRoom'
    <3>1. head - Released < Capacity => head - Released' < Capacity
      BY <2>2
    <3> QED BY <2>1, <3>1 DEF IInv, ClaimHasRoom
  <2>11. ConsumerReads'
    BY <2>1 DEF ConsumerReads
  <2>12. FifoOrder'
    <3>1. /\ Len(out) = tail /\ Len(log) = head
          /\ \A i \in 1..tail : out[i] = log[i]
      BY <2>2 DEF IInv, FifoOrder
    <3>2. /\ Len(out') = tail + 1 /\ out'[tail + 1] = cdata
          /\ \A i \in 1..tail : out'[i] = out[i]
      BY <2>1, <2>2, <3>1 DEF TypeOK
    <3>3. \A i \in 1..(tail + 1) : i \in 1..tail \/ i = tail + 1
      BY <2>2
    <3> QED BY <2>1, <2>2, <2>3, <3>1, <3>2, <3>3 DEF FifoOrder
  <2> QED BY <2>7, <2>8, <2>9, <2>10, <2>11, <2>12 DEF IInv
<1>12. CASE PopAdvance
  <2>1. /\ cpc = "advance" /\ tail' = tail + 1 /\ cpc' = "idle"
        /\ UNCHANGED <<head, seq, data, ppc, ph, pitem, cdata, log, out>>
    BY <1>12 DEF PopAdvance, pvars
  <2>2. UNCHANGED Released
    BY <2>1 DEF Released
  <2>3. WithinCapacity' /\ FifoOrder'
    BY <2>1, <2>2 DEF IInv, WithinCapacity, FifoOrder
  <2>4. WindowSlots'
    BY <2>1, <2>2 DEF IInv, WindowSlots, Window, Owns
  <2>5. OwnedIndices' /\ ClaimHasRoom'
    BY <2>1, <2>2 DEF IInv, OwnedIndices, ClaimHasRoom, Owns
  <2>6. ConsumerReads'
    BY <2>1 DEF ConsumerReads
  <2> QED BY <2>3, <2>4, <2>5, <2>6 DEF IInv
<1>13. CASE UNCHANGED vars
  <2>1. \A q \in Producers :
            /\ Owns(q)' <=> Owns(q)
            /\ Owns(q) => ph'[q] = ph[q] /\ pitem'[q] = pitem[q] /\ ppc'[q] = ppc[q]
    BY <1>13 DEF vars, pvars, Owns
  <2>2. UNCHANGED <<shared, cvars, log, out>>
    BY <1>13 DEF vars
  <2>3. ClaimHasRoom'
    BY <1>13 DEF vars, pvars, IInv, ClaimHasRoom, Released, shared, cvars
  <2> QED BY <2>1, <2>2, <2>3, LocalStep DEF IInv
<1> QED BY <1>1, <1>2, <1>3, <1>4, <1>5, <1>6, <1>7, <1>8, <1>9, <1>10,
           <1>11, <1>12, <1>13 DEF Next, Push, Pop

\* The initial ring satisfies the inductive invariant.
LEMMA IInvInit == Init => IInv
<1> SUFFICES ASSUME Init PROVE IInv
  OBVIOUS
<1>0. Capacity \in Nat \ {0}
  BY CapacityAssumption
<1>1. TypeOK
  BY <1>0, MaxCallsAssumption DEF Init, TypeOK, Slots, Items, NULL
<1>2. Released = 0 /\ head = 0 /\ \A p \in Producers : ~Owns(p) /\ ph[p] = 0
  BY DEF Init, Released, Owns
<1>3. WindowSlots
  <2> SUFFICES ASSUME NEW i \in 0..(Capacity - 1) PROVE i >= head /\ seq[SlotOf(i)] = i
    BY <1>0, <1>2 DEF WindowSlots, Window
  <2>1. SlotOf(i) = i
    BY <1>0 DEF SlotOf
  <2> QED BY <1>0, <2>1 DEF Init, Slots
<1>4. WithinCapacity /\ OwnedIndices /\ ClaimHasRoom
  BY <1>0, <1>2 DEF Init, WithinCapacity, OwnedIndices, ClaimHasRoom
<1>5. ConsumerReads /\ FifoOrder
  BY <1>2 DEF Init, ConsumerReads, FifoOrder
<1> QED BY <1>1, <1>3, <1>4, <1>5 DEF IInv

\* The inductive invariant holds in every behaviour of the ring.
THEOREM Inductive == ASSUME Capacity >= 2 PROVE Spec => []IInv
<1>1. IInv /\ [Next]_vars => IInv'
  BY IInvStep
<1> QED BY <1>1, IInvInit, PTL DEF Spec
(***************************************************************************)
(* The results                                                             *)
(***************************************************************************)
\* push never claims more indices than there are free slots.
THEOREM CapacityRespected == ASSUME Capacity >= 2 PROVE Spec => []WithinCapacity
<1>1. IInv => WithinCapacity
  BY DEF IInv
<1> QED BY <1>1, Inductive, PTL

\* pop hands out exactly the items of the claimed indices, in claim order.
THEOREM FirstInFirstOut == ASSUME Capacity >= 2 PROVE Spec => []FifoOrder
<1>1. IInv => FifoOrder
  BY DEF IInv
<1> QED BY <1>1, Inductive, PTL

\* No two threads touch the plain data field of one slot at the same time.
THEOREM RaceFree == ASSUME Capacity >= 2 PROVE Spec => []NoDataRace
<1>1. IInv => NoDataRace
  <2> SUFFICES ASSUME IInv PROVE NoDataRace
    OBVIOUS
  <2>0. TypeOK /\ Capacity \in Nat
    BY CapacityAssumption DEF IInv
  <2>1. Released \in Nat /\ Released <= head /\ head - Released <= Capacity /\ head \in Nat
    BY <2>0 DEF IInv, WithinCapacity, Released, TypeOK
  <2>2. ASSUME NEW p \in Producers, Owns(p)
        PROVE  /\ ph[p] \in Nat /\ Released <= ph[p] /\ ph[p] < head
               /\ seq[SlotOf(ph[p])] = ph[p]
    BY <2>0, <2>2 DEF IInv, OwnedIndices, TypeOK
  <2>3. ASSUME NEW p \in Producers, NEW q \in Producers, p # q, Owns(p), Owns(q)
        PROVE  SlotOf(ph[p]) # SlotOf(ph[q])
    <3>1. ph[p] \in Nat /\ Released <= ph[p] /\ ph[p] < head
      BY <2>2, <2>3
    <3>2. ph[q] \in Nat /\ Released <= ph[q] /\ ph[q] < head
      BY <2>2, <2>3
    <3>3. ph[p] # ph[q]
      BY <2>3 DEF IInv, OwnedIndices
    <3>4. ph[p] - ph[q] < Capacity /\ ph[q] - ph[p] < Capacity
      BY <2>0, <2>1, <3>1, <3>2
    <3> QED BY <3>1, <3>2, <3>3, <3>4, SlotDistinct
  <2>4. ASSUME NEW p \in Producers, Owns(p), cpc \in {"read", "release"}
        PROVE  SlotOf(ph[p]) # SlotOf(tail)
    <3>1. ph[p] \in Nat /\ Released <= ph[p] /\ ph[p] < head /\ seq[SlotOf(ph[p])] = ph[p]
      BY <2>2, <2>4
    <3>2. Released = tail /\ seq[SlotOf(tail)] = tail + 1
      BY <2>4 DEF Released, IInv, ConsumerReads, PopPublished
    <3>3. ph[p] # tail
      BY <2>1, <3>1, <3>2
    <3>4. ph[p] - tail < Capacity /\ tail - ph[p] < Capacity
      <4>1. ph[p] \in Nat /\ Released <= ph[p] /\ ph[p] < head /\ Released = tail
        BY <3>1, <3>2
      <4> QED BY <2>0, <2>1, <4>1
    <3> QED BY <2>1, <3>1, <3>2, <3>3, <3>4, SlotDistinct
  <2> QED BY <2>3, <2>4 DEF NoDataRace
<1> QED BY <1>1, Inductive, PTL

\* pop returns NULL only for an empty queue or behind an unpublished claim.
THEOREM NullIsHonest == ASSUME Capacity >= 2 PROVE Spec => []NullOnlyIfNotPublished
<1>1. IInv => NullOnlyIfNotPublished
  <2> SUFFICES ASSUME IInv, cpc = "idle", seq[SlotOf(tail)] # tail + 1, tail # head
               PROVE  \E p \in Producers : Owns(p) /\ ph[p] = tail
    BY DEF NullOnlyIfNotPublished, PopPublished
  <2>0. tail \in Nat /\ head \in Nat /\ Capacity \in Nat \ {0}
    BY CapacityAssumption DEF IInv, TypeOK
  <2>1. Released = tail /\ tail < head
    BY <2>0 DEF Released, IInv, WithinCapacity
  <2>2. tail \in Window
    BY <2>0, <2>1 DEF Window
  <2> QED BY <2>0, <2>1, <2>2 DEF IInv, WindowSlots
<1> QED BY <1>1, Inductive, PTL

\* push reports OTLP_ERR_BUFFER_FULL only when every slot is taken.
THEOREM FullIsHonest == ASSUME Capacity >= 2 PROVE Spec => FullOnlyAtCapacity
<1>1. IInv /\ [Next]_vars =>
        [\A p \in Producers : PushFull(p) => head - Released = Capacity]_vars
  <2> SUFFICES ASSUME IInv, NEW p \in Producers, PushFull(p)
               PROVE  head - Released = Capacity
    OBVIOUS
  <2>0. TypeOK /\ Capacity \in Nat \ {0} /\ head \in Nat /\ ph[p] \in Nat
    BY CapacityAssumption DEF IInv, TypeOK
  <2>1. Released \in Nat /\ Released <= head /\ head - Released <= Capacity
    BY <2>0 DEF IInv, WithinCapacity, Released, TypeOK
  <2>2. seq[SlotOf(ph[p])] < ph[p] /\ ph[p] <= head
    BY DEF PushFull, IInv, ClaimHasRoom
  <2>3. SUFFICES ASSUME head - Released < Capacity PROVE FALSE
    BY <2>0, <2>1
  <2>4. CASE ph[p] >= Released
    <3>1. ph[p] \in Window
      BY <2>0, <2>1, <2>2, <2>3, <2>4 DEF Window
    <3> QED BY <2>0, <2>2, <3>1 DEF IInv, WindowSlots
  <2>5. CASE ph[p] < Released
    <3>1. PICK i \in Window : SlotOf(i) = SlotOf(ph[p])
      BY <2>0, <2>1, SlotCovered DEF Window
    <3>2. i \in Nat /\ i >= Released
      BY <2>0, <2>1 DEF Window
    <3>3. seq[SlotOf(i)] \in {i, i + 1}
      BY DEF IInv, WindowSlots
    <3> QED BY <2>0, <2>1, <2>2, <2>5, <3>1, <3>2, <3>3
  <2> QED BY <2>0, <2>1, <2>4, <2>5
<1> QED BY <1>1, Inductive, PTL DEF Spec, FullOnlyAtCapacity

(***************************************************************************)
(* The ring implements the bounded buffer                                  *)
(***************************************************************************)
\* A call of push that has not claimed an index yet.
Pushing(p) == ppc[p] \in {"seq", "cas"}

\* The argument of each call is claimed at most once: a call that is still
\* trying has an item of its own, which is not in the log.
FreshItems ==
  /\ \A i \in 1..Len(log) : log[i] \in 1..calls
  /\ \A i, j \in 1..Len(log) : log[i] = log[j] => i = j
  /\ \A p \in Producers : Pushing(p) =>
       pitem[p] \in 1..calls /\ \A i \in 1..Len(log) : log[i] # pitem[p]
  /\ \A p, q \in Producers : Pushing(p) /\ Pushing(q) /\ pitem[p] = pitem[q] => p = q

\* A step that begins no call and claims nothing keeps the items fresh.
LEMMA FreshFrame ==
  ASSUME FreshItems, UNCHANGED <<log, calls, pitem>>,
         \A p \in Producers : Pushing(p)' => Pushing(p)
  PROVE  FreshItems'
BY DEF FreshItems

\* Every step keeps them fresh.
LEMMA FreshStep == TypeOK /\ FreshItems /\ [Next]_vars => FreshItems'
<1> SUFFICES ASSUME TypeOK, FreshItems, [Next]_vars PROVE FreshItems'
  OBVIOUS
<1>0. calls \in Nat /\ log \in Seq(Items \cup {NULL})
  BY MaxCallsAssumption DEF TypeOK
<1>1. ASSUME NEW p \in Producers, PushStart(p) PROVE FreshItems'
  <2>1. /\ calls' = calls + 1 /\ log' = log /\ pitem'[p] = calls + 1
        /\ \A q \in Producers : q # p => pitem'[q] = pitem[q] /\ (Pushing(q)' <=> Pushing(q))
    BY <1>1 DEF PushStart, Pushing, TypeOK
  <2>2. \A n \in 1..calls : n \in 1..calls' /\ n # calls + 1
    BY <1>0, <2>1
  <2>3. calls + 1 \in 1..calls'
    BY <1>0, <2>1
  <2>4. \A i \in 1..Len(log') : log'[i] \in 1..calls' /\ log'[i] # calls + 1
    BY <2>1, <2>2 DEF FreshItems
  <2>5. \A q \in Producers : Pushing(q)' =>
          pitem'[q] \in 1..calls' /\ \A i \in 1..Len(log') : log'[i] # pitem'[q]
    BY <2>1, <2>2, <2>3, <2>4 DEF FreshItems
  <2>6. \A q, r \in Producers : Pushing(q)' /\ Pushing(r)' /\ pitem'[q] = pitem'[r] => q = r
    BY <2>1, <2>2 DEF FreshItems
  <2> QED BY <2>1, <2>4, <2>5, <2>6 DEF FreshItems
<1>2. ASSUME NEW p \in Producers, PushClaim(p) PROVE FreshItems'
  <2>1. /\ Pushing(p) /\ ~Pushing(p)' /\ log' = Append(log, pitem[p]) /\ UNCHANGED <<calls, pitem>>
        /\ \A q \in Producers : q # p => (Pushing(q)' <=> Pushing(q))
    BY <1>2 DEF PushClaim, Pushing, TypeOK
  <2>2. pitem[p] \in Items \cup {NULL}
    BY DEF TypeOK
  <2> DEFINE x == pitem[p]
  <2> HIDE DEF x
  <2>3. /\ Len(log) \in Nat /\ Len(log') = Len(log) + 1 /\ log'[Len(log) + 1] = x
        /\ \A i \in 1..Len(log) : log'[i] = log[i]
    BY <1>0, <2>1, <2>2 DEF x
  <2>4. \A i \in 1..Len(log') : i \in 1..Len(log) \/ i = Len(log) + 1
    BY <2>3
  <2>5. x \in 1..calls /\ \A i \in 1..Len(log) : log[i] # x
    BY <2>1 DEF FreshItems, x
  <2>6. \A i, j \in 1..Len(log') : log'[i] = log'[j] => i = j
    BY <2>3, <2>4, <2>5 DEF FreshItems
  <2>7. \A i \in 1..Len(log') : log'[i] \in 1..calls'
    BY <2>1, <2>3, <2>4, <2>5 DEF FreshItems
  <2>8. \A q \in Producers : Pushing(q)' => q # p /\ Pushing(q) /\ pitem[q] # x
    BY <2>1 DEF FreshItems, x
  <2>9. \A q \in Producers : Pushing(q)' =>
          pitem'[q] \in 1..calls' /\ \A i \in 1..Len(log') : log'[i] # pitem'[q]
    BY <2>1, <2>3, <2>4, <2>8 DEF FreshItems
  <2> QED BY <2>1, <2>6, <2>7, <2>8, <2>9 DEF FreshItems
<1>3. ASSUME NEW p \in Producers,
             \/ PushSlotFree(p) \/ PushFull(p) \/ PushReload(p) \/ PushClaimFails(p)
             \/ PushWrite(p) \/ PushPublish(p)
      PROVE  FreshItems'
  <2>1. UNCHANGED <<log, calls, pitem>>
    BY <1>3 DEF PushSlotFree, PushFull, PushReload, PushClaimFails, PushWrite, PushPublish
  <2>2. \A q \in Producers : Pushing(q)' => Pushing(q)
    BY <1>3 DEF PushSlotFree, PushFull, PushReload, PushClaimFails, PushWrite, PushPublish,
                Pushing, TypeOK
  <2> QED BY <2>1, <2>2, FreshFrame
<1>4. CASE Pop \/ UNCHANGED vars
  <2>1. UNCHANGED <<log, calls, pitem, ppc>>
    BY <1>4 DEF Pop, PopStart, PopRead, PopRelease, PopAdvance, pvars, vars
  <2> QED BY <2>1, FreshFrame DEF Pushing
<1> QED BY <1>1, <1>2, <1>3, <1>4 DEF Next, Push

\* The buffer that the ring stands for, and the cell of one index.
CellAt(i) == [item |-> log[Released + i],
              ready |-> seq[SlotOf(Released + i - 1)] = Released + i]
Cells == [i \in 1..(head - Released) |-> CellAt(i)]
Cell == [item : Items \cup {NULL}, ready : BOOLEAN]

\* The buffer is a sequence of cells, of claimed indices not yet released.
LEMMA CellsType ==
  ASSUME IInv
  PROVE  /\ Released \in Nat /\ head \in Nat /\ head - Released \in Nat
         /\ Len(log) = head
         /\ Cells \in Seq(Cell) /\ Len(Cells) = head - Released
         /\ DOMAIN Cells = 1..(head - Released)
<1>1. Released \in Nat /\ head \in Nat /\ head - Released \in Nat
  BY DEF IInv, TypeOK, Released, WithinCapacity
<1>2. log \in Seq(Items \cup {NULL}) /\ Len(log) = head
  BY DEF IInv, TypeOK, FifoOrder
<1>3. ASSUME NEW i \in 1..(head - Released) PROVE CellAt(i) \in Cell
  <2>1. Released + i \in 1..Len(log)
    BY <1>1, <1>2
  <2>2. log[Released + i] \in Items \cup {NULL}
    BY <1>2, <2>1
  <2>3. (seq[SlotOf(Released + i - 1)] = Released + i) \in BOOLEAN
    BY Zenon
  <2> QED BY <2>2, <2>3, Zenon DEF CellAt, Cell
<1> DEFINE n == head - Released
<1>4. n \in Nat /\ \A i \in 1..n : CellAt(i) \in Cell
  BY <1>1, <1>3
<1> HIDE DEF n
<1>5. /\ [i \in 1..n |-> CellAt(i)] \in Seq(Cell) /\ Len([i \in 1..n |-> CellAt(i)]) = n
      /\ DOMAIN [i \in 1..n |-> CellAt(i)] = 1..n
  BY <1>4
<1> QED BY <1>1, <1>2, <1>5 DEF n, Cells

\* A sequence is the function with its length and elements.
LEMMA SameSeq ==
  ASSUME NEW S, NEW n \in Nat, NEW f \in [1..n -> S], NEW q \in Seq(S), Len(q) = n,
         \A i \in 1..n : f[i] = q[i]
  PROVE  f = q
<1>1. q \in [1..n -> S]
  OBVIOUS
<1> QED BY <1>1

\* A claim reserves the last cell.
LEMMA ClaimReserves ==
  ASSUME IInv, IInv', FreshItems, NEW p \in Producers, PushClaim(p)
  PROVE  /\ Len(Cells) < Capacity /\ out' = out
         /\ pitem[p] \in Items
         /\ \A i \in 1..Len(Cells) : Cells[i].item # pitem[p]
         /\ \A i \in 1..Len(out) : out[i] # pitem[p]
         /\ Cells' = Append(Cells, [item |-> pitem[p], ready |-> FALSE])
<1>0. TypeOK /\ Capacity \in Nat \ {0}
  BY CapacityAssumption DEF IInv
<1>1. /\ head = ph[p] /\ head' = head + 1 /\ log' = Append(log, pitem[p]) /\ Pushing(p)
      /\ UNCHANGED <<tail, seq, data, cpc, out, Released>>
  BY DEF PushClaim, cvars, Released, Pushing
<1>2. Released \in Nat /\ head \in Nat /\ Len(log) = head /\ head - Released \in Nat
  BY CellsType
<1>3. Len(Cells) < Capacity /\ head < Released + Capacity /\ Released <= head
  <2>1. head - Released < Capacity
    BY <1>1 DEF PushClaim, IInv, ClaimHasRoom
  <2> QED BY <1>0, <1>2, <2>1, CellsType
<1>4. seq[SlotOf(head)] = head
  <2>1. head \in Window
    BY <1>0, <1>2, <1>3 DEF Window
  <2> QED BY <1>2, <2>1 DEF IInv, WindowSlots
<1>5. pitem[p] \in 1..calls /\ \A i \in 1..head : log[i] # pitem[p]
  BY <1>1, <1>2 DEF FreshItems
<1>6. pitem[p] \in Items
  BY <1>0, <1>5, MaxCallsAssumption DEF TypeOK, Items
<1>7. \A i \in 1..Len(out) : out[i] # pitem[p]
  BY <1>2, <1>3, <1>5 DEF IInv, FifoOrder
<1>8. \A i \in 1..(head - Released) : Released + i \in 1..head /\ Cells[i] = CellAt(i)
  BY <1>2, <1>3 DEF Cells
<1>9. \A i \in 1..Len(Cells) : Cells[i].item # pitem[p]
  <2> SUFFICES ASSUME NEW i \in 1..(head - Released) PROVE CellAt(i).item # pitem[p]
    BY <1>8, CellsType
  <2>1. CellAt(i).item = log[Released + i]
    BY DEF CellAt
  <2> QED BY <1>5, <1>8, <2>1
<1> DEFINE c == [item |-> pitem[p], ready |-> FALSE]
<1>10. /\ log'[head + 1] = pitem[p] /\ \A i \in 1..head : log'[i] = log[i]
  BY <1>0, <1>1, <1>2, <1>6 DEF TypeOK
<1>11. c \in Cell
  BY <1>6, Zenon DEF Cell
<1>12. ASSUME NEW i \in 1..(head - Released) PROVE CellAt(i)' = Cells[i]
  BY <1>1, <1>8, <1>10 DEF CellAt
<1>n. PICK n \in Nat : n = head - Released
  BY <1>2
<1>13. CellAt(n + 1)' = c
  <2>1. Released + (n + 1) = head + 1 /\ Released + (n + 1) - 1 = head
    BY <1>2, <1>n
  <2>2. CellAt(n + 1)' = [item |-> log'[Released' + (n + 1)],
                          ready |-> seq'[SlotOf(Released' + (n + 1) - 1)] = Released' + (n + 1)]
    BY DEF CellAt
  <2>3. (seq[SlotOf(head)] = head + 1) = FALSE
    BY <1>2, <1>4
  <2> QED BY <1>1, <1>10, <2>1, <2>2, <2>3
<1> HIDE DEF c
<1>14. Cells' = Append(Cells, c)
  <2>1. Cells \in Seq(Cell) /\ Len(Cells) = n
    BY <1>n, CellsType
  <2>2. Cells' = [i \in 1..(n + 1) |-> CellAt(i)']
    BY <1>1, <1>2, <1>n DEF Cells
  <2>3. ASSUME NEW i \in 1..(n + 1) PROVE CellAt(i)' = IF i = n + 1 THEN c ELSE Cells[i]
    BY <1>12, <1>13, <1>n
  <2>4. /\ Append(Cells, c) \in Seq(Cell) /\ Len(Append(Cells, c)) = n + 1
        /\ \A i \in 1..(n + 1) : Append(Cells, c)[i] = IF i = n + 1 THEN c ELSE Cells[i]
    <3> DEFINE q == Cells
    <3> HIDE DEF q
    <3>1. q \in Seq(Cell) /\ Len(q) = n
      BY <2>1 DEF q
    <3>2. /\ Append(q, c) \in Seq(Cell) /\ Len(Append(q, c)) = n + 1
          /\ \A i \in 1..(n + 1) : Append(q, c)[i] = IF i = n + 1 THEN c ELSE q[i]
      BY <1>11, <3>1
    <3> QED BY <3>2 DEF q
  <2>5. ASSUME NEW i \in 1..(n + 1) PROVE Append(Cells, c)[i] \in Cell /\ Cells'[i] = Append(Cells, c)[i]
    BY <2>2, <2>3, <2>4
  <2>6. Cells' \in [1..(n + 1) -> Cell]
    BY <2>2, <2>5
  <2>7. n + 1 \in Nat
    OBVIOUS
  <2> QED BY <2>4, <2>5, <2>6, <2>7, SameSeq
<1> QED BY <1>1, <1>3, <1>6, <1>7, <1>9, <1>14 DEF c

\* What the store to slot->seq makes of a cell.
LEMMA ReadyCell ==
  ASSUME NEW r \in Cell
  PROVE  [r EXCEPT !.ready = TRUE] = [item |-> r.item, ready |-> TRUE]
<1> DEFINE e == [r EXCEPT !.ready = TRUE]
<1>1. e \in Cell
  BY Zenon DEF Cell
<1>2. e.item = r.item
  BY DEF Cell
<1>3. e.ready = TRUE
  BY Zenon DEF Cell
<1> HIDE DEF e
<1>4. e = [item |-> e.item, ready |-> e.ready]
  BY <1>1, Zenon DEF Cell
<1> QED BY <1>2, <1>3, <1>4 DEF e

\* Publishing makes the cell of the claimed index ready.
LEMMA PublishCommits ==
  ASSUME IInv, NEW p \in Producers, PushPublish(p)
  PROVE  /\ out' = out
         /\ \E k \in DOMAIN Cells : ~Cells[k].ready /\ Cells' = [Cells EXCEPT ![k].ready = TRUE]
<1>0. TypeOK /\ Capacity \in Nat \ {0}
  BY CapacityAssumption DEF IInv
<1>1. /\ Owns(p) /\ seq' = [seq EXCEPT ![SlotOf(ph[p])] = ph[p] + 1]
      /\ UNCHANGED <<head, log, out, Released>>
  BY DEF PushPublish, cvars, Released, Owns
<1>2. Released \in Nat /\ head \in Nat /\ head - Released <= Capacity
  BY CellsType DEF IInv, WithinCapacity
<1>3. ph[p] \in Nat /\ Released <= ph[p] /\ ph[p] < head /\ seq[SlotOf(ph[p])] = ph[p]
  BY <1>0, <1>1 DEF IInv, OwnedIndices, TypeOK
<1>n. PICK n \in Nat : n = head - Released
  BY CellsType
<1>k. PICK k \in 1..n : ph[p] = Released + k - 1
  <2>1. ph[p] - Released + 1 \in 1..n /\ ph[p] = Released + (ph[p] - Released + 1) - 1
    BY <1>2, <1>3, <1>n
  <2> QED BY <2>1
<1>4. Cells = [i \in 1..n |-> CellAt(i)] /\ Cells' = [i \in 1..n |-> CellAt(i)']
  BY <1>1, <1>n DEF Cells
<1>5. SlotOf(ph[p]) \in Slots /\ seq'[SlotOf(ph[p])] = ph[p] + 1
  <2>1. SlotOf(ph[p]) \in Slots
    BY <1>3, SlotInRange
  <2> QED BY <1>0, <1>1, <2>1 DEF TypeOK
<1>6. ASSUME NEW i \in 1..n, i # k PROVE CellAt(i)' = CellAt(i)
  <2> DEFINE j == Released + i - 1
  <2>1. j \in Nat /\ j # ph[p] /\ j - ph[p] < Capacity /\ ph[p] - j < Capacity
    BY <1>0, <1>2, <1>3, <1>n, <1>k, <1>6
  <2>2. SlotOf(j) # SlotOf(ph[p]) /\ SlotOf(j) \in Slots
    <3> HIDE DEF j
    <3> QED BY <1>3, <2>1, SlotDistinct, SlotInRange
  <2>3. seq'[SlotOf(j)] = seq[SlotOf(j)]
    BY <1>0, <1>1, <2>2 DEF TypeOK
  <2> QED BY <1>1, <2>3 DEF CellAt
<1>7. CellAt(k) = [item |-> log[Released + k], ready |-> FALSE]
  <2>1. Released + k = ph[p] + 1 /\ (seq[SlotOf(Released + k - 1)] = Released + k) = FALSE
    BY <1>2, <1>3, <1>k
  <2> QED BY <2>1 DEF CellAt
<1>8. CellAt(k)' = [item |-> log[Released + k], ready |-> TRUE]
  <2>1. Released + k = ph[p] + 1 /\ (seq'[SlotOf(Released + k - 1)] = Released + k) = TRUE
    BY <1>2, <1>3, <1>5, <1>k
  <2>2. CellAt(k)' = [item |-> log'[Released' + k],
                      ready |-> seq'[SlotOf(Released' + k - 1)] = Released' + k]
    BY DEF CellAt
  <2> QED BY <1>1, <2>1, <2>2
<1>9. [CellAt(k) EXCEPT !.ready = TRUE] = [item |-> log[Released + k], ready |-> TRUE]
  <2>1. Cells \in Seq(Cell) /\ Len(Cells) = n /\ Cells[k] = CellAt(k)
    BY <1>4, <1>n, CellsType
  <2>2. CellAt(k) \in Cell
    BY <2>1
  <2>3. CellAt(k).item = log[Released + k]
    BY <1>7
  <2> QED BY <2>2, <2>3, ReadyCell
<1>10. Cells' = [Cells EXCEPT ![k].ready = TRUE]
  <2>1. [Cells EXCEPT ![k].ready = TRUE] = [i \in 1..n |-> IF i = k THEN [CellAt(k) EXCEPT !.ready = TRUE] ELSE CellAt(i)]
    BY <1>4
  <2> QED BY <1>4, <1>6, <1>8, <1>9, <2>1
<1>11. k \in DOMAIN Cells /\ ~Cells[k].ready
  BY <1>4, <1>7
<1> QED BY <1>1, <1>10, <1>11

\* Releasing the slot takes the oldest cell, which is ready.
LEMMA ReleaseTakes ==
  ASSUME IInv, PopRelease
  PROVE  /\ Cells # <<>> /\ Head(Cells).ready
         /\ out' = Append(out, Head(Cells).item) /\ Cells' = Tail(Cells)
<1>0. TypeOK /\ Capacity \in Nat \ {0}
  BY CapacityAssumption DEF IInv
<1>1. /\ cpc = "release" /\ Released = tail /\ Released' = tail + 1
      /\ seq' = [seq EXCEPT ![SlotOf(tail)] = tail + Capacity]
      /\ out' = Append(out, cdata) /\ UNCHANGED <<head, log, tail>>
  BY DEF PopRelease, Released
<1>2. tail \in Nat /\ head \in Nat /\ head - tail <= Capacity /\ tail < head
  BY <1>0, <1>1 DEF IInv, WithinCapacity, TypeOK, ConsumerReads
<1>3. seq[SlotOf(tail)] = tail + 1 /\ cdata = log[tail + 1]
  BY <1>1 DEF IInv, ConsumerReads, PopPublished
<1>n. PICK n \in Nat \ {0} : n = head - tail
  BY <1>2
<1>4. Cells = [i \in 1..n |-> CellAt(i)] /\ Cells' = [i \in 1..(n - 1) |-> CellAt(i)']
  BY <1>1, <1>2, <1>n DEF Cells
<1>5. Cells \in Seq(Cell) /\ Len(Cells) = n
  BY <1>1, <1>n, CellsType
<1>6. ASSUME NEW i \in 1..(n - 1) PROVE CellAt(i)' = Cells[i + 1]
  <2> DEFINE j == tail + i
  <2>1. j \in Nat /\ j # tail /\ j - tail < Capacity /\ tail - j < Capacity
    BY <1>0, <1>2, <1>n
  <2>2. SlotOf(j) # SlotOf(tail) /\ SlotOf(j) \in Slots
    <3> HIDE DEF j
    <3> QED BY <1>2, <2>1, SlotDistinct, SlotInRange
  <2>3. seq'[SlotOf(j)] = seq[SlotOf(j)]
    BY <1>0, <1>1, <2>2 DEF TypeOK
  <2>4. i + 1 \in 1..n /\ (tail + 1) + i = tail + (i + 1) /\ (tail + 1) + i - 1 = j /\ tail + (i + 1) - 1 = j
    BY <1>2, <1>n
  <2>5. CellAt(i)' = [item |-> log'[Released' + i],
                      ready |-> seq'[SlotOf(Released' + i - 1)] = Released' + i]
    BY DEF CellAt
  <2>6. CellAt(i)' = [item |-> log[tail + (i + 1)], ready |-> seq[SlotOf(j)] = tail + (i + 1)]
    BY <1>1, <2>3, <2>4, <2>5
  <2>7. CellAt(i + 1) = [item |-> log[tail + (i + 1)], ready |-> seq[SlotOf(j)] = tail + (i + 1)]
    BY <1>1, <2>4 DEF CellAt
  <2> QED BY <1>4, <2>4, <2>6, <2>7
<1>7. Cells # <<>> /\ Head(Cells) = CellAt(1)
  <2> DEFINE q == Cells
  <2>1. q \in Seq(Cell) /\ Len(q) = n /\ q[1] = CellAt(1)
    BY <1>4, <1>5, <1>n
  <2> HIDE DEF q
  <2>2. q # <<>> /\ Head(q) = q[1]
    BY <1>n, <2>1
  <2> QED BY <2>1, <2>2 DEF q
<1>8. CellAt(1).ready /\ CellAt(1).item = cdata
  <2>1. (seq[SlotOf(tail + 1 - 1)] = tail + 1) = TRUE
    BY <1>2, <1>3
  <2> QED BY <1>1, <1>3, <2>1 DEF CellAt
<1>9. Cells' = Tail(Cells)
  <2> DEFINE q == Cells
  <2>1. q \in Seq(Cell) /\ Len(q) = n /\ q # <<>>
    BY <1>5, <1>7
  <2> HIDE DEF q
  <2>2. Tail(q) \in Seq(Cell) /\ Len(Tail(q)) = n - 1 /\ \A i \in 1..(n - 1) : Tail(q)[i] = q[i + 1]
    BY <1>n, <2>1
  <2>3. \A i \in 1..(n - 1) : Tail(q)[i] \in Cell
    BY <2>2
  <2>4. \A i \in 1..(n - 1) : Cells'[i] = Tail(q)[i]
    BY <1>4, <1>6, <2>2 DEF q
  <2>5. Cells' \in [1..(n - 1) -> Cell]
    BY <1>4, <2>3, <2>4
  <2>6. n - 1 \in Nat
    OBVIOUS
  <2>7. Cells' = Tail(q)
    BY <2>2, <2>4, <2>5, <2>6, SameSeq
  <2> QED BY <2>7 DEF q
<1> QED BY <1>1, <1>7, <1>8, <1>9

\* The other steps change nothing of the buffer.
LEMMA OtherStepsStutter ==
  ASSUME [Next]_vars, ~ \E p \in Producers : PushClaim(p) \/ PushPublish(p), ~PopRelease
  PROVE  Cells' = Cells /\ out' = out
<1>1. UNCHANGED <<head, seq, log, out, Released>>
  <2>1. ASSUME NEW p \in Producers, Push(p) PROVE UNCHANGED <<head, tail, seq, log, out, cpc>>
    BY <2>1 DEF Push, PushStart, PushSlotFree, PushFull, PushReload, PushClaimFails, PushWrite,
                shared, cvars
  <2>2. CASE PopStart \/ PopRead \/ PopAdvance
    BY <2>2 DEF PopStart, PopRead, PopAdvance, shared, Released
  <2>3. CASE UNCHANGED vars
    BY <2>3 DEF vars, shared, cvars, Released
  <2> QED BY <2>1, <2>2, <2>3 DEF Next, Pop, Released
<1> QED BY <1>1 DEF Cells, CellAt

\* Every step of the ring is a step of the buffer, or none.
LEMMA StepSimulates ==
  ASSUME Capacity >= 2, IInv, FreshItems, [Next]_vars
  PROVE  [Fifo!FifoNext]_(Fifo!fvars)
<1>0. IInv'
  BY IInvStep
<1>1. ASSUME NEW p \in Producers, PushClaim(p) PROVE Fifo!Reserve
  <2>1. /\ Len(Cells) < Capacity /\ out' = out /\ pitem[p] \in Items
        /\ \A i \in 1..Len(Cells) : Cells[i].item # pitem[p]
        /\ \A i \in 1..Len(out) : out[i] # pitem[p]
        /\ Cells' = Append(Cells, [item |-> pitem[p], ready |-> FALSE])
    BY <1>0, <1>1, ClaimReserves
  <2>2. DOMAIN Cells = 1..Len(Cells) /\ DOMAIN out = 1..Len(out)
    <3>1. out \in Seq(Items \cup {NULL})
      BY DEF IInv, TypeOK
    <3> QED BY <3>1, CellsType
  <2>3. pitem[p] \in Items \ ({Cells[i].item : i \in DOMAIN Cells} \cup {out[i] : i \in DOMAIN out})
    BY <2>1, <2>2
  <2> QED BY <2>1, <2>3 DEF Fifo!Reserve, Fifo!Accepted, Cells, CellAt
<1>2. ASSUME NEW p \in Producers, PushPublish(p) PROVE Fifo!Commit
  BY <1>2, PublishCommits DEF Fifo!Commit, Cells, CellAt
<1>3. ASSUME PopRelease PROVE Fifo!Take
  <2>1. /\ Cells # <<>> /\ Head(Cells).ready
        /\ out' = Append(out, Head(Cells).item) /\ Cells' = Tail(Cells)
    BY <1>3, ReleaseTakes
  <2> QED BY <2>1, Zenon DEF Fifo!Take, Cells, CellAt
<1>4. CASE ~(\E p \in Producers : PushClaim(p) \/ PushPublish(p)) /\ ~PopRelease
  <2>1. Cells' = Cells /\ out' = out
    BY <1>4, OtherStepsStutter
  <2> QED BY <2>1 DEF Fifo!fvars, Cells, CellAt
<1> QED BY <1>1, <1>2, <1>3, <1>4 DEF Fifo!FifoNext

\* mpsc_queue implements the bounded buffer that the exporter relies on: what
\* push claims and pop releases, through the seq protocol, are the reservations,
\* commits and takes of BoundedFifo.
THEOREM RingImplementsFifo ==
  ASSUME Capacity >= 2
  PROVE  Spec => ImplementsFifo
<1>1. Init => Fifo!FifoInit
  <2> SUFFICES ASSUME Init PROVE Cells = <<>> /\ out = <<>>
    BY DEF Fifo!FifoInit, Cells, CellAt
  <2>1. head - Released = 0 /\ out = <<>>
    BY DEF Init, Released
  <2>2. Cells = [i \in 1..0 |-> CellAt(i)]
    BY <2>1 DEF Cells
  <2>3. 1..0 = {}
    OBVIOUS
  <2> QED BY <2>1, <2>2, <2>3
<1>2. Init => FreshItems
  BY DEF Init, FreshItems, Pushing
<1>3. IInv /\ FreshItems /\ [Next]_vars => FreshItems'
  BY FreshStep DEF IInv
<1>4. IInv /\ FreshItems /\ [Next]_vars => [Fifo!FifoNext]_(Fifo!fvars)
  BY StepSimulates
<1> QED BY <1>1, <1>2, <1>3, <1>4, Inductive, PTL DEF Spec, ImplementsFifo, Fifo!FifoSpec
=============================================================================
