----------------------------- MODULE MpscQueue -----------------------------
(***************************************************************************)
(* The lock-free ring of src/mpsc_queue.c: many producers push, the one    *)
(* thread that runs the exporter's tick pops.  There is one action per     *)
(* access to shared memory; the local computation that follows an access   *)
(* belongs to that access.                                                 *)
(*                                                                         *)
(* Loads of head are relaxed, so they may return any value between the     *)
(* last one the thread saw and the current one.  Loads of a slot's seq     *)
(* (acquire) return the last store.  seq numbers are naturals: the code's  *)
(* 64-bit counters wrap after 2^64 pushes.                                 *)
(***************************************************************************)
EXTENDS Naturals, Integers, Sequences, FiniteSets

CONSTANTS Producers,  \* threads that call mpsc_queue_push
          Capacity,   \* slots of the ring
          MaxCalls    \* bound: number of calls of mpsc_queue_push

is_pow2(n) == n > 0 /\ \E k \in 0..n : n = 2^k

ASSUME CapacityAssumption == Capacity \in Nat \ {0} /\ is_pow2(Capacity)
ASSUME MaxCallsAssumption == MaxCalls \in Nat

NULL == 0              \* slots are calloc'ed
Items == 1..MaxCalls   \* the pointer passed to the n-th call of push

VARIABLES
  head, tail,          \* producer-side and consumer-side index
  seq, data,           \* the two fields of every slot
  ppc, ph, pitem,      \* per producer: position in push, local h, argument
  cpc, cdata,          \* consumer: position in pop, local data
  calls,               \* calls of push so far
  log,                 \* history: item of each claimed index, in claim order
  out                  \* history: items whose slot the consumer has released

shared == <<head, tail, seq, data>>
pvars  == <<ppc, ph, pitem, calls>>
cvars  == <<cpc, cdata>>
vars   == <<shared, pvars, cvars, log, out>>

Slots == 0..(Capacity - 1)
SlotOf(i) == i % Capacity        \* i & q->mask

(***************************************************************************)
(* mpsc_queue_init                                                         *)
(***************************************************************************)
Init ==
  /\ head = 0 /\ tail = 0
  /\ seq = [i \in Slots |-> i]
  /\ data = [i \in Slots |-> NULL]
  /\ ppc = [p \in Producers |-> "idle"]
  /\ ph = [p \in Producers |-> 0]
  /\ pitem = [p \in Producers |-> NULL]
  /\ cpc = "idle" /\ cdata = NULL
  /\ calls = 0 /\ log = <<>> /\ out = <<>>

(***************************************************************************)
(* mpsc_queue_push                                                         *)
(***************************************************************************)
\* A relaxed load of head by producer p.
LoadHead(p) == \E h \in ph[p]..head : ph' = [ph EXCEPT ![p] = h]

\* push is called; head is loaded.
PushStart(p) ==
  /\ ppc[p] = "idle" /\ calls < MaxCalls
  /\ calls' = calls + 1
  /\ pitem' = [pitem EXCEPT ![p] = calls + 1]
  /\ LoadHead(p)
  /\ ppc' = [ppc EXCEPT ![p] = "seq"]
  /\ UNCHANGED <<shared, cvars, log, out>>

\* Mutant: a slot of an earlier turn passes for free.
PushSlotFreeOrFull(p) ==
  /\ ppc[p] = "seq" /\ seq[SlotOf(ph[p])] <= ph[p]
  /\ ppc' = [ppc EXCEPT ![p] = "cas"]
  /\ UNCHANGED <<shared, ph, pitem, calls, cvars, log, out>>

\* diff == 0: the slot is free for this turn; go on to claim the index.
PushSlotFree(p) ==
  /\ ppc[p] = "seq" /\ seq[SlotOf(ph[p])] = ph[p]
  /\ ppc' = [ppc EXCEPT ![p] = "cas"]
  /\ UNCHANGED <<shared, ph, pitem, calls, cvars, log, out>>

\* Mutant: a lost race counts as a full queue.
PushNotFree(p) ==
  /\ ppc[p] = "seq" /\ seq[SlotOf(ph[p])] # ph[p]
  /\ ppc' = [ppc EXCEPT ![p] = "idle"]
  /\ UNCHANGED <<shared, ph, pitem, calls, cvars, log, out>>

\* diff < 0: return OTLP_ERR_BUFFER_FULL.
PushFull(p) ==
  /\ ppc[p] = "seq" /\ seq[SlotOf(ph[p])] < ph[p]
  /\ ppc' = [ppc EXCEPT ![p] = "idle"]
  /\ UNCHANGED <<shared, ph, pitem, calls, cvars, log, out>>

\* diff > 0: another producer has used this turn; load head again.
PushReload(p) ==
  /\ ppc[p] = "seq" /\ seq[SlotOf(ph[p])] > ph[p]
  /\ LoadHead(p)
  /\ UNCHANGED <<shared, ppc, pitem, calls, cvars, log, out>>

\* Mutant: a plain store instead of the compare-and-swap.
PushStoreHead(p) ==
  /\ ppc[p] = "cas"
  /\ head' = ph[p] + 1
  /\ log' = Append(log, pitem[p])
  /\ ppc' = [ppc EXCEPT ![p] = "write"]
  /\ UNCHANGED <<tail, seq, data, ph, pitem, calls, cvars, out>>

\* The compare-and-swap of head claims index ph[p].
PushClaim(p) ==
  /\ ppc[p] = "cas" /\ head = ph[p]
  /\ head' = head + 1
  /\ log' = Append(log, pitem[p])
  /\ ppc' = [ppc EXCEPT ![p] = "write"]
  /\ UNCHANGED <<tail, seq, data, ph, pitem, calls, cvars, out>>

\* The compare-and-swap fails, spuriously or because head has moved on; it
\* leaves the value it saw in h.
PushClaimFails(p) ==
  /\ ppc[p] = "cas"
  /\ LoadHead(p)
  /\ ppc' = [ppc EXCEPT ![p] = "seq"]
  /\ UNCHANGED <<shared, pitem, calls, cvars, log, out>>

\* slot->data = item
PushWrite(p) ==
  /\ ppc[p] = "write"
  /\ data' = [data EXCEPT ![SlotOf(ph[p])] = pitem[p]]
  /\ ppc' = [ppc EXCEPT ![p] = "publish"]
  /\ UNCHANGED <<head, tail, seq, ph, pitem, calls, cvars, log, out>>

\* Mutant: nothing is stored.
PushForgets(p) ==
  /\ ppc[p] = "publish"
  /\ ppc' = [ppc EXCEPT ![p] = "idle"]
  /\ UNCHANGED <<shared, ph, pitem, calls, cvars, log, out>>

\* slot->seq = h + 1 (release); return OTLP_OK.
PushPublish(p) ==
  /\ ppc[p] = "publish"
  /\ seq' = [seq EXCEPT ![SlotOf(ph[p])] = ph[p] + 1]
  /\ ppc' = [ppc EXCEPT ![p] = "idle"]
  /\ UNCHANGED <<head, tail, data, ph, pitem, calls, cvars, log, out>>

Push(p) ==
  \/ PushStart(p) \/ PushSlotFree(p) \/ PushFull(p) \/ PushReload(p)
  \/ PushClaim(p) \/ PushClaimFails(p) \/ PushWrite(p) \/ PushPublish(p)

(***************************************************************************)
(* mpsc_queue_pop.  tail is written by the consumer only, so the local t   *)
(* is tail.  A pop that finds nothing returns NULL and changes nothing.    *)
(***************************************************************************)
PopPublished == seq[SlotOf(tail)] = tail + 1

PopStart ==
  /\ cpc = "idle" /\ PopPublished
  /\ cpc' = "read"
  /\ UNCHANGED <<shared, pvars, cdata, log, out>>

\* Mutant: the slot after the published one is read.
PopReadNext ==
  /\ cpc = "read"
  /\ cdata' = data[SlotOf(tail + 1)]
  /\ cpc' = "release"
  /\ UNCHANGED <<shared, pvars, log, out>>

PopRead ==
  /\ cpc = "read"
  /\ cdata' = data[SlotOf(tail)]
  /\ cpc' = "release"
  /\ UNCHANGED <<shared, pvars, log, out>>

\* slot->seq = t + mask + 1: the slot is free for the turn one lap later.
PopRelease ==
  /\ cpc = "release"
  /\ seq' = [seq EXCEPT ![SlotOf(tail)] = tail + Capacity]
  /\ out' = Append(out, cdata)
  /\ cpc' = "advance"
  /\ UNCHANGED <<head, tail, data, pvars, cdata, log>>

\* Mutant: the consumer goes backwards.
PopRetreat ==
  /\ cpc = "advance"
  /\ tail' = tail - 1
  /\ cpc' = "idle"
  /\ UNCHANGED <<head, seq, data, pvars, cdata, log, out>>

PopAdvance ==
  /\ cpc = "advance"
  /\ tail' = tail + 1
  /\ cpc' = "idle"
  /\ UNCHANGED <<head, seq, data, pvars, cdata, log, out>>

Pop == PopStart \/ PopRead \/ PopRelease \/ PopAdvance

(***************************************************************************)
(* mpsc_queue_size, as called by the consumer                              *)
(***************************************************************************)
mpsc_queue_size == IF head >= tail THEN head - tail ELSE 0

Next == (\E p \in Producers : Push(p)) \/ Pop

Spec == Init /\ [][Next]_vars

\* The consumer is the caller's tick loop.  A producer that has claimed an
\* index has only straight-line code left, so its thread gets through it.  No
\* fairness is assumed before the claim: a push may lose every race.
Fairness == WF_vars(Pop) /\ \A p \in Producers : WF_vars(PushWrite(p) \/ PushPublish(p))

FairSpec == Spec /\ Fairness
-----------------------------------------------------------------------------
(***************************************************************************)
(* Properties                                                              *)
(***************************************************************************)
TypeOK ==
  /\ head \in Nat /\ tail \in Nat
  /\ seq \in [Slots -> Nat]
  /\ data \in [Slots -> Items \cup {NULL}]
  /\ ppc \in [Producers -> {"idle", "seq", "cas", "write", "publish"}]
  /\ ph \in [Producers -> Nat]
  /\ pitem \in [Producers -> Items \cup {NULL}]
  /\ cpc \in {"idle", "read", "release", "advance"}
  /\ cdata \in Items \cup {NULL}
  /\ calls \in 0..MaxCalls
  /\ log \in Seq(Items \cup {NULL}) /\ out \in Seq(Items \cup {NULL})

\* Indices below Released have had their slot given back.
Released == IF cpc = "advance" THEN tail + 1 ELSE tail

Owns(p) == ppc[p] \in {"write", "publish"}

\* The number of indices claimed and not yet released never exceeds the number
\* of slots ("returns OTLP_ERR_BUFFER_FULL if the queue is at capacity").
WithinCapacity == Released <= head /\ head - Released <= Capacity

\* A slot is never written by two producers at once, nor written by a producer
\* while the consumer is still reading it: data is plain memory, and the seq
\* protocol of push and pop is all that protects it.
NoDataRace ==
  /\ \A p, q \in Producers :
        p # q /\ Owns(p) /\ Owns(q) => SlotOf(ph[p]) # SlotOf(ph[q])
  /\ \A p \in Producers :
        Owns(p) /\ cpc \in {"read", "release"} => SlotOf(ph[p]) # SlotOf(tail)

\* What pop hands out is, in order, what was pushed at index 0, 1, 2 ...: no
\* item is lost, duplicated, reordered or replaced by a later one.
FifoOrder ==
  /\ Len(out) = Released
  /\ Len(log) = head
  /\ \A i \in 1..Len(out) : out[i] = log[i]

\* pop returns NULL only if the queue is empty or the producer of the oldest
\* index is still between its claim and its publication; in particular a queue
\* that looks empty when every push has returned has delivered everything.
NullOnlyIfNotPublished ==
  cpc = "idle" /\ ~PopPublished =>
    tail = head \/ \E p \in Producers : Owns(p) /\ ph[p] = tail

\* push reports OTLP_ERR_BUFFER_FULL only at an instant at which every slot is
\* taken, however stale the head it works with.
FullOnlyAtCapacity ==
  [][\A p \in Producers : PushFull(p) => head - Released = Capacity]_vars

\* Every item whose index was claimed is eventually handed to the consumer.
EveryClaimDelivered ==
  \A n \in 1..MaxCalls : head >= n ~> Len(out) >= n

\* The ring implements the bounded first-in first-out buffer: an index becomes
\* a cell when it is claimed, the cell is ready when its seq is published, and
\* it is gone when the consumer releases the slot.
Fifo == INSTANCE BoundedFifo WITH
  cells <- [i \in 1..(head - Released) |->
              [item |-> log[Released + i],
               ready |-> seq[SlotOf(Released + i - 1)] = Released + i]],
  delivered <- out

ImplementsFifo == Fifo!FifoSpec

(***************************************************************************)
(* The inductive invariant behind WithinCapacity, NoDataRace, FifoOrder    *)
(* and NullOnlyIfNotPublished.  The Capacity indices from Released on are  *)
(* the window: each slot belongs to exactly one of them.                   *)
(***************************************************************************)
Window == Released..(Released + Capacity - 1)

\* Slots of the window: not claimed yet, claimed and being filled by a
\* producer, or published with the item that was logged for the index.
WindowSlots ==
  \A i \in Window :
    LET s == SlotOf(i) IN
    \/ i >= head /\ seq[s] = i
    \/ i < head /\ seq[s] = i /\ \E p \in Producers : Owns(p) /\ ph[p] = i
    \/ i < head /\ seq[s] = i + 1 /\ data[s] = log[i + 1]

\* A producer between claim and publication holds an index of its own in the
\* window, and is filling in the item logged for it.
OwnedIndices ==
  /\ \A p \in Producers : Owns(p) =>
        /\ Released <= ph[p] /\ ph[p] < head
        /\ seq[SlotOf(ph[p])] = ph[p]
        /\ log[ph[p] + 1] = pitem[p]
        /\ ppc[p] = "publish" => data[SlotOf(ph[p])] = pitem[p]
  /\ \A p, q \in Producers : p # q /\ Owns(p) /\ Owns(q) => ph[p] # ph[q]

\* A producer about to claim the index head has room for it.
ClaimHasRoom ==
  \A p \in Producers :
    /\ ph[p] <= head
    /\ ppc[p] = "cas" /\ ph[p] = head => head - Released < Capacity

\* The consumer inside pop works on a published slot, on the item logged.
ConsumerReads ==
  /\ cpc \in {"read", "release"} => tail < head /\ PopPublished
  /\ cpc = "release" => cdata = log[tail + 1]

IInv == /\ TypeOK /\ WithinCapacity /\ WindowSlots /\ OwnedIndices
        /\ ClaimHasRoom /\ ConsumerReads /\ FifoOrder
=============================================================================
