--------------------------- MODULE ExporterProofs ---------------------------
(***************************************************************************)
(* Proofs about the asynchronous exporter of src/exporter.c, for every     *)
(* number of threads, signals and items and every configuration.           *)
(***************************************************************************)
EXTENDS Exporter, FiniteSetTheorems, SequenceTheorems, TLAPS

(***************************************************************************)
(* Types                                                                   *)
(***************************************************************************)
Cell == [item : Items, ready : BOOLEAN]
Socks == {NoSock} \cup {Endpoint[s] : s \in Signals}

\* An emit call has its item in hand: it owns it, and has not queued it yet.
Holds(p) == epc[p] \in {"check", "push"}

QueueTypes ==
  /\ queue \in [Signals -> Seq(Cell)] /\ pending \in [Signals -> Seq(Items)]
  /\ \A s \in Signals : Len(queue[s]) <= QueueCapacity /\ Len(pending[s]) <= PendingCap
  /\ first \in [Signals -> {"unset", "set", "aged"}]

StatTypes ==
  /\ emitted \in Counters /\ droppedFull \in Counters /\ droppedErr \in Counters
  /\ sent \in Counters /\ rejected \in Counters
  /\ http \in [{"2xx", "4xx", "5xx", "net"} -> Nat]

RequestTypes ==
  /\ inFlight \in BOOLEAN /\ inFlightSignal \in Signals /\ inFlightCount \in Nat
  /\ wire \in Seq(Items) /\ reqSock \in Socks /\ keepalive \in Socks
  /\ attempt \in 0..MaxRetries /\ backoff \in {"off", "armed", "due"}
  /\ startFails \in 0..MaxStartFailures /\ posts \in [Items -> Nat]

OwnerTypes ==
  /\ shutdown \in BOOLEAN /\ work \in BOOLEAN
  /\ owner \in {"idle", "tick", "flush", "freed"}
  /\ tpc \in {"idle", "drain", "send", "step", "retry", "end", "flushed", "return"}
  /\ ts \in 1..(NumSignals + 1)
  /\ flushRet \in {"none", "ok", "network"}

EmitTypes ==
  /\ epc \in [Emitters -> {"idle", "clone", "check", "push", "publish", "count"}]
  /\ eitem \in [Emitters -> 0..MaxItems] /\ esig \in [Emitters -> Signals]
  /\ nItems \in 0..MaxItems
  /\ \A p \in Emitters : Holds(p) => eitem[p] \in Items

Types == QueueTypes /\ StatTypes /\ RequestTypes /\ OwnerTypes /\ EmitTypes

\* The constants.
LEMMA Constants ==
  /\ NumSignals \in Nat \ {0} /\ BatchSize \in Nat \ {0} /\ QueueCapacity \in Nat
  /\ QueueCapacity >= 2 /\ MaxRetries \in Nat /\ MaxItems \in Nat /\ MaxStartFailures \in Nat
  /\ NullTransport \in BOOLEAN /\ Rejections \subseteq Nat
  /\ PendingCap \in Nat /\ Signals \subseteq Nat /\ 1 \in Signals
  /\ \A s \in Signals : Endpoint[s] \in Socks /\ Endpoint[s] # NoSock
BY ParamAssumption DEF Signals, PendingCap, Socks

\* The steps of the owner that move no item, count nothing and leave the
\* request alone.
Quiet == \/ TickBegin \/ TickDrained \/ TickNoStart \/ TickStep \/ TickNoRetry \/ TickEnd
         \/ FlushBegin \/ FlushLoop \/ FlushReturn \/ Shutdown

\* Such a step leaves batches, counters, request, sockets and emit calls alone.
LEMMA QuietFrame ==
  Quiet => UNCHANGED <<sigvars, stats, request, retry, sockvars, emitvars, history, freed,
                       startFails>>
<1>1. TickBegin \/ TickDrained \/ TickNoStart \/ TickStep =>
        UNCHANGED <<sigvars, stats, request, retry, sockvars, emitvars, history, freed, startFails>>
  BY Zenon DEF TickBegin, TickDrained, TickNoStart, TickStep
<1>2. TickNoRetry \/ TickEnd \/ FlushBegin \/ FlushLoop \/ FlushReturn \/ Shutdown =>
        UNCHANGED <<sigvars, stats, request, retry, sockvars, emitvars, history, freed, startFails>>
  BY Zenon DEF TickNoRetry, TickEnd, FlushBegin, FlushLoop, FlushReturn, Shutdown
<1> QED BY <1>1, <1>2, Zenon DEF Quiet

\* What no emit call touches.
LEMMA EmitFrame ==
  ASSUME NEW p \in Emitters, Emit(p)
  PROVE  EmitUnchanged
BY Zenon DEF Emit, EmitMove, EmitClone, EmitCloned, EmitCheck, EmitReserve, EmitFull, EmitPublish, EmitCount

\* The cases of a step.
LEMMA NextCases ==
  ASSUME [Next]_vars
  PROVE  \/ Quiet \/ TickDrain \/ TickNull \/ TickStart \/ TickFinish \/ TickRetry \/ Free
         \/ BackoffElapses \/ (\E s \in Signals : Age(s)) \/ (\E p \in Emitters : Emit(p))
         \/ UNCHANGED vars
BY Zenon DEF Next, Owner, Tick, Clock, Quiet

\* Counting on one signal's counter gives counters again.
LEMMA AddType ==
  ASSUME NEW counter \in Counters, NEW s \in Signals, NEW n \in Nat
  PROVE  Add(counter, s, n) \in Counters
BY DEF Counters, Add

\* Initially.
LEMMA InitTypes == Init => Types
<1> SUFFICES ASSUME Init PROVE Types
  OBVIOUS
<1> USE Constants
<1>1. QueueTypes
  BY DEF Init, QueueTypes
<1>2. StatTypes
  BY DEF Init, StatTypes, Counters
<1>3. RequestTypes
  <2>1. inFlight \in BOOLEAN
    BY Zenon DEF Init
  <2> QED BY <2>1 DEF Init, RequestTypes, Socks
<1>4. OwnerTypes
  <2>1. shutdown \in BOOLEAN /\ work \in BOOLEAN
    BY Zenon DEF Init
  <2> QED BY <2>1 DEF Init, OwnerTypes
<1>5. EmitTypes
  BY DEF Init, EmitTypes, Holds
<1> QED BY <1>1, <1>2, <1>3, <1>4, <1>5 DEF Types

\* The outcome of a request keeps the types of batch, counters and retry state.
LEMMA OutcomeTypes ==
  ASSUME Types, NEW s \in Signals, NEW count \in Nat, NEW batch, NEW status,
         record_outcome(s, count, batch, status), UNCHANGED queue
  PROVE  /\ QueueTypes' /\ droppedErr' \in Counters /\ sent' \in Counters /\ rejected' \in Counters
         /\ http' \in [{"2xx", "4xx", "5xx", "net"} -> Nat]
         /\ attempt' \in 0..MaxRetries /\ backoff' \in {"off", "armed", "due"}
<1> USE Constants DEF Types
<1>1. http' \in [{"2xx", "4xx", "5xx", "net"} -> Nat]
  <2>1. CounterOf(status) \in {"2xx", "4xx", "5xx", "net"}
    BY DEF CounterOf
  <2>2. http' = [http EXCEPT ![CounterOf(status)] = @ + 1]
    BY DEF record_outcome
  <2> QED BY <2>1, <2>2 DEF StatTypes
<1>2. ASSUME clear_in_flight_batch(s)
      PROVE  QueueTypes' /\ attempt' \in 0..MaxRetries /\ backoff' \in {"off", "armed", "due"}
  BY <1>2 DEF clear_in_flight_batch, QueueTypes
<1>3. CASE /\ status = "2xx"
           /\ sent' = Add(sent, s, count)
           /\ \E n \in Rejections : rejected' = Add(rejected, s, n)
           /\ clear_in_flight_batch(s)
           /\ UNCHANGED <<droppedErr, dropped>>
  BY <1>1, <1>2, <1>3 DEF StatTypes, Counters, Add
<1>4. CASE /\ RetryLeft /\ attempt' = attempt + 1 /\ backoff' = "armed"
           /\ UNCHANGED <<pending, first, freed, sent, rejected, droppedErr, acked, dropped>>
  <2>1. QueueTypes'
    BY <1>4 DEF QueueTypes
  <2>2. attempt' \in 0..MaxRetries
    BY <1>4 DEF RetryLeft, RequestTypes
  <2>3. droppedErr' \in Counters /\ sent' \in Counters /\ rejected' \in Counters
    BY <1>4 DEF StatTypes
  <2> QED BY <1>1, <1>4, <2>1, <2>2, <2>3
<1>5. CASE /\ droppedErr' = Add(droppedErr, s, count)
           /\ clear_in_flight_batch(s)
           /\ UNCHANGED <<sent, rejected, acked>>
  BY <1>1, <1>2, <1>5 DEF StatTypes, Counters, Add
<1> QED BY <1>3, <1>4, <1>5, Zenon DEF record_outcome

\* Starting a request, and failing to, keep the types of the request.
LEMMA StartTypes ==
  ASSUME Types, NEW s \in Signals, StartOk(s) \/ StartFails(s),
         UNCHANGED <<queue, pending, attempt>>, backoff' \in {"off", "armed", "due"}
  PROVE  QueueTypes' /\ RequestTypes'
<1> USE Constants DEF Types
<1>1. CASE StartOk(s)
  <2>1. QueueTypes'
    BY <1>1 DEF StartOk, QueueTypes
  <2>2. inFlight' \in BOOLEAN
    BY <1>1, Zenon DEF StartOk
  <2>3. posts' \in [Items -> Nat]
    BY <1>1 DEF StartOk, RequestTypes
  <2>4. inFlightSignal' \in Signals /\ inFlightCount' \in Nat /\ wire' \in Seq(Items)
    BY <1>1 DEF StartOk, QueueTypes
  <2>5. reqSock' \in Socks /\ keepalive' \in Socks
    BY <1>1 DEF StartOk, RequestTypes, Socks
  <2> QED BY <1>1, <2>1, <2>2, <2>3, <2>4, <2>5 DEF StartOk, RequestTypes
<1>2. CASE StartFails(s)
  <2>1. QueueTypes'
    BY <1>2 DEF StartFails, QueueTypes
  <2>2. inFlight' \in BOOLEAN
    BY <1>2, Zenon DEF StartFails, request, RequestTypes
  <2>3. /\ inFlightSignal' \in Signals /\ inFlightCount' \in Nat /\ wire' \in Seq(Items)
        /\ reqSock' \in Socks /\ posts' \in [Items -> Nat]
    BY <1>2 DEF StartFails, request, RequestTypes
  <2>4. startFails' \in 0..MaxStartFailures
    BY <1>2 DEF StartFails, RequestTypes
  <2>5. keepalive' \in Socks /\ attempt' \in 0..MaxRetries /\ backoff' \in {"off", "armed", "due"}
    BY <1>2 DEF StartFails, RequestTypes, Socks
  <2> QED BY <2>1, <2>2, <2>3, <2>4, <2>5 DEF RequestTypes
<1> QED BY <1>1, <1>2

\* What does not change keeps its type.
LEMMA TypesFrame ==
  /\ QueueTypes /\ UNCHANGED sigvars => QueueTypes'
  /\ StatTypes /\ UNCHANGED stats => StatTypes'
  /\ RequestTypes /\ UNCHANGED <<request, retry, keepalive, startFails, posts>> => RequestTypes'
  /\ OwnerTypes /\ UNCHANGED <<shutdown, ownvars, flushRet>> => OwnerTypes'
  /\ EmitTypes /\ UNCHANGED emitvars => EmitTypes'
<1>1. QueueTypes /\ UNCHANGED sigvars => QueueTypes'
  BY DEF sigvars, QueueTypes
<1>2. StatTypes /\ UNCHANGED stats => StatTypes'
  BY DEF stats, StatTypes
<1>3. RequestTypes /\ UNCHANGED <<request, retry, keepalive, startFails, posts>> => RequestTypes'
  BY DEF request, retry, RequestTypes
<1>4. OwnerTypes /\ UNCHANGED <<shutdown, ownvars, flushRet>> => OwnerTypes'
  BY DEF ownvars, OwnerTypes
<1>5. EmitTypes /\ UNCHANGED emitvars => EmitTypes'
  BY DEF emitvars, EmitTypes, Holds
<1> QED BY <1>1, <1>2, <1>3, <1>4, <1>5

\* So does every step of an emit call.
LEMMA EmitKeepsTypes ==
  ASSUME Types, NEW p \in Emitters, Emit(p)
  PROVE  QueueTypes' /\ StatTypes' /\ EmitTypes'
<1> USE Constants DEF Types
<1>1. EmitUnchanged
  BY EmitFrame
<1>2. UNCHANGED <<pending, first, droppedErr, sent, rejected, http>>
  BY <1>1, Zenon DEF EmitUnchanged
<1>3. UNCHANGED queue => QueueTypes'
  BY <1>2, TypesFrame DEF sigvars
<1>4. UNCHANGED <<emitted, droppedFull>> => StatTypes'
  BY <1>2, TypesFrame DEF stats
<1>5. ASSUME NEW s \in Signals, Own(p, s) PROVE EmitTypes'
  BY <1>5 DEF Own, EmitTypes, Holds, Items
<1>6. EmitReturn(p) => EmitTypes'
  BY DEF EmitReturn, EmitTypes, Holds
<1>7. ASSUME NEW pc \in {"push", "publish", "count"}, EmitGoto(p, pc), pc = "push" => Holds(p)
      PROVE  EmitTypes'
  BY <1>7 DEF EmitGoto, EmitTypes, Holds
<1>8. esig[p] \in Signals
  BY DEF EmitTypes
<1>9. CASE \E s \in Signals : EmitMove(p, s)
  BY <1>3, <1>4, <1>5, <1>9 DEF EmitMove
<1>10. CASE \E s \in Signals : EmitClone(p, s)
  <2>1. EmitTypes'
    BY <1>10 DEF EmitClone, EmitTypes, Holds
  <2> QED BY <1>3, <1>4, <1>10, <2>1 DEF EmitClone
<1>11. CASE EmitCloned(p)
  BY <1>3, <1>4, <1>5, <1>6, <1>8, <1>11 DEF EmitCloned
<1>12. CASE EmitCheck(p)
  <2>1. EmitTypes'
    BY <1>6, <1>7, <1>12 DEF EmitCheck, Holds
  <2> QED BY <1>3, <1>4, <1>12, <2>1 DEF EmitCheck
<1>13. CASE EmitReserve(p)
  <2> DEFINE q == queue[esig[p]]
  <2> DEFINE c == [item |-> eitem[p], ready |-> FALSE]
  <2>1. q \in Seq(Cell) /\ c \in Cell /\ Len(q) < QueueCapacity
    <3>1. eitem[p] \in Items
      BY <1>13 DEF EmitReserve, EmitTypes, Holds
    <3>2. c \in Cell
      BY <3>1, Zenon DEF Cell
    <3>3. q \in Seq(Cell) /\ Len(q) < QueueCapacity
      BY <1>8, <1>13 DEF EmitReserve, QueueTypes
    <3> QED BY <3>2, <3>3
  <2>2. queue' = [queue EXCEPT ![esig[p]] = Append(q, c)]
    BY <1>13 DEF EmitReserve
  <2> HIDE DEF q, c
  <2>3. Append(q, c) \in Seq(Cell) /\ Len(Append(q, c)) <= QueueCapacity
    BY <2>1
  <2>4. QueueTypes'
    BY <1>2, <1>8, <2>2, <2>3 DEF QueueTypes
  <2> QED BY <1>4, <1>7, <1>13, <2>4 DEF EmitReserve
<1>14. CASE EmitFull(p)
  <2>1. StatTypes'
    <3>1. droppedFull' = Add(droppedFull, esig[p], 1) /\ emitted' = emitted
      BY <1>14 DEF EmitFull
    <3>2. droppedFull' \in Counters
      BY <1>8, <3>1, AddType DEF StatTypes
    <3> QED BY <1>2, <3>1, <3>2 DEF StatTypes
  <2> QED BY <1>3, <1>6, <1>14, <2>1 DEF EmitFull
<1>15. CASE EmitPublish(p)
  <2> DEFINE q == queue[esig[p]]
  <2> DEFINE r == [i \in DOMAIN q |-> IF q[i].item = eitem[p] THEN [q[i] EXCEPT !.ready = TRUE]
                                                             ELSE q[i]]
  <2>1. q \in Seq(Cell) /\ Len(q) <= QueueCapacity
    BY <1>8 DEF QueueTypes
  <2>2. queue' = [queue EXCEPT ![esig[p]] = r]
    BY <1>15 DEF EmitPublish
  <2> HIDE DEF q
  <2>3. ASSUME NEW c \in Cell PROVE [c EXCEPT !.ready = TRUE] \in Cell
    BY Zenon DEF Cell
  <2>4. r \in Seq(Cell) /\ Len(r) = Len(q)
    <3>1. DOMAIN q = 1..Len(q) /\ Len(q) \in Nat /\ \A i \in 1..Len(q) : q[i] \in Cell
      BY <2>1
    <3>2. r \in [1..Len(q) -> Cell]
      BY <2>3, <3>1
    <3> QED BY <3>1, <3>2
  <2> HIDE DEF r
  <2>5. QueueTypes'
    BY <1>2, <1>8, <2>1, <2>2, <2>4 DEF QueueTypes
  <2> QED BY <1>4, <1>7, <1>15, <2>5 DEF EmitPublish
<1>16. CASE EmitCount(p)
  <2>1. StatTypes'
    <3>1. emitted' = Add(emitted, esig[p], 1) /\ droppedFull' = droppedFull
      BY <1>16 DEF EmitCount
    <3>2. emitted' \in Counters
      BY <1>8, <3>1, AddType DEF StatTypes
    <3> QED BY <1>2, <3>1, <3>2 DEF StatTypes
  <2> QED BY <1>3, <1>6, <1>16, <2>1 DEF EmitCount
<1> QED BY <1>9, <1>10, <1>11, <1>12, <1>13, <1>14, <1>15, <1>16 DEF Emit

\* Every step keeps the types.
LEMMA NextTypes == Types /\ [Next]_vars => Types'
<1> SUFFICES ASSUME Types, [Next]_vars PROVE Types'
  OBVIOUS
<1> USE Constants DEF Types
<1>1. CASE Quiet
  <2>1. QueueTypes' /\ StatTypes' /\ RequestTypes' /\ EmitTypes'
    BY <1>1, QuietFrame, TypesFrame DEF sockvars, history
  <2>2. shutdown' \in BOOLEAN /\ work' \in BOOLEAN
    <3>1. TickStep => shutdown' \in BOOLEAN /\ work' \in BOOLEAN
      BY Zenon DEF OwnerTypes, TickStep
    <3>2. TickEnd => shutdown' \in BOOLEAN /\ work' \in BOOLEAN
      BY Zenon DEF OwnerTypes, TickEnd
    <3>3. TickBegin \/ TickDrained \/ TickNoStart \/ TickNoRetry => shutdown' \in BOOLEAN /\ work' \in BOOLEAN
      BY Zenon DEF OwnerTypes, TickBegin, TickDrained, TickNoStart, TickNoRetry
    <3>4. FlushBegin \/ FlushLoop \/ FlushReturn \/ Shutdown => shutdown' \in BOOLEAN /\ work' \in BOOLEAN
      BY Zenon DEF OwnerTypes, FlushBegin, FlushLoop, FlushReturn, Shutdown, ownvars
    <3> QED BY <1>1, <3>1, <3>2, <3>3, <3>4, Zenon DEF Quiet
  <2>3. /\ owner' \in {"idle", "tick", "flush", "freed"}
        /\ tpc' \in {"idle", "drain", "send", "step", "retry", "end", "flushed", "return"}
        /\ ts' \in 1..(NumSignals + 1) /\ flushRet' \in {"none", "ok", "network"}
    BY <1>1 DEF Quiet, OwnerTypes, TickBegin, TickDrained, TickNoStart, TickStep, TickNoRetry,
         TickEnd, FlushBegin, FlushLoop, FlushReturn, Shutdown, ownvars, flushing, TickGoto, FlushForgotten
  <2> QED BY <2>1, <2>2, <2>3 DEF OwnerTypes
<1>2. CASE TickDrain
  <2>1. ts \in Signals /\ queue[ts] # <<>> /\ Len(pending[ts]) < PendingCap
    BY <1>2 DEF TickDrain, CanPop, OwnerTypes, Signals
  <2>2. QueueTypes'
    <3>1. /\ queue[ts] \in Seq(Cell) /\ pending[ts] \in Seq(Items)
          /\ Len(queue[ts]) \in Nat /\ Len(queue[ts]) <= QueueCapacity
      BY <2>1 DEF QueueTypes
    <3>2. /\ Head(queue[ts]).item \in Items /\ Tail(queue[ts]) \in Seq(Cell)
          /\ Len(Tail(queue[ts])) <= QueueCapacity
      <4> DEFINE q == queue[ts]
      <4> HIDE DEF q
      <4>1. q \in Seq(Cell) /\ q # <<>> /\ Len(q) <= QueueCapacity
        BY <2>1, <3>1 DEF q
      <4>2. Head(q) \in Cell /\ Tail(q) \in Seq(Cell) /\ Len(Tail(q)) = Len(q) - 1
        BY <4>1
      <4>3. Len(Tail(q)) <= QueueCapacity
        BY <4>1, <4>2
      <4> QED BY <4>2, <4>3 DEF Cell, q
    <3>3. /\ Append(pending[ts], Head(queue[ts]).item) \in Seq(Items)
          /\ Len(Append(pending[ts], Head(queue[ts]).item)) <= PendingCap
      BY <2>1, <3>1, <3>2
    <3>4. /\ queue' = [queue EXCEPT ![ts] = Tail(queue[ts])]
          /\ pending' = [pending EXCEPT ![ts] = Append(pending[ts], Head(queue[ts]).item)]
      BY <1>2 DEF TickDrain
    <3>5. queue' \in [Signals -> Seq(Cell)] /\ pending' \in [Signals -> Seq(Items)]
      BY <2>1, <3>2, <3>3, <3>4 DEF QueueTypes
    <3>6. \A s \in Signals : Len(queue'[s]) <= QueueCapacity /\ Len(pending'[s]) <= PendingCap
      BY <2>1, <3>2, <3>3, <3>4 DEF QueueTypes
    <3>7. first' \in [Signals -> {"unset", "set", "aged"}]
      BY <1>2, <2>1 DEF TickDrain, QueueTypes
    <3> QED BY <3>5, <3>6, <3>7 DEF QueueTypes
  <2>3. work' \in BOOLEAN
    BY <1>2, Zenon DEF TickDrain
  <2>4. OwnerTypes'
    BY <1>2, <2>3 DEF TickDrain, OwnerTypes, flushing
  <2> QED BY <1>2, <2>2, <2>4, TypesFrame DEF TickDrain, sockvars, history
<1>3. CASE TickNull
  <2>1. PICK s \in Signals, status \in Responses :
          /\ inFlightSignal' = s /\ inFlightCount' = Len(pending[s])
          /\ posts' = [i \in Items |-> IF i \in SetOf(pending[s]) THEN posts[i] + 1 ELSE posts[i]]
          /\ record_outcome(s, Len(pending[s]), SetOf(pending[s]), status)
    BY <1>3 DEF TickNull
  <2>2. Len(pending[s]) \in Nat
    BY DEF QueueTypes
  <2>3. UNCHANGED <<queue, shutdown, inFlight, wire, reqSock, keepalive, owner, ts, flushRet,
                    startFails, emitvars, emitted, droppedFull>> /\ tpc' = "end" /\ work' = TRUE
    BY <1>3, Zenon DEF TickNull, Emitting, TickGoto, sockvars, flushing
  <2>4. /\ QueueTypes' /\ droppedErr' \in Counters /\ sent' \in Counters /\ rejected' \in Counters
        /\ http' \in [{"2xx", "4xx", "5xx", "net"} -> Nat]
        /\ attempt' \in 0..MaxRetries /\ backoff' \in {"off", "armed", "due"}
    BY <2>1, <2>2, <2>3, OutcomeTypes
  <2>5. StatTypes'
    BY <2>3, <2>4 DEF StatTypes
  <2>6. posts' \in [Items -> Nat]
    BY <2>1 DEF RequestTypes
  <2>7. RequestTypes'
    BY <2>1, <2>2, <2>3, <2>4, <2>6 DEF RequestTypes
  <2>8. work' \in BOOLEAN
    BY <2>3, Zenon
  <2>9. OwnerTypes'
    BY <2>3, <2>8 DEF OwnerTypes
  <2> QED BY <2>3, <2>4, <2>5, <2>7, <2>9, TypesFrame
<1>4. CASE TickStart
  <2>1. PICK s \in ts..NumSignals :
          \/ StartOk(s) /\ work' = TRUE /\ tpc' = "step" /\ ts' = 1
          \/ StartFails(s) /\ ts' = s + 1 /\ UNCHANGED <<work, tpc>>
    BY <1>4 DEF TickStart, TickGoto
  <2>2. UNCHANGED <<queue, pending, retry, shutdown, owner, flushRet, emitvars, stats>>
    BY <1>4, Zenon DEF TickStart, StartUnchanged, Emitting, flushing, stats
  <2>3. s \in Signals /\ s + 1 \in 1..(NumSignals + 1)
    BY DEF OwnerTypes, Signals
  <2>4. QueueTypes' /\ RequestTypes'
    BY <2>1, <2>2, <2>3, StartTypes DEF retry, RequestTypes
  <2>5. work' \in BOOLEAN
    BY <2>1, Zenon DEF OwnerTypes
  <2>6. OwnerTypes'
    BY <2>1, <2>2, <2>3, <2>5 DEF OwnerTypes
  <2> QED BY <2>2, <2>4, <2>6, TypesFrame
<1>5. CASE TickFinish
  <2>1. PICK status \in Responses \cup {"failed"}, reusable \in BOOLEAN :
          /\ record_outcome(inFlightSignal, inFlightCount, SetOf(wire), status)
          /\ ReleaseSocket(reusable /\ status \in {"2xx", "000"})
    BY <1>5 DEF TickFinish
  <2>2. /\ inFlight' = FALSE /\ inFlightCount' = 0 /\ wire' = <<>> /\ reqSock' = NoSock
        /\ work' = TRUE /\ tpc' = "retry"
        /\ UNCHANGED <<queue, shutdown, inFlightSignal, owner, ts, flushRet, posts, startFails,
                       emitvars, emitted, droppedFull>>
    BY <1>5, Zenon DEF TickFinish, Emitting, TickGoto, flushing
  <2>3. inFlightSignal \in Signals /\ inFlightCount \in Nat
    BY DEF RequestTypes
  <2>4. /\ QueueTypes' /\ droppedErr' \in Counters /\ sent' \in Counters /\ rejected' \in Counters
        /\ http' \in [{"2xx", "4xx", "5xx", "net"} -> Nat]
        /\ attempt' \in 0..MaxRetries /\ backoff' \in {"off", "armed", "due"}
    BY <2>1, <2>2, <2>3, OutcomeTypes
  <2>5. StatTypes'
    BY <2>2, <2>4 DEF StatTypes
  <2>6. keepalive' \in Socks
    BY <2>1 DEF ReleaseSocket, RequestTypes
  <2>7. inFlight' \in BOOLEAN /\ work' \in BOOLEAN
    BY <2>2, Zenon
  <2>8. RequestTypes'
    BY <2>2, <2>4, <2>6, <2>7 DEF RequestTypes, Socks
  <2>9. OwnerTypes'
    BY <2>2, <2>7 DEF OwnerTypes
  <2> QED BY <2>2, <2>4, <2>5, <2>8, <2>9, TypesFrame
<1>6. CASE TickRetry
  <2>1. UNCHANGED <<queue, pending, shutdown, owner, ts, flushRet, emitvars, stats>>
    BY <1>6, Zenon DEF TickRetry, StartUnchanged, Emitting, flushing, stats
  <2>2. backoff' = "off" /\ attempt' = attempt /\ tpc' = "end" /\ work' = (work \/ inFlight')
    BY <1>6, Zenon DEF TickRetry, TickGoto
  <2>3. QueueTypes' /\ RequestTypes'
    <3>1. CASE UNCHANGED <<request, first, posts, sockvars, startFails>>
      <4>1. QueueTypes'
        BY <2>1, <3>1, TypesFrame DEF sigvars
      <4>2. inFlight' \in BOOLEAN
        BY <3>1, Zenon DEF request, RequestTypes
      <4> QED BY <2>2, <3>1, <4>1, <4>2 DEF request, sockvars, RequestTypes
    <3>2. CASE StartOk(inFlightSignal) \/ StartFails(inFlightSignal)
      <4>1. inFlightSignal \in Signals
        BY DEF RequestTypes
      <4> QED BY <2>1, <2>2, <3>2, <4>1, StartTypes
    <3> QED BY <1>6, <3>1, <3>2, Zenon DEF TickRetry
  <2>4. work' \in BOOLEAN
    BY <2>2, Zenon
  <2>5. OwnerTypes'
    BY <2>1, <2>2, <2>4 DEF OwnerTypes
  <2> QED BY <2>1, <2>3, <2>5, TypesFrame
<1>7. CASE Free
  <2>1. QueueTypes'
    <3>1. /\ queue' = [s \in Signals |-> <<>>] /\ pending' = [s \in Signals |-> <<>>]
          /\ first' = first
      BY <1>7 DEF Free
    <3> QED BY <3>1 DEF QueueTypes
  <2>2. inFlight' \in BOOLEAN
    BY <1>7, Zenon DEF Free
  <2>3. RequestTypes'
    BY <1>7, <2>2 DEF Free, retry, history, RequestTypes, Socks
  <2>4. OwnerTypes'
    BY <1>7 DEF Free, FlushForgotten, OwnerTypes
  <2> QED BY <1>7, <2>1, <2>3, <2>4, TypesFrame DEF Free
<1>8. CASE BackoffElapses
  <2>1. RequestTypes'
    BY <1>8 DEF BackoffElapses, request, sockvars, history, RequestTypes
  <2> QED BY <1>8, <2>1, TypesFrame DEF BackoffElapses, flushing
<1>9. CASE \E s \in Signals : Age(s)
  <2>1. PICK s \in Signals : Age(s)
    BY <1>9
  <2>2. QueueTypes'
    BY <2>1 DEF Age, QueueTypes
  <2> QED BY <2>1, <2>2, TypesFrame DEF Age, sockvars, history, flushing
<1>10. CASE \E p \in Emitters : Emit(p)
  <2>1. PICK p \in Emitters : Emit(p)
    BY <1>10
  <2>2. EmitUnchanged
    BY <2>1, EmitFrame
  <2>3. RequestTypes' /\ OwnerTypes'
    BY <2>2, TypesFrame DEF EmitUnchanged, sockvars, flushing
  <2>4. EmitTypes'
    BY <2>1, EmitKeepsTypes
  <2>5. QueueTypes' /\ StatTypes'
    BY <2>1, EmitKeepsTypes
  <2> QED BY <2>3, <2>4, <2>5
<1>11. CASE UNCHANGED vars
  BY <1>11, TypesFrame DEF vars, sockvars, history, flushing
<1> QED BY <1>1, <1>2, <1>3, <1>4, <1>5, <1>6, <1>7, <1>8, <1>9, <1>10, <1>11, NextCases

(***************************************************************************)
(* Where the items are                                                     *)
(***************************************************************************)
Batch(s)  == SetOf(pending[s])
Queued(s) == CellItems(queue[s])
Given     == 1..nItems          \* the items handed to the exporter so far

\* No item is twice in a batch, or in a queue.
Distinct(q)      == \A i, j \in DOMAIN q : q[i] = q[j] => i = j
DistinctCells(q) == \A i, j \in DOMAIN q : q[i].item = q[j].item => i = j
DistinctPlaces   == \A s \in Signals : Distinct(pending[s]) /\ DistinctCells(queue[s])

\* The ways in which a step may move items.  Hands and stores that it does not
\* touch:
HandsBut(P) == \A o \in Emitters \ P : /\ Holds(o)' <=> Holds(o)
                                       /\ Holds(o) => eitem'[o] = eitem[o]
StoresBut(S) == \A s \in Signals \ S : Batch(s)' = Batch(s) /\ Queued(s)' = Queued(s)

\* Nothing moves.
Still == HandsBut({}) /\ StoresBut({}) /\ UNCHANGED <<freed, nItems, accepted>>

\* Emitter p gets hold of a new item, ...
Takes(p) == /\ ~Holds(p) /\ Holds(p)' /\ eitem'[p] = nItems + 1 /\ nItems' = nItems + 1
            /\ HandsBut({p}) /\ StoresBut({}) /\ UNCHANGED <<freed, accepted>>

\* ... frees the one in its hand, ...
Drops(p) == /\ Holds(p) /\ ~Holds(p)' /\ freed' = freed \cup {eitem[p]}
            /\ HandsBut({p}) /\ StoresBut({}) /\ UNCHANGED <<nItems, accepted>>

\* ... or puts it into the queue of signal s, which accepts it.
Puts(p, s) == /\ Holds(p) /\ ~Holds(p)'
              /\ Queued(s)' = Queued(s) \cup {eitem[p]} /\ Batch(s)' = Batch(s)
              /\ accepted' = [accepted EXCEPT ![s] = @ \cup {eitem[p]}]
              /\ HandsBut({p}) /\ StoresBut({s}) /\ UNCHANGED <<freed, nItems>>

\* The owner moves one from the queue of s to its batch, ...
Drains(s) == /\ \E x \in Queued(s) : /\ Queued(s)' = Queued(s) \ {x}
                                     /\ Batch(s)' = Batch(s) \cup {x}
             /\ HandsBut({}) /\ StoresBut({s}) /\ UNCHANGED <<freed, nItems, accepted>>

\* ... frees the batch of s, ...
Clears(s) == /\ Batch(s)' = {} /\ Queued(s)' = Queued(s) /\ freed' = freed \cup Batch(s)
             /\ HandsBut({}) /\ StoresBut({s}) /\ UNCHANGED <<nItems, accepted>>

\* ... or frees everything, when nobody has anything in hand.
FreesAll == /\ \A o \in Emitters : ~Holds(o) /\ ~Holds(o)'
            /\ \A s \in Signals : Batch(s)' = {} /\ Queued(s)' = {}
            /\ freed' = freed \cup Visible /\ UNCHANGED <<nItems, accepted>>

\* Appending to a batch, and taking the head of a queue.
LEMMA AppendItem ==
  ASSUME NEW T, NEW q \in Seq(T), NEW x \in T
  PROVE  /\ SetOf(Append(q, x)) = SetOf(q) \cup {x}
         /\ Distinct(q) /\ x \notin SetOf(q) => Distinct(Append(q, x))
<1>1. /\ Len(q) \in Nat /\ DOMAIN q = 1..Len(q) /\ DOMAIN Append(q, x) = 1..(Len(q) + 1)
      /\ \A i \in 1..Len(q) : Append(q, x)[i] = q[i]
      /\ Append(q, x)[Len(q) + 1] = x
  OBVIOUS
<1> DEFINE r == Append(q, x)
<1> HIDE DEF r
<1>2. /\ DOMAIN r = 1..(Len(q) + 1) /\ \A i \in 1..Len(q) : r[i] = q[i]
      /\ r[Len(q) + 1] = x
  BY <1>1 DEF r
<1>3. SetOf(r) = SetOf(q) \cup {x}
  BY <1>1, <1>2 DEF SetOf
<1>4. ASSUME Distinct(q), x \notin SetOf(q) PROVE Distinct(r)
  BY <1>1, <1>2, <1>4 DEF Distinct, SetOf
<1> QED BY <1>3, <1>4 DEF r

\* What a queue holds after mpsc_queue_push has claimed a place at its end.
LEMMA AppendCell ==
  ASSUME NEW T, NEW q \in Seq(T), NEW c \in T
  PROVE  /\ CellItems(Append(q, c)) = CellItems(q) \cup {c.item}
         /\ DistinctCells(q) /\ c.item \notin CellItems(q) => DistinctCells(Append(q, c))
<1>1. /\ Len(q) \in Nat /\ DOMAIN q = 1..Len(q) /\ DOMAIN Append(q, c) = 1..(Len(q) + 1)
      /\ \A i \in 1..Len(q) : Append(q, c)[i] = q[i]
      /\ Append(q, c)[Len(q) + 1] = c
  OBVIOUS
<1> DEFINE r == Append(q, c)
<1> HIDE DEF r
<1>2. /\ DOMAIN r = 1..(Len(q) + 1) /\ \A i \in 1..Len(q) : r[i].item = q[i].item
      /\ r[Len(q) + 1].item = c.item
  BY <1>1 DEF r
<1>3. CellItems(r) = CellItems(q) \cup {c.item}
  BY <1>1, <1>2 DEF CellItems
<1>4. ASSUME DistinctCells(q), c.item \notin CellItems(q) PROVE DistinctCells(r)
  BY <1>1, <1>2, <1>4 DEF DistinctCells, CellItems
<1> QED BY <1>3, <1>4 DEF r

\* What a queue holds after mpsc_queue_pop has taken its first cell.
LEMMA TailCells ==
  ASSUME NEW T, NEW q \in Seq(T), q # <<>>, DistinctCells(q)
  PROVE  /\ Head(q).item \in CellItems(q)
         /\ CellItems(Tail(q)) = CellItems(q) \ {Head(q).item}
         /\ DistinctCells(Tail(q))
<1>1. /\ Len(q) \in Nat \ {0} /\ DOMAIN q = 1..Len(q) /\ DOMAIN Tail(q) = 1..(Len(q) - 1)
      /\ \A i \in 1..(Len(q) - 1) : Tail(q)[i] = q[i + 1]
      /\ Head(q) = q[1]
  OBVIOUS
<1> DEFINE r == Tail(q)
<1> DEFINE h == Head(q).item
<1>2. /\ DOMAIN r = 1..(Len(q) - 1) /\ \A i \in 1..(Len(q) - 1) : r[i].item = q[i + 1].item
      /\ h = q[1].item
  BY <1>1
<1> HIDE DEF r, h
<1>3. h \in CellItems(q)
  BY <1>1, <1>2 DEF CellItems
<1>4. CellItems(r) \subseteq CellItems(q) \ {h}
  <2> SUFFICES ASSUME NEW x \in CellItems(r) PROVE x \in CellItems(q) \ {h}
    OBVIOUS
  <2>1. PICK m \in Nat \ {0} : m = Len(q)
    BY <1>1
  <2>2. PICK i \in 1..(m - 1) : x = r[i].item
    BY <1>2, <2>1 DEF CellItems
  <2>3. x = q[i + 1].item /\ i + 1 \in 1..m /\ i + 1 # 1 /\ 1 \in 1..m
    BY <1>2, <2>1, <2>2
  <2>4. x # q[1].item
    BY <1>1, <2>1, <2>3 DEF DistinctCells
  <2>5. x \in CellItems(q)
    BY <1>1, <2>1, <2>3 DEF CellItems
  <2> QED BY <1>2, <2>4, <2>5
<1>5. ASSUME NEW x \in CellItems(q), x # h PROVE x \in CellItems(r)
  <2>1. PICK i \in 1..Len(q) : x = q[i].item
    BY <1>1 DEF CellItems
  <2>2. i # 1
    BY <1>2, <1>5, <2>1
  <2>3. i - 1 \in 1..(Len(q) - 1) /\ (i - 1) + 1 = i
    BY <1>1, <2>2
  <2>4. r[i - 1].item = x
    BY <1>2, <2>1, <2>3
  <2> QED BY <1>2, <2>3, <2>4 DEF CellItems
<1>6. DistinctCells(r)
  <2> SUFFICES ASSUME NEW i \in DOMAIN r, NEW j \in DOMAIN r, r[i].item = r[j].item PROVE i = j
    BY DEF DistinctCells
  <2>1. i + 1 \in 1..Len(q) /\ j + 1 \in 1..Len(q) /\ q[i + 1].item = q[j + 1].item
    BY <1>1, <1>2
  <2>2. i + 1 = j + 1
    BY <1>1, <2>1 DEF DistinctCells
  <2> QED BY <1>1, <1>2, <2>2
<1> QED BY <1>3, <1>4, <1>5, <1>6 DEF r, h

\* Publishing a cell changes no item.
LEMMA PublishItems ==
  ASSUME NEW q \in Seq(Cell), NEW x
  PROVE  LET r == [i \in DOMAIN q |-> IF q[i].item = x THEN [q[i] EXCEPT !.ready = TRUE] ELSE q[i]]
         IN  CellItems(r) = CellItems(q) /\ (DistinctCells(q) => DistinctCells(r))
<1> DEFINE r == [i \in DOMAIN q |-> IF q[i].item = x THEN [q[i] EXCEPT !.ready = TRUE] ELSE q[i]]
<1>1. ASSUME NEW c \in Cell PROVE [c EXCEPT !.ready = TRUE].item = c.item
  BY DEF Cell
<1>2. DOMAIN r = DOMAIN q /\ \A i \in DOMAIN q : q[i] \in Cell
  OBVIOUS
<1>3. ASSUME NEW i \in DOMAIN q PROVE r[i].item = q[i].item
  BY <1>1, <1>2
<1> HIDE DEF r
<1>4. CellItems(r) = CellItems(q) /\ (DistinctCells(q) => DistinctCells(r))
  BY <1>2, <1>3 DEF CellItems, DistinctCells
<1> QED BY <1>4 DEF r

\* What it takes to leave hands and stores alone.
LEMMA HandsFrame == UNCHANGED <<epc, eitem>> => HandsBut({})
BY DEF HandsBut, Holds

\* A step that touches no queue and no batch leaves the stores alone.
LEMMA StoresFrame == UNCHANGED <<queue, pending>> => StoresBut({})
BY DEF StoresBut, Batch, Queued

\* A step that touches no store, no emit call and frees nothing moves no item.
LEMMA StillFrame == UNCHANGED <<queue, pending, freed, epc, eitem, nItems, accepted>> => Still
BY HandsFrame, StoresFrame DEF Still

\* The outcome of a request leaves the batch, or frees it.
LEMMA OutcomeMoves ==
  ASSUME Types, NEW s \in Signals, NEW count, NEW batch, NEW status,
         record_outcome(s, count, batch, status),
         UNCHANGED <<queue, epc, eitem, nItems, accepted>>
  PROVE  /\ Still \/ Clears(s)
         /\ (Still /\ UNCHANGED pending) \/ pending' = [pending EXCEPT ![s] = <<>>]
<1>1. CASE UNCHANGED <<pending, freed>>
  BY <1>1, StillFrame
<1>2. CASE clear_in_flight_batch(s)
  <2>1. /\ pending' = [pending EXCEPT ![s] = <<>>] /\ freed' = freed \cup Batch(s)
    BY <1>2 DEF clear_in_flight_batch, Batch
  <2>2. Batch(s)' = {}
    BY <2>1 DEF Batch, SetOf, Types, QueueTypes
  <2>3. StoresBut({s})
    BY <2>1 DEF StoresBut, Batch, Queued, Types, QueueTypes
  <2>4. HandsBut({}) /\ Queued(s)' = Queued(s)
    BY HandsFrame DEF Queued
  <2> QED BY <2>1, <2>2, <2>3, <2>4 DEF Clears
<1> QED BY <1>1, <1>2, Zenon DEF record_outcome

\* Every step moves items in one of these ways.
LEMMA Moves ==
  ASSUME Types, DistinctPlaces, [Next]_vars
  PROVE  \/ Still \/ FreesAll
         \/ \E p \in Emitters : Takes(p) \/ Drops(p)
         \/ \E p \in Emitters, s \in Signals : Puts(p, s)
         \/ \E s \in Signals : Drains(s) \/ Clears(s)
<1> USE Constants DEF Types
<1>1. CASE Quiet
  BY <1>1, QuietFrame, StillFrame DEF sigvars, emitvars, history
<1>2. CASE TickDrain
  <2>1. ts \in Signals /\ queue[ts] # <<>> /\ queue[ts] \in Seq(Cell) /\ pending[ts] \in Seq(Items)
    BY <1>2 DEF TickDrain, CanPop, OwnerTypes, QueueTypes, Signals
  <2>2. /\ queue' = [queue EXCEPT ![ts] = Tail(queue[ts])]
        /\ pending' = [pending EXCEPT ![ts] = Append(pending[ts], Head(queue[ts]).item)]
        /\ UNCHANGED <<freed, epc, eitem, nItems, accepted>>
    BY <1>2 DEF TickDrain, emitvars, history
  <2> DEFINE x == Head(queue[ts]).item
  <2>3. x \in Queued(ts) /\ CellItems(Tail(queue[ts])) = Queued(ts) \ {x}
    BY <2>1, TailCells DEF Queued, DistinctPlaces
  <2>4. Head(queue[ts]) \in Cell
    BY <2>1
  <2>5. x \in Items
    BY <2>4 DEF Cell
  <2>6. SetOf(Append(pending[ts], x)) = Batch(ts) \cup {x}
    BY <2>1, <2>5, AppendItem DEF Batch
  <2> HIDE DEF x
  <2>7. Queued(ts)' = Queued(ts) \ {x} /\ Batch(ts)' = Batch(ts) \cup {x}
    <3>1. queue'[ts] = Tail(queue[ts]) /\ pending'[ts] = Append(pending[ts], x)
      BY <2>1, <2>2 DEF QueueTypes, x
    <3>2. UNCHANGED ts
      BY <1>2 DEF TickDrain
    <3> QED BY <2>3, <2>6, <3>1, <3>2 DEF Queued, Batch
  <2>8. StoresBut({ts})
    BY <2>1, <2>2 DEF StoresBut, Batch, Queued, QueueTypes
  <2>9. UNCHANGED ts
    BY <1>2 DEF TickDrain
  <2>10. Drains(ts)
    BY <2>2, <2>3, <2>7, <2>8, HandsFrame DEF Drains
  <2> QED BY <2>1, <2>10
<1>3. CASE TickNull
  <2>1. UNCHANGED <<queue, epc, eitem, nItems, accepted>>
    BY <1>3 DEF TickNull, Emitting, emitvars
  <2>2. PICK s \in Signals, status \in Responses :
          record_outcome(s, Len(pending[s]), SetOf(pending[s]), status)
    BY <1>3 DEF TickNull
  <2> QED BY <2>1, <2>2, OutcomeMoves
<1>4. CASE TickStart
  BY <1>4, StillFrame DEF TickStart, StartUnchanged, Emitting, emitvars
<1>5. CASE TickFinish
  <2>1. UNCHANGED <<queue, epc, eitem, nItems, accepted>>
    BY <1>5 DEF TickFinish, Emitting, emitvars
  <2>2. PICK status : record_outcome(inFlightSignal, inFlightCount, SetOf(wire), status)
    BY <1>5 DEF TickFinish
  <2>3. inFlightSignal \in Signals
    BY DEF RequestTypes
  <2> QED BY <2>1, <2>2, <2>3, OutcomeMoves
<1>6. CASE TickRetry
  BY <1>6, StillFrame DEF TickRetry, StartUnchanged, Emitting, emitvars
<1>7. CASE Free
  <2>1. \A s \in Signals : Batch(s)' = {} /\ Queued(s)' = {}
    BY <1>7 DEF Free, Batch, Queued, SetOf, CellItems
  <2>2. \A o \in Emitters : ~Holds(o) /\ ~Holds(o)'
    BY <1>7 DEF Free, emitvars, Holds
  <2> QED BY <1>7, <2>1, <2>2 DEF Free, FreesAll, emitvars, history
<1>8. CASE BackoffElapses \/ \E s \in Signals : Age(s)
  BY <1>8, StillFrame DEF BackoffElapses, Age, sigvars, emitvars, history
<1>9. CASE \E p \in Emitters : Emit(p)
  <2>1. PICK p \in Emitters : Emit(p)
    BY <1>9
  <2>2. UNCHANGED pending
    BY <2>1, EmitFrame DEF EmitUnchanged
  <2>3. ASSUME UNCHANGED queue PROVE StoresBut({})
    BY <2>2, <2>3, StoresFrame
  <2>4. ASSUME NEW s \in Signals, Own(p, s), ~Holds(p), UNCHANGED <<queue, freed, accepted>>
        PROVE  Takes(p)
    <3>1. HandsBut({p})
      BY <2>4 DEF Own, HandsBut, Holds, EmitTypes
    <3>2. Holds(p)' /\ eitem'[p] = nItems + 1 /\ nItems' = nItems + 1
      BY <2>4 DEF Own, Holds, EmitTypes
    <3> QED BY <2>3, <2>4, <3>1, <3>2 DEF Takes
  <2>5. ASSUME Holds(p), EmitReturn(p), UNCHANGED <<queue, accepted>>, freed' = freed \cup {eitem[p]}
        PROVE  Drops(p)
    <3>1. HandsBut({p})
      BY <2>5 DEF EmitReturn, HandsBut, Holds, EmitTypes
    <3>2. ~Holds(p)' /\ UNCHANGED nItems
      BY <2>5 DEF EmitReturn, Holds, EmitTypes
    <3> QED BY <2>3, <2>5, <3>1, <3>2 DEF Drops
  <2>6. ASSUME EmitReturn(p), ~Holds(p) PROVE HandsBut({}) /\ UNCHANGED nItems
    BY <2>6 DEF EmitReturn, HandsBut, Holds, EmitTypes
  <2>7. ASSUME NEW pc, EmitGoto(p, pc), pc \in {"check", "push"} <=> Holds(p)
        PROVE  HandsBut({}) /\ UNCHANGED nItems
    BY <2>7 DEF EmitGoto, HandsBut, Holds, EmitTypes
  <2>8. esig[p] \in Signals
    BY DEF EmitTypes
  <2>9. CASE \E s \in Signals : EmitMove(p, s)
    <3>1. Takes(p)
      BY <2>4, <2>9 DEF EmitMove, Holds
    <3> QED BY <3>1
  <2>10. CASE \E s \in Signals : EmitClone(p, s)
    <3>1. HandsBut({}) /\ UNCHANGED nItems
      BY <2>10 DEF EmitClone, HandsBut, Holds, EmitTypes
    <3> QED BY <2>3, <2>10, <3>1 DEF EmitClone, Still
  <2>11. CASE EmitCloned(p)
    <3>1. ~Holds(p) /\ UNCHANGED <<queue, freed, accepted>>
      BY <2>11 DEF EmitCloned, Holds
    <3>2. CASE Own(p, esig[p])
      BY <2>4, <2>8, <3>1, <3>2
    <3>3. CASE EmitReturn(p)
      BY <2>3, <2>6, <3>1, <3>3 DEF Still
    <3> QED BY <2>11, <3>2, <3>3 DEF EmitCloned
  <2>12. CASE EmitCheck(p)
    <3>1. Holds(p) /\ UNCHANGED <<queue, accepted>>
      BY <2>12 DEF EmitCheck, Holds
    <3>2. CASE EmitGoto(p, "push") /\ UNCHANGED freed
      BY <2>3, <2>7, <3>1, <3>2 DEF Still
    <3>3. CASE EmitReturn(p) /\ freed' = freed \cup {eitem[p]}
      BY <2>5, <3>1, <3>3
    <3> QED BY <2>12, <3>2, <3>3 DEF EmitCheck
  <2>13. CASE EmitReserve(p)
    <3> DEFINE s == esig[p]
    <3> DEFINE c == [item |-> eitem[p], ready |-> FALSE]
    <3>1. queue[s] \in Seq(Cell) /\ eitem[p] \in Items
      BY <2>8, <2>13 DEF EmitReserve, QueueTypes, EmitTypes, Holds
    <3>2. c \in Cell /\ c.item = eitem[p]
      BY <3>1, Zenon DEF Cell
    <3>3. /\ queue' = [queue EXCEPT ![s] = Append(queue[s], c)] /\ UNCHANGED freed
          /\ accepted' = [accepted EXCEPT ![s] = @ \cup {eitem[p]}]
      BY <2>13 DEF EmitReserve
    <3> HIDE DEF c
    <3>4. CellItems(Append(queue[s], c)) = Queued(s) \cup {eitem[p]}
      BY <3>1, <3>2, AppendCell DEF Queued
    <3>5. EmitGoto(p, "publish") /\ Holds(p)
      BY <2>13 DEF EmitReserve, Holds
    <3>6. HandsBut({p}) /\ ~Holds(p)' /\ UNCHANGED <<nItems, esig>>
      BY <3>5 DEF EmitGoto, HandsBut, Holds, EmitTypes
    <3>7. queue'[s] = Append(queue[s], c) /\ \A r \in Signals \ {s} : queue'[r] = queue[r]
      BY <2>8, <3>3 DEF QueueTypes
    <3>8. StoresBut({s})
      BY <2>2, <3>7 DEF StoresBut, Batch, Queued
    <3>9. Queued(s)' = Queued(s) \cup {eitem[p]} /\ Batch(s)' = Batch(s)
      BY <2>2, <3>4, <3>6, <3>7 DEF Queued, Batch
    <3> HIDE DEF s
    <3>10. Puts(p, s)
      BY <3>3, <3>5, <3>6, <3>8, <3>9 DEF Puts
    <3> QED BY <2>8, <3>10 DEF s
  <2>14. CASE EmitFull(p)
    <3>1. Holds(p)
      BY <2>14 DEF EmitFull, Holds
    <3> QED BY <2>5, <2>14, <3>1 DEF EmitFull
  <2>15. CASE EmitPublish(p)
    <3> DEFINE q == queue[esig[p]]
    <3> DEFINE r == [i \in DOMAIN q |-> IF q[i].item = eitem[p] THEN [q[i] EXCEPT !.ready = TRUE]
                                                               ELSE q[i]]
    <3>1. q \in Seq(Cell) /\ queue' = [queue EXCEPT ![esig[p]] = r]
      BY <2>8, <2>15 DEF EmitPublish, QueueTypes
    <3>2. CellItems(r) = CellItems(q)
      BY <3>1, PublishItems
    <3> HIDE DEF q, r
    <3>3. \A s \in Signals : CellItems(queue'[s]) = CellItems(queue[s])
      BY <2>8, <3>1, <3>2 DEF q, QueueTypes
    <3>4. StoresBut({})
      BY <2>2, <3>3 DEF StoresBut, Batch, Queued
    <3>5. HandsBut({}) /\ UNCHANGED <<nItems, freed, accepted>>
      BY <2>7, <2>15 DEF EmitPublish, Holds
    <3> QED BY <3>4, <3>5 DEF Still
  <2>16. CASE EmitCount(p)
    <3>1. ~Holds(p)
      BY <2>16 DEF EmitCount, Holds
    <3> QED BY <2>3, <2>6, <2>16, <3>1 DEF EmitCount, Still
  <2> QED BY <2>1, <2>9, <2>10, <2>11, <2>12, <2>13, <2>14, <2>15, <2>16 DEF Emit
<1>10. CASE UNCHANGED vars
  BY <1>10, StillFrame DEF vars, sigvars, emitvars, history
<1> QED BY <1>1, <1>2, <1>3, <1>4, <1>5, <1>6, <1>7, <1>8, <1>9, <1>10, NextCases

(***************************************************************************)
(* Ownership                                                               *)
(***************************************************************************)
\* Stores share no item, with each other or with what is freed.
Apart ==
  /\ \A s \in Signals : Batch(s) \cap Queued(s) = {} /\ Stored(s) \cap freed = {}
  /\ \A r, s \in Signals : r # s => Stored(r) \cap Stored(s) = {}
  /\ \A s \in Signals : Stored(s) \subseteq Given
  /\ freed \subseteq Given

\* An item in a hand is in one hand, and nowhere else.
InHand ==
  /\ \A p \in Emitters : Holds(p) =>
       eitem[p] \in Given \ freed /\ \A s \in Signals : eitem[p] \notin Stored(s)
  /\ \A p, q \in Emitters : Holds(p) /\ Holds(q) /\ p # q => eitem[p] # eitem[q]

\* Every item is somewhere.
Covered ==
  \A x \in Given : \/ x \in freed
                   \/ \E s \in Signals : x \in Stored(s)
                   \/ \E p \in Emitters : Holds(p) /\ eitem[p] = x

Places == Apart /\ InHand /\ Covered

\* A new item is none of those given before.
LEMMA NewItem ==
  ASSUME EmitTypes, nItems' = nItems + 1
  PROVE  Given' = Given \cup {nItems + 1} /\ nItems + 1 \notin Given
BY Constants DEF EmitTypes, Given

\* Every way of moving items keeps each of them in one place.
LEMMA MovesKeepPlaces ==
  ASSUME Types, Places,
         \/ Still \/ FreesAll
         \/ \E p \in Emitters : Takes(p) \/ Drops(p)
         \/ \E p \in Emitters, s \in Signals : Puts(p, s)
         \/ \E s \in Signals : Drains(s) \/ Clears(s)
  PROVE  Places'
<1> USE DEF Places
<1>0. nItems' = nItems => Given' = Given
  BY DEF Given
<1>s. \A s \in Signals : Stored(s) = Batch(s) \cup Queued(s) /\ Stored(s)' = Batch(s)' \cup Queued(s)'
  BY DEF Stored, Batch, Queued
<1>1. CASE Still
  <2>1. \A s \in Signals : /\ Batch(s)' = Batch(s) /\ Queued(s)' = Queued(s)
                           /\ Stored(s)' = Stored(s)
    BY <1>1, <1>s DEF Still, StoresBut
  <2>2. \A p \in Emitters : (Holds(p)' <=> Holds(p)) /\ (Holds(p) => eitem'[p] = eitem[p])
    BY <1>1 DEF Still, HandsBut
  <2>3. freed' = freed /\ Given' = Given
    BY <1>0, <1>1 DEF Still
  <2>4. Apart'
    BY <2>1, <2>3 DEF Apart
  <2>5. InHand'
    BY <2>1, <2>2, <2>3 DEF InHand
  <2>6. Covered'
    BY <2>1, <2>2, <2>3 DEF Covered
  <2> QED BY <2>4, <2>5, <2>6
<1>2. CASE FreesAll
  <2>1. \A s \in Signals : Batch(s)' = {} /\ Queued(s)' = {} /\ Stored(s)' = {}
    BY <1>2, <1>s DEF FreesAll
  <2>2. Given' = Given /\ freed' = freed \cup Visible /\ \A p \in Emitters : ~Holds(p) /\ ~Holds(p)'
    BY <1>0, <1>2 DEF FreesAll
  <2>3. Visible \subseteq Given /\ \A s \in Signals : Stored(s) \subseteq Visible
    BY DEF Apart, Visible
  <2>4. Apart'
    BY <2>1, <2>2, <2>3 DEF Apart
  <2>5. InHand'
    BY <2>2 DEF InHand
  <2>6. Covered'
    BY <2>2, <2>3 DEF Covered
  <2> QED BY <2>4, <2>5, <2>6
<1>3. CASE \E p \in Emitters : Takes(p)
  <2>1. PICK p \in Emitters : Takes(p)
    BY <1>3
  <2>2. \A s \in Signals : /\ Batch(s)' = Batch(s) /\ Queued(s)' = Queued(s)
                           /\ Stored(s)' = Stored(s)
    BY <1>s, <2>1 DEF Takes, StoresBut
  <2>3. /\ freed' = freed /\ Given' = Given \cup {nItems + 1} /\ nItems + 1 \notin Given
        /\ ~Holds(p) /\ Holds(p)' /\ eitem'[p] = nItems + 1
    BY <2>1, NewItem DEF Takes, Types
  <2>4. \A o \in Emitters : o # p => (Holds(o)' <=> Holds(o)) /\ (Holds(o) => eitem'[o] = eitem[o])
    BY <2>1 DEF Takes, HandsBut
  <2>5. Apart'
    BY <2>2, <2>3 DEF Apart
  <2>6. InHand'
    <3>1. \A o \in Emitters : Holds(o)' =>
            eitem'[o] \in Given' \ freed' /\ \A s \in Signals : eitem'[o] \notin Stored(s)'
      BY <2>2, <2>3, <2>4 DEF InHand, Apart
    <3>2. \A o, q \in Emitters : Holds(o)' /\ Holds(q)' /\ o # q => eitem'[o] # eitem'[q]
      BY <2>3, <2>4 DEF InHand
    <3> QED BY <3>1, <3>2 DEF InHand
  <2>7. Covered'
    BY <2>2, <2>3, <2>4 DEF Covered
  <2> QED BY <2>5, <2>6, <2>7
<1>4. CASE \E p \in Emitters : Drops(p)
  <2>1. PICK p \in Emitters : Drops(p)
    BY <1>4
  <2>2. \A s \in Signals : /\ Batch(s)' = Batch(s) /\ Queued(s)' = Queued(s)
                           /\ Stored(s)' = Stored(s)
    BY <1>s, <2>1 DEF Drops, StoresBut
  <2>3. Given' = Given /\ Holds(p) /\ ~Holds(p)' /\ freed' = freed \cup {eitem[p]}
    BY <1>0, <2>1 DEF Drops
  <2>4. \A o \in Emitters : o # p => (Holds(o)' <=> Holds(o)) /\ (Holds(o) => eitem'[o] = eitem[o])
    BY <2>1 DEF Drops, HandsBut
  <2>5. Apart'
    BY <2>2, <2>3 DEF Apart, InHand
  <2>6. InHand'
    <3>1. \A o \in Emitters : Holds(o)' =>
            eitem'[o] \in Given' \ freed' /\ \A s \in Signals : eitem'[o] \notin Stored(s)'
      BY <2>2, <2>3, <2>4 DEF InHand
    <3>2. \A o, q \in Emitters : Holds(o)' /\ Holds(q)' /\ o # q => eitem'[o] # eitem'[q]
      BY <2>3, <2>4 DEF InHand
    <3> QED BY <3>1, <3>2 DEF InHand
  <2>7. Covered'
    BY <2>2, <2>3, <2>4 DEF Covered
  <2> QED BY <2>5, <2>6, <2>7
<1>5. CASE \E p \in Emitters, s \in Signals : Puts(p, s)
  <2>1. PICK p \in Emitters, s \in Signals : Puts(p, s)
    BY <1>5
  <2>2. \A r \in Signals : r # s => /\ Batch(r)' = Batch(r) /\ Queued(r)' = Queued(r)
                                    /\ Stored(r)' = Stored(r)
    BY <1>s, <2>1 DEF Puts, StoresBut
  <2>3. /\ Given' = Given /\ freed' = freed /\ Holds(p) /\ ~Holds(p)'
        /\ Queued(s)' = Queued(s) \cup {eitem[p]} /\ Batch(s)' = Batch(s)
        /\ Stored(s)' = Stored(s) \cup {eitem[p]}
    BY <1>0, <1>s, <2>1 DEF Puts
  <2>4. \A o \in Emitters : o # p => (Holds(o)' <=> Holds(o)) /\ (Holds(o) => eitem'[o] = eitem[o])
    BY <2>1 DEF Puts, HandsBut
  <2>5. Apart'
    <3>1. eitem[p] \in Given /\ eitem[p] \notin freed /\ \A r \in Signals : eitem[p] \notin Stored(r)
      BY <2>3 DEF InHand
    <3>2. \A r \in Signals : Batch(r)' \cap Queued(r)' = {} /\ Stored(r)' \cap freed' = {}
      BY <1>s, <2>2, <2>3, <3>1 DEF Apart
    <3>3. \A r, q \in Signals : r # q => Stored(r)' \cap Stored(q)' = {}
      BY <2>2, <2>3, <3>1 DEF Apart
    <3>4. \A r \in Signals : Stored(r)' \subseteq Given'
      BY <2>2, <2>3, <3>1 DEF Apart
    <3> QED BY <2>3, <3>2, <3>3, <3>4 DEF Apart
  <2>6. InHand'
    <3>1. \A o \in Emitters : Holds(o)' =>
            eitem'[o] \in Given' \ freed' /\ \A r \in Signals : eitem'[o] \notin Stored(r)'
      BY <2>2, <2>3, <2>4 DEF InHand
    <3>2. \A o, q \in Emitters : Holds(o)' /\ Holds(q)' /\ o # q => eitem'[o] # eitem'[q]
      BY <2>3, <2>4 DEF InHand
    <3> QED BY <3>1, <3>2 DEF InHand
  <2>7. Covered'
    BY <2>2, <2>3, <2>4 DEF Covered
  <2> QED BY <2>5, <2>6, <2>7
<1>6. CASE \E s \in Signals : Drains(s)
  <2>1. PICK s \in Signals : Drains(s)
    BY <1>6
  <2>2. PICK x \in Queued(s) : Queued(s)' = Queued(s) \ {x} /\ Batch(s)' = Batch(s) \cup {x}
    BY <2>1 DEF Drains
  <2>3. \A r \in Signals : r # s => /\ Batch(r)' = Batch(r) /\ Queued(r)' = Queued(r)
    BY <2>1 DEF Drains, StoresBut
  <2>4. \A r \in Signals : Stored(r)' = Stored(r)
    <3>1. Queued(s)' \cup Batch(s)' = Queued(s) \cup Batch(s)
      BY <2>2
    <3>2. Stored(s)' = Stored(s)
      BY <1>s, <3>1
    <3> QED BY <1>s, <2>3, <3>2
  <2>5. /\ Given' = Given /\ freed' = freed
        /\ \A p \in Emitters : (Holds(p)' <=> Holds(p)) /\ (Holds(p) => eitem'[p] = eitem[p])
    BY <1>0, <2>1 DEF Drains, HandsBut
  <2>6. Apart'
    <3>1. \A r \in Signals : Batch(r)' \cap Queued(r)' = {}
      BY <2>2, <2>3 DEF Apart
    <3> QED BY <2>4, <2>5, <3>1 DEF Apart
  <2>7. InHand'
    BY <2>4, <2>5 DEF InHand
  <2>8. Covered'
    BY <2>4, <2>5 DEF Covered
  <2> QED BY <2>6, <2>7, <2>8
<1>7. CASE \E s \in Signals : Clears(s)
  <2>1. PICK s \in Signals : Clears(s)
    BY <1>7
  <2>2. \A r \in Signals : r # s => /\ Batch(r)' = Batch(r) /\ Queued(r)' = Queued(r)
                                    /\ Stored(r)' = Stored(r)
    BY <1>s, <2>1 DEF Clears, StoresBut
  <2>3. /\ Batch(s)' = {} /\ Queued(s)' = Queued(s) /\ freed' = freed \cup Batch(s)
        /\ Stored(s) = Batch(s) \cup Queued(s) /\ Stored(s)' = Queued(s) /\ Given' = Given
    BY <1>0, <1>s, <2>1 DEF Clears
  <2>4. \A p \in Emitters : (Holds(p)' <=> Holds(p)) /\ (Holds(p) => eitem'[p] = eitem[p])
    BY <2>1 DEF Clears, HandsBut
  <2>5. Apart'
    <3>1. \A r \in Signals : Batch(r)' \cap Queued(r)' = {}
      BY <2>2, <2>3 DEF Apart
    <3>2. \A r \in Signals : Stored(r)' \cap freed' = {}
      BY <2>2, <2>3 DEF Apart
    <3>3. \A r, q \in Signals : r # q => Stored(r)' \cap Stored(q)' = {}
      BY <2>2, <2>3 DEF Apart
    <3>4. freed' \subseteq Given' /\ \A r \in Signals : Stored(r)' \subseteq Given'
      BY <2>2, <2>3 DEF Apart
    <3> QED BY <3>1, <3>2, <3>3, <3>4 DEF Apart
  <2>6. InHand'
    BY <2>2, <2>3, <2>4 DEF InHand
  <2>7. Covered'
    BY <2>2, <2>3, <2>4 DEF Covered
  <2> QED BY <2>5, <2>6, <2>7
<1> QED BY <1>1, <1>2, <1>3, <1>4, <1>5, <1>6, <1>7

\* New batches and queues hold no item twice, because the item that a step adds
\* was not there.
LEMMA NextDistinct ==
  ASSUME Types, Places, DistinctPlaces, [Next]_vars
  PROVE  DistinctPlaces'
<1> USE Constants DEF Types
<1>0. UNCHANGED <<queue, pending>> => DistinctPlaces'
  BY DEF DistinctPlaces
<1>1. CASE Quiet
  BY <1>0, <1>1, QuietFrame DEF sigvars
<1>2. CASE TickDrain
  <2>1. ts \in Signals /\ queue[ts] # <<>> /\ queue[ts] \in Seq(Cell) /\ pending[ts] \in Seq(Items)
    BY <1>2 DEF TickDrain, CanPop, OwnerTypes, QueueTypes, Signals
  <2> DEFINE x == Head(queue[ts]).item
  <2>2. /\ queue' = [queue EXCEPT ![ts] = Tail(queue[ts])]
        /\ pending' = [pending EXCEPT ![ts] = Append(pending[ts], x)]
    BY <1>2 DEF TickDrain
  <2>3. x \in CellItems(queue[ts]) /\ DistinctCells(Tail(queue[ts]))
    BY <2>1, TailCells DEF DistinctPlaces
  <2>4. Head(queue[ts]) \in Cell
    BY <2>1
  <2>5. x \in Items /\ x \notin SetOf(pending[ts])
    <3>1. Batch(ts) \cap Queued(ts) = {}
      BY <2>1 DEF Places, Apart
    <3> QED BY <2>3, <2>4, <3>1 DEF Cell, Batch, Queued
  <2>6. Distinct(Append(pending[ts], x))
    BY <2>1, <2>5, AppendItem DEF DistinctPlaces
  <2> HIDE DEF x
  <2>7. \A s \in Signals : /\ pending'[s] = IF s = ts THEN Append(pending[ts], x) ELSE pending[s]
                           /\ queue'[s] = IF s = ts THEN Tail(queue[ts]) ELSE queue[s]
    BY <2>1, <2>2 DEF QueueTypes
  <2> QED BY <2>3, <2>6, <2>7 DEF DistinctPlaces
<1>3. ASSUME NEW s \in Signals, UNCHANGED queue,
             UNCHANGED pending \/ pending' = [pending EXCEPT ![s] = <<>>]
      PROVE  DistinctPlaces'
  <2>1. Distinct(<<>>)
    BY DEF Distinct
  <2>2. \A r \in Signals : queue'[r] = queue[r] /\ (pending'[r] = pending[r] \/ pending'[r] = <<>>)
    BY <1>3 DEF QueueTypes
  <2> QED BY <2>1, <2>2 DEF DistinctPlaces
<1>4. CASE TickNull
  <2>1. UNCHANGED <<queue, epc, eitem, nItems, accepted>>
    BY <1>4 DEF TickNull, Emitting, emitvars
  <2>2. PICK s \in Signals, status \in Responses :
          record_outcome(s, Len(pending[s]), SetOf(pending[s]), status)
    BY <1>4 DEF TickNull
  <2> QED BY <1>3, <2>1, <2>2, OutcomeMoves
<1>5. CASE TickStart
  BY <1>0, <1>5 DEF TickStart, StartUnchanged
<1>6. CASE TickFinish
  <2>1. UNCHANGED <<queue, epc, eitem, nItems, accepted>>
    BY <1>6 DEF TickFinish, Emitting, emitvars
  <2>2. PICK status : record_outcome(inFlightSignal, inFlightCount, SetOf(wire), status)
    BY <1>6 DEF TickFinish
  <2>3. inFlightSignal \in Signals
    BY DEF RequestTypes
  <2> QED BY <1>3, <2>1, <2>2, <2>3, OutcomeMoves
<1>7. CASE TickRetry
  BY <1>0, <1>7 DEF TickRetry, StartUnchanged
<1>8. CASE Free
  <2>1. \A s \in Signals : queue'[s] = <<>> /\ pending'[s] = <<>>
    BY <1>8 DEF Free
  <2>2. Distinct(<<>>) /\ DistinctCells(<<>>)
    BY DEF Distinct, DistinctCells
  <2> QED BY <2>1, <2>2 DEF DistinctPlaces
<1>9. CASE BackoffElapses \/ \E s \in Signals : Age(s)
  BY <1>0, <1>9 DEF BackoffElapses, Age, sigvars
<1>10. CASE \E p \in Emitters : Emit(p)
  <2>1. PICK p \in Emitters : Emit(p)
    BY <1>10
  <2>2. UNCHANGED pending
    BY <2>1, EmitFrame DEF EmitUnchanged
  <2>3. esig[p] \in Signals
    BY DEF EmitTypes
  <2>4. CASE EmitReserve(p)
    <3> DEFINE q == queue[esig[p]]
    <3> DEFINE c == [item |-> eitem[p], ready |-> FALSE]
    <3>1. queue' = [queue EXCEPT ![esig[p]] = Append(q, c)] /\ q \in Seq(Cell)
      BY <2>3, <2>4 DEF EmitReserve, QueueTypes
    <3>2. c \in Cell /\ c.item = eitem[p]
      <4>1. eitem[p] \in Items
        BY <2>4 DEF EmitReserve, EmitTypes, Holds
      <4> QED BY <4>1, Zenon DEF Cell
    <3>3. eitem[p] \notin CellItems(q)
      <4>1. eitem[p] \notin Stored(esig[p])
        BY <2>3, <2>4 DEF EmitReserve, Holds, Places, InHand
      <4> QED BY <4>1 DEF Stored
    <3>4. DistinctCells(q)
      BY <2>3 DEF DistinctPlaces
    <3> HIDE DEF q, c
    <3>5. DistinctCells(Append(q, c))
      BY <3>1, <3>2, <3>3, <3>4, AppendCell
    <3>6. \A s \in Signals : queue'[s] = IF s = esig[p] THEN Append(q, c) ELSE queue[s]
      BY <2>3, <3>1 DEF QueueTypes
    <3> QED BY <2>2, <3>5, <3>6 DEF DistinctPlaces
  <2>5. CASE EmitPublish(p)
    <3> DEFINE q == queue[esig[p]]
    <3> DEFINE r == [i \in DOMAIN q |-> IF q[i].item = eitem[p] THEN [q[i] EXCEPT !.ready = TRUE]
                                                               ELSE q[i]]
    <3>1. q \in Seq(Cell) /\ queue' = [queue EXCEPT ![esig[p]] = r] /\ DistinctCells(q)
      BY <2>3, <2>5 DEF EmitPublish, QueueTypes, DistinctPlaces
    <3>2. DistinctCells(r)
      BY <3>1, PublishItems
    <3> HIDE DEF q, r
    <3>3. \A s \in Signals : queue'[s] = IF s = esig[p] THEN r ELSE queue[s]
      BY <2>3, <3>1 DEF QueueTypes
    <3> QED BY <2>2, <3>2, <3>3 DEF DistinctPlaces
  <2>6. CASE UNCHANGED queue
    BY <1>0, <2>2, <2>6
  <2> QED BY <2>1, <2>4, <2>5, <2>6, Zenon DEF Emit, EmitMove, EmitClone, EmitCloned, EmitCheck,
                                               EmitFull, EmitCount
<1>11. CASE UNCHANGED vars
  BY <1>0, <1>11 DEF vars, sigvars
<1> QED BY <1>1, <1>2, <1>4, <1>5, <1>6, <1>7, <1>8, <1>9, <1>10, <1>11, NextCases

(***************************************************************************)
(* The owner's calls                                                       *)
(***************************************************************************)
\* The steps of tick and flush happen inside a call; after free() nothing is
\* left, nobody is in emit, and nothing happens any more.
Calls ==
  /\ tpc = "idle" <=> owner \in {"idle", "freed"}
  /\ owner = "freed" => /\ \A p \in Emitters : epc[p] = "idle"
                        /\ \A s \in Signals : queue[s] = <<>> /\ pending[s] = <<>>
                        /\ ~inFlight

\* Every step keeps the owner's calls and the steps of tick in line.
LEMMA NextCalls ==
  ASSUME Types, Calls, [Next]_vars
  PROVE  Calls' /\ (owner = "freed" => UNCHANGED vars)
<1> USE Constants DEF Types
<1>1. CASE owner # "freed" /\ owner' # "freed"
  <2>1. CASE Quiet
    <3> SUFFICES tpc' = "idle" <=> owner' \in {"idle", "freed"}
      BY <1>1 DEF Calls
    <3>1. CASE TickBegin \/ TickDrained \/ TickNoStart \/ TickStep
      BY <1>1, <3>1 DEF Calls, TickBegin, TickDrained, TickNoStart, TickStep, Sending, TickGoto
    <3>2. CASE TickNoRetry \/ FlushBegin \/ FlushLoop \/ FlushReturn
      BY <1>1, <3>2 DEF Calls, TickNoRetry, FlushBegin, FlushLoop, FlushReturn, TickGoto
    <3>3. CASE TickEnd
      BY <1>1, <3>3 DEF Calls, OwnerTypes, TickEnd, TickGoto
    <3>4. CASE Shutdown
      BY <1>1, <3>4 DEF Calls, Shutdown, ownvars
    <3> QED BY <2>1, <3>1, <3>2, <3>3, <3>4 DEF Quiet
  <2>2. CASE TickDrain \/ TickNull \/ TickStart \/ TickFinish \/ TickRetry
    BY <1>1, <2>2 DEF Calls, OwnerTypes, TickDrain, TickNull, TickStart, TickFinish, TickRetry,
         Sending, TickGoto
  <2>3. CASE UNCHANGED <<owner, tpc>>
    BY <1>1, <2>3 DEF Calls
  <2>4. (\E p \in Emitters : Emit(p)) => UNCHANGED <<owner, tpc>>
    BY EmitFrame DEF EmitUnchanged, ownvars
  <2>5. BackoffElapses \/ (\E s \in Signals : Age(s)) \/ UNCHANGED vars => UNCHANGED <<owner, tpc>>
    BY DEF BackoffElapses, Age, vars, ownvars
  <2>6. ~Free
    BY <1>1 DEF Free
  <2> QED BY <1>1, <2>1, <2>2, <2>3, <2>4, <2>5, <2>6, NextCases
<1>2. CASE Free
  <2>1. owner' = "freed" /\ tpc' = "idle" /\ owner = "idle"
    BY <1>2 DEF Free, Calls
  <2>2. \A p \in Emitters : epc'[p] = "idle"
    BY <1>2 DEF Free, emitvars
  <2>3. \A s \in Signals : queue'[s] = <<>> /\ pending'[s] = <<>>
    BY <1>2 DEF Free
  <2>4. ~inFlight'
    BY <1>2, Zenon DEF Free
  <2> QED BY <2>1, <2>2, <2>3, <2>4 DEF Calls
<1>3. CASE owner = "freed"
  <2>1. ~Quiet
    BY <1>3 DEF Quiet, Calls, TickBegin, TickDrained, TickNoStart, TickStep, Sending,
         TickNoRetry, TickEnd, FlushBegin, FlushLoop, FlushReturn, Shutdown
  <2>2. ~(TickDrain \/ TickNull \/ TickStart \/ TickFinish \/ TickRetry \/ Free)
    BY <1>3 DEF Calls, TickDrain, TickNull, TickStart, TickFinish, TickRetry, Sending, Free
  <2>3. ~(BackoffElapses \/ (\E s \in Signals : Age(s)))
    BY <1>3 DEF BackoffElapses, Age, Alive
  <2>4. ~(\E p \in Emitters : Emit(p))
    BY <1>3 DEF Calls, Emit, EmitMove, EmitClone, EmitCloned, EmitCheck, EmitReserve, EmitFull,
         EmitPublish, EmitCount, Alive
  <2>5. UNCHANGED vars
    BY <2>1, <2>2, <2>3, <2>4, NextCases
  <2>6. UNCHANGED <<owner, tpc, epc, queue, pending, inFlight>>
    BY <2>5 DEF vars, ownvars, emitvars, sigvars, request
  <2> QED BY <2>5, <2>6 DEF Calls
<1>4. owner # "freed" /\ owner' = "freed" => Free
  <2>1. ~Free /\ owner # "freed" => owner' # "freed"
    <3>1. Quiet /\ owner # "freed" => owner' # "freed"
      BY DEF Quiet, TickBegin, TickDrained, TickNoStart, TickStep, TickNoRetry, TickEnd,
           FlushBegin, FlushLoop, FlushReturn, Shutdown, ownvars
    <3>2. TickDrain \/ TickNull \/ TickStart \/ TickFinish \/ TickRetry => UNCHANGED owner
      BY DEF TickDrain, TickNull, TickStart, TickFinish, TickRetry
    <3>3. (\E p \in Emitters : Emit(p)) => UNCHANGED owner
      BY EmitFrame DEF EmitUnchanged, ownvars
    <3>4. BackoffElapses \/ (\E s \in Signals : Age(s)) \/ UNCHANGED vars => UNCHANGED owner
      BY DEF BackoffElapses, Age, vars, ownvars
    <3> QED BY <3>1, <3>2, <3>3, <3>4, NextCases
  <2> QED BY <2>1
<1> QED BY <1>1, <1>2, <1>3, <1>4

(***************************************************************************)
(* The request and its batch                                               *)
(***************************************************************************)
\* A batch timer runs only for a batch.
Timed == Alive => \A s \in Signals : first[s] # "unset" => pending[s] # <<>>

\* The null transport has nothing in flight.
NullIdle == NullTransport => ~inFlight

\* The items of the request are the first ones of its batch.
Carried ==
  inFlight => /\ wire # <<>> /\ Len(wire) = inFlightCount /\ backoff = "off"
              /\ Len(pending[inFlightSignal]) >= inFlightCount
              /\ \A i \in 1..inFlightCount : pending[inFlightSignal][i] = wire[i]

\* A backoff runs for a batch, and with nothing in flight.
Waiting == backoff # "off" /\ Alive => ~inFlight /\ pending[inFlightSignal] # <<>>

Requests == Timed /\ NullIdle /\ Carried /\ Waiting

\* What a step has to leave alone to leave them alone.
LEMMA RequestsFrame ==
  ASSUME Requests, UNCHANGED <<pending, first, request, retry>>, Alive' => Alive
  PROVE  Requests'
<1> USE DEF Requests, request, retry
<1>1. Timed'
  BY DEF Timed
<1>2. NullIdle'
  BY DEF NullIdle
<1>3. Carried'
  BY DEF Carried
<1>4. Waiting'
  BY DEF Waiting
<1> QED BY <1>1, <1>2, <1>3, <1>4

\* A request that starts carries its batch.
LEMMA StartKeepsRequests ==
  ASSUME Types, Requests, ~NullTransport, NEW s \in Signals, pending[s] # <<>>,
         StartOk(s) \/ StartFails(s), UNCHANGED <<pending, owner>>, backoff' = "off",
         ~inFlight
  PROVE  Requests'
<1> USE Constants DEF Types, Requests
<1>1. CASE StartOk(s)
  <2>1. Timed'
    BY <1>1 DEF StartOk, Timed, Alive, QueueTypes
  <2>2. /\ inFlightSignal' = s /\ inFlightCount' = Len(pending[s]) /\ wire' = pending[s]
        /\ pending' = pending
    BY <1>1 DEF StartOk
  <2>3. Len(pending[s]) \in Nat
    BY DEF QueueTypes
  <2>4. Carried'
    BY <2>2, <2>3 DEF Carried
  <2>5. NullIdle' /\ Waiting'
    BY DEF NullIdle, Waiting
  <2> QED BY <2>1, <2>4, <2>5
<1>2. CASE StartFails(s)
  <2>1. UNCHANGED <<request, first>>
    BY <1>2 DEF StartFails
  <2>2. Timed'
    BY <2>1 DEF Timed, Alive
  <2>3. ~inFlight'
    BY <2>1 DEF request
  <2>4. NullIdle' /\ Carried' /\ Waiting'
    BY <2>3 DEF NullIdle, Carried, Waiting
  <2> QED BY <2>2, <2>4
<1> QED BY <1>1, <1>2

\* An outcome leaves the batch for its retry, or clears it.
LEMMA OutcomeKeepsRequests ==
  ASSUME Types, Requests, NEW s \in Signals, NEW count, NEW batch, NEW status,
         record_outcome(s, count, batch, status), UNCHANGED owner,
         pending[s] # <<>>, inFlightSignal' = s, ~inFlight'
  PROVE  Requests'
<1> USE Constants DEF Types, Requests
<1>1. NullIdle' /\ Carried'
  BY DEF NullIdle, Carried
<1>2. CASE clear_in_flight_batch(s)
  <2>1. Timed'
    BY <1>2 DEF clear_in_flight_batch, Timed, Alive, QueueTypes
  <2>2. Waiting'
    BY <1>2 DEF clear_in_flight_batch, Waiting
  <2> QED BY <1>1, <2>1, <2>2
<1>3. CASE UNCHANGED <<pending, first>>
  <2>1. Timed'
    BY <1>3 DEF Timed, Alive
  <2>2. Waiting'
    BY <1>3 DEF Waiting
  <2> QED BY <1>1, <2>1, <2>2
<1> QED BY <1>2, <1>3, Zenon DEF record_outcome

\* Every step keeps the request's batch in place until its outcome.
LEMMA NextRequests ==
  ASSUME Types, Calls, Requests, [Next]_vars
  PROVE  Requests'
<1> USE Constants DEF Types, Requests
<1>0. Alive' => Alive
  BY NextCalls DEF Alive, vars, ownvars
<1>1. CASE Quiet
  BY <1>0, <1>1, QuietFrame, RequestsFrame DEF sigvars
<1>2. CASE TickDrain
  <2>1. ts \in Signals /\ queue[ts] # <<>> /\ queue[ts] \in Seq(Cell) /\ pending[ts] \in Seq(Items)
    BY <1>2 DEF TickDrain, CanPop, OwnerTypes, QueueTypes, Signals
  <2> DEFINE x == Head(queue[ts]).item
  <2>2. /\ pending' = [pending EXCEPT ![ts] = Append(pending[ts], x)]
        /\ UNCHANGED <<inFlight, inFlightSignal, inFlightCount, wire, backoff, owner>>
        /\ first' = [first EXCEPT ![ts] = IF @ = "unset" THEN "set" ELSE @]
    BY <1>2, Zenon DEF TickDrain, request, retry
  <2>3. Head(queue[ts]) \in Cell
    BY <2>1
  <2>4. x \in Items
    BY <2>3 DEF Cell
  <2> HIDE DEF x
  <2>5. \A s \in Signals : /\ s # ts => pending'[s] = pending[s]
                           /\ s = ts => pending'[s] = Append(pending[s], x)
    BY <2>1, <2>2 DEF QueueTypes
  <2>6. \A s \in Signals : /\ pending[s] # <<>> => pending'[s] # <<>>
                           /\ s = ts => pending'[s] # <<>>
                           /\ Len(pending'[s]) >= Len(pending[s]) /\ Len(pending[s]) \in Nat
                           /\ Len(pending'[s]) \in Nat
                           /\ \A i \in 1..Len(pending[s]) : pending'[s][i] = pending[s][i]
    <3> SUFFICES ASSUME NEW s \in Signals
                 PROVE  /\ pending[s] # <<>> => pending'[s] # <<>>
                        /\ s = ts => pending'[s] # <<>>
                        /\ Len(pending'[s]) >= Len(pending[s]) /\ Len(pending[s]) \in Nat
                        /\ Len(pending'[s]) \in Nat
                        /\ \A i \in 1..Len(pending[s]) : pending'[s][i] = pending[s][i]
      OBVIOUS
    <3>1. pending[s] \in Seq(Items)
      BY DEF QueueTypes
    <3>2. CASE s # ts
      BY <2>5, <3>1, <3>2
    <3>3. CASE s = ts
      <4>1. pending'[s] = Append(pending[s], x)
        BY <2>5, <3>3
      <4> QED BY <2>4, <3>1, <4>1
    <3> QED BY <3>2, <3>3
  <2>7. Timed'
    BY <2>1, <2>2, <2>6 DEF Timed, Alive, QueueTypes
  <2>8. inFlightSignal \in Signals /\ inFlightCount \in Nat
    BY DEF RequestTypes
  <2>9. Carried'
    <3> SUFFICES ASSUME inFlight'
                 PROVE  /\ Len(pending'[inFlightSignal]) >= inFlightCount
                        /\ wire # <<>> /\ Len(wire) = inFlightCount /\ backoff = "off"
                        /\ \A i \in 1..inFlightCount : pending'[inFlightSignal][i] = wire[i]
      BY <2>2 DEF Carried
    <3>1. /\ wire # <<>> /\ Len(wire) = inFlightCount /\ backoff = "off"
          /\ Len(pending[inFlightSignal]) >= inFlightCount
          /\ \A i \in 1..inFlightCount : pending[inFlightSignal][i] = wire[i]
      BY <2>2 DEF Carried
    <3>2. /\ Len(pending'[inFlightSignal]) >= Len(pending[inFlightSignal])
          /\ Len(pending[inFlightSignal]) \in Nat /\ Len(pending'[inFlightSignal]) \in Nat
          /\ \A i \in 1..Len(pending[inFlightSignal]) :
               pending'[inFlightSignal][i] = pending[inFlightSignal][i]
      BY <2>6, <2>8
    <3>3. PICK m \in Nat, l \in Nat : m = Len(pending[inFlightSignal]) /\ l = Len(pending'[inFlightSignal])
      BY <3>2
    <3>4. m >= inFlightCount /\ l >= m /\ l >= inFlightCount
      BY <2>8, <3>1, <3>2, <3>3
    <3>5. ASSUME NEW i \in 1..inFlightCount PROVE pending'[inFlightSignal][i] = wire[i]
      <4>1. i \in 1..m
        BY <2>8, <3>4
      <4> QED BY <3>1, <3>2, <3>3, <4>1
    <3> QED BY <3>1, <3>3, <3>4, <3>5
  <2>10. Waiting' /\ NullIdle'
    BY <2>2, <2>6, <2>8 DEF Waiting, NullIdle, Alive
  <2> QED BY <2>7, <2>9, <2>10
<1>3. CASE TickNull
  <2>1. PICK s \in Signals, status \in Responses :
          /\ pending[s] # <<>> /\ inFlightSignal' = s
          /\ record_outcome(s, Len(pending[s]), SetOf(pending[s]), status)
    BY <1>3 DEF TickNull
  <2>2. ~inFlight' /\ UNCHANGED owner
    BY <1>3 DEF TickNull, NullIdle
  <2> QED BY <2>1, <2>2, OutcomeKeepsRequests
<1>4. CASE TickStart
  <2>1. PICK s \in ts..NumSignals : BatchReady(s) /\ (StartOk(s) \/ StartFails(s))
    BY <1>4 DEF TickStart
  <2>2. /\ UNCHANGED <<pending, retry, owner>> /\ ~inFlight /\ backoff = "off" /\ tpc = "send"
        /\ ~(NullTransport /\ backoff = "off" /\ \E r \in Signals : pending[r] # <<>>)
    BY <1>4 DEF TickStart, StartUnchanged, Sending, MayStart
  <2>3. s \in Signals
    BY DEF OwnerTypes, Signals
  <2>4. Alive
    BY <2>2 DEF Calls, Alive
  <2>5. pending[s] # <<>>
    <3>1. pending[s] = <<>> => Len(pending[s]) = 0
      OBVIOUS
    <3>2. ~(Len(pending[s]) >= BatchSize) \/ pending[s] # <<>>
      BY <3>1
    <3> QED BY <2>1, <2>3, <2>4, <3>2 DEF BatchReady, Timed
  <2>6. ~NullTransport /\ backoff' = "off"
    BY <2>2, <2>3, <2>5 DEF retry
  <2> QED BY <2>1, <2>2, <2>3, <2>5, <2>6, StartKeepsRequests
<1>5. CASE TickFinish
  <2>1. PICK status : record_outcome(inFlightSignal, inFlightCount, SetOf(wire), status)
    BY <1>5 DEF TickFinish
  <2>2. inFlight /\ ~inFlight' /\ UNCHANGED <<owner, inFlightSignal>>
    BY <1>5 DEF TickFinish
  <2>3. inFlightSignal \in Signals /\ inFlightCount \in Nat
    BY DEF RequestTypes
  <2>4. pending[inFlightSignal] # <<>>
    <3>1. wire # <<>> /\ Len(wire) = inFlightCount /\ Len(pending[inFlightSignal]) >= inFlightCount
      BY <2>2 DEF Carried
    <3>2. Len(wire) # 0
      BY <3>1 DEF RequestTypes
    <3>3. pending[inFlightSignal] = <<>> => Len(pending[inFlightSignal]) = 0
      OBVIOUS
    <3> QED BY <2>3, <3>1, <3>2, <3>3
  <2> QED BY <2>1, <2>2, <2>3, <2>4, OutcomeKeepsRequests
<1>6. CASE TickRetry
  <2>1. /\ UNCHANGED <<pending, owner>> /\ backoff' = "off" /\ ~inFlight /\ tpc = "retry"
        /\ backoff = "due"
    BY <1>6 DEF TickRetry, StartUnchanged
  <2>2. inFlightSignal \in Signals
    BY DEF RequestTypes
  <2>3. CASE NullTransport \/ pending[inFlightSignal] = <<>>
    <3>1. UNCHANGED <<request, first>>
      BY <1>6, <2>3 DEF TickRetry
    <3>2. Timed'
      BY <2>1, <3>1 DEF Timed, Alive
    <3>3. ~inFlight'
      BY <2>1, <3>1 DEF request
    <3> QED BY <2>1, <3>2, <3>3 DEF NullIdle, Carried, Waiting
  <2>4. CASE ~(NullTransport \/ pending[inFlightSignal] = <<>>)
    <3>1. StartOk(inFlightSignal) \/ StartFails(inFlightSignal)
      BY <1>6, <2>4 DEF TickRetry
    <3> QED BY <2>1, <2>2, <2>4, <3>1, StartKeepsRequests
  <2> QED BY <2>3, <2>4
<1>7. CASE Free
  <2>1. ~Alive'
    BY <1>7 DEF Free, Alive
  <2>2. ~inFlight'
    BY <1>7, Zenon DEF Free
  <2> QED BY <2>1, <2>2 DEF Timed, NullIdle, Carried, Waiting
<1>8. CASE BackoffElapses
  <2>1. /\ backoff = "armed" /\ Alive
        /\ UNCHANGED <<pending, first, inFlight, inFlightSignal, owner>>
    BY <1>8 DEF BackoffElapses, sigvars, request, ownvars
  <2>2. ~inFlight /\ pending[inFlightSignal] # <<>>
    BY <2>1 DEF Waiting
  <2> QED BY <2>1, <2>2 DEF Timed, NullIdle, Carried, Waiting, Alive
<1>9. CASE \E s \in Signals : Age(s)
  <2>1. PICK s \in Signals : Age(s)
    BY <1>9
  <2>2. /\ first[s] = "set" /\ first' = [first EXCEPT ![s] = "aged"]
        /\ UNCHANGED <<pending, request, retry, owner>>
    BY <2>1 DEF Age, ownvars
  <2>3. Timed'
    BY <2>2 DEF Timed, Alive, QueueTypes
  <2>4. NullIdle' /\ Carried' /\ Waiting'
    BY <2>2 DEF request, retry, NullIdle, Carried, Waiting, Alive
  <2> QED BY <2>3, <2>4
<1>10. CASE \E p \in Emitters : Emit(p)
  BY <1>0, <1>10, EmitFrame, RequestsFrame DEF EmitUnchanged
<1>11. CASE UNCHANGED vars
  BY <1>0, <1>11, RequestsFrame DEF vars, sigvars
<1> QED BY <1>1, <1>2, <1>3, <1>4, <1>5, <1>6, <1>7, <1>8, <1>9, <1>10, <1>11, NextCases

(***************************************************************************)
(* What is accepted, and what has been settled                             *)
(***************************************************************************)
\* An item is accepted for one signal, when it is put into its queue; what is
\* stored has been accepted.
Acceptance ==
  /\ accepted \in [Signals -> SUBSET Given]
  /\ \A s \in Signals : Stored(s) \subseteq accepted[s]
  /\ \A r, s \in Signals : r # s => accepted[r] \cap accepted[s] = {}
  /\ \A p \in Emitters : Holds(p) => \A s \in Signals : eitem[p] \notin accepted[s]

\* Moving items keeps each signal's items those that its queue accepted.
LEMMA MovesKeepAcceptance ==
  ASSUME Types, Places, Acceptance,
         \/ Still \/ FreesAll
         \/ \E p \in Emitters : Takes(p) \/ Drops(p)
         \/ \E p \in Emitters, s \in Signals : Puts(p, s)
         \/ \E s \in Signals : Drains(s) \/ Clears(s)
  PROVE  Acceptance'
<1>0. nItems' = nItems => Given' = Given
  BY DEF Given
<1>s. \A s \in Signals : Stored(s) = Batch(s) \cup Queued(s) /\ Stored(s)' = Batch(s)' \cup Queued(s)'
  BY DEF Stored, Batch, Queued
<1>1. ASSUME UNCHANGED accepted, Given \subseteq Given',
             \A s \in Signals : Stored(s)' \subseteq Stored(s),
             \A p \in Emitters : Holds(p)' => \A s \in Signals : eitem'[p] \notin accepted[s]
      PROVE  Acceptance'
  BY <1>1 DEF Acceptance
<1>2. HandsBut({}) => \A p \in Emitters : Holds(p)' => \A s \in Signals : eitem'[p] \notin accepted[s]
  BY DEF HandsBut, Acceptance
<1>3. CASE Still
  <2>1. \A s \in Signals : Stored(s)' \subseteq Stored(s)
    BY <1>3, <1>s DEF Still, StoresBut
  <2> QED BY <1>0, <1>1, <1>2, <1>3, <2>1 DEF Still
<1>4. CASE FreesAll
  <2>1. \A s \in Signals : Stored(s)' \subseteq Stored(s)
    BY <1>4, <1>s DEF FreesAll
  <2> QED BY <1>0, <1>1, <1>4, <2>1 DEF FreesAll
<1>5. CASE \E p \in Emitters : Takes(p)
  <2>1. PICK p \in Emitters : Takes(p)
    BY <1>5
  <2>2. \A s \in Signals : Stored(s)' \subseteq Stored(s)
    BY <1>s, <2>1 DEF Takes, StoresBut
  <2>3. /\ Given' = Given \cup {nItems + 1} /\ nItems + 1 \notin Given /\ eitem'[p] = nItems + 1
        /\ UNCHANGED accepted
    BY <2>1, NewItem DEF Takes, Types
  <2>4. \A o \in Emitters : Holds(o)' => \A s \in Signals : eitem'[o] \notin accepted[s]
    BY <2>1, <2>3 DEF Takes, HandsBut, Acceptance
  <2> QED BY <1>1, <2>2, <2>3, <2>4
<1>6. CASE \E p \in Emitters : Drops(p)
  <2>1. PICK p \in Emitters : Drops(p)
    BY <1>6
  <2>2. \A s \in Signals : Stored(s)' \subseteq Stored(s)
    BY <1>s, <2>1 DEF Drops, StoresBut
  <2>3. \A o \in Emitters : Holds(o)' => \A s \in Signals : eitem'[o] \notin accepted[s]
    BY <2>1 DEF Drops, HandsBut, Acceptance
  <2> QED BY <1>0, <1>1, <2>1, <2>2, <2>3 DEF Drops
<1>7. CASE \E p \in Emitters, s \in Signals : Puts(p, s)
  <2>1. PICK p \in Emitters, s \in Signals : Puts(p, s)
    BY <1>7
  <2>2. /\ Holds(p) /\ ~Holds(p)' /\ Given' = Given
        /\ accepted' = [accepted EXCEPT ![s] = @ \cup {eitem[p]}]
    BY <1>0, <2>1 DEF Puts
  <2>3. eitem[p] \in Given /\ \A r \in Signals : eitem[p] \notin accepted[r]
    BY <2>2 DEF Places, InHand, Acceptance
  <2>4. accepted' \in [Signals -> SUBSET Given']
    BY <2>2, <2>3 DEF Acceptance
  <2>5. \A r \in Signals : accepted'[r] = IF r = s THEN accepted[s] \cup {eitem[p]} ELSE accepted[r]
    BY <2>2 DEF Acceptance
  <2>6. \A r \in Signals : Stored(r)' \subseteq accepted'[r]
    <3>1. Stored(s)' = Stored(s) \cup {eitem[p]}
      BY <1>s, <2>1 DEF Puts
    <3>2. \A r \in Signals : r # s => Stored(r)' = Stored(r)
      BY <1>s, <2>1 DEF Puts, StoresBut
    <3> QED BY <2>5, <3>1, <3>2 DEF Acceptance
  <2>7. \A r, q \in Signals : r # q => accepted'[r] \cap accepted'[q] = {}
    BY <2>3, <2>5 DEF Acceptance
  <2>8. \A o \in Emitters : Holds(o)' => \A r \in Signals : eitem'[o] \notin accepted'[r]
    <3> SUFFICES ASSUME NEW o \in Emitters, Holds(o)', NEW r \in Signals
                 PROVE  eitem'[o] \notin accepted'[r]
      OBVIOUS
    <3>1. o # p /\ Holds(o) /\ eitem'[o] = eitem[o]
      BY <2>1, <2>2 DEF Puts, HandsBut
    <3>2. eitem[o] # eitem[p] /\ eitem[o] \notin accepted[r]
      BY <2>2, <3>1 DEF Places, InHand, Acceptance
    <3> QED BY <2>5, <3>1, <3>2
  <2> QED BY <2>4, <2>6, <2>7, <2>8 DEF Acceptance
<1>8. CASE \E s \in Signals : Drains(s)
  <2>1. PICK s \in Signals : Drains(s)
    BY <1>8
  <2>2. \A r \in Signals : Stored(r)' \subseteq Stored(r)
    <3>1. Stored(s)' \subseteq Stored(s)
      BY <1>s, <2>1 DEF Drains
    <3>2. \A r \in Signals : r # s => Stored(r)' = Stored(r)
      BY <1>s, <2>1 DEF Drains, StoresBut
    <3> QED BY <3>1, <3>2
  <2> QED BY <1>0, <1>1, <1>2, <2>1, <2>2 DEF Drains
<1>9. CASE \E s \in Signals : Clears(s)
  <2>1. PICK s \in Signals : Clears(s)
    BY <1>9
  <2>2. \A r \in Signals : Stored(r)' \subseteq Stored(r)
    <3>1. Stored(s)' \subseteq Stored(s)
      BY <1>s, <2>1 DEF Clears
    <3>2. \A r \in Signals : r # s => Stored(r)' = Stored(r)
      BY <1>s, <2>1 DEF Clears, StoresBut
    <3> QED BY <3>1, <3>2
  <2> QED BY <1>0, <1>1, <1>2, <2>1, <2>2 DEF Clears
<1> QED BY <1>3, <1>4, <1>5, <1>6, <1>7, <1>8, <1>9

\* The items of a batch are as many as its length says.
LEMMA BatchCardinality ==
  ASSUME NEW T, NEW q \in Seq(T), Distinct(q)
  PROVE  IsFiniteSet(SetOf(q)) /\ Cardinality(SetOf(q)) = Len(q)
<1>1. Len(q) \in Nat /\ DOMAIN q = 1..Len(q)
  OBVIOUS
<1> DEFINE f == [i \in 1..Len(q) |-> q[i]]
<1>2. f \in Bijection(1..Len(q), SetOf(q))
  <2>1. f \in [1..Len(q) -> SetOf(q)]
    BY <1>1 DEF SetOf
  <2>2. \A i, j \in 1..Len(q) : f[i] = f[j] => i = j
    BY <1>1 DEF Distinct
  <2>3. \A x \in SetOf(q) : \E i \in 1..Len(q) : f[i] = x
    BY <1>1 DEF SetOf
  <2> HIDE DEF f
  <2> QED BY <2>1, <2>2, <2>3 DEF Bijection, Injection, Surjection, IsInjective
<1>3. ExistsBijection(1..Len(q), SetOf(q))
  BY <1>2 DEF ExistsBijection
<1> QED BY <1>1, <1>3, FS_NatBijection, FS_CountingElements

\* The collector acknowledges the n items B of signal s, or they are given up.
Acks(s, n, B) == /\ acked' = acked \cup B /\ sent' = Add(sent, s, n)
                 /\ UNCHANGED <<dropped, droppedErr>>
GivesUp(s, n, B) == /\ dropped' = dropped \cup B /\ droppedErr' = Add(droppedErr, s, n)
                    /\ UNCHANGED <<acked, sent>>

\* An outcome that settles items frees the batch that they are in.
LEMMA OutcomeSettles ==
  ASSUME Types, NEW s \in Signals, NEW count, NEW batch, NEW status,
         record_outcome(s, count, batch, status)
  PROVE  \/ UNCHANGED <<acked, dropped, sent, droppedErr>>
         \/ (Acks(s, count, batch) \/ GivesUp(s, count, batch)) /\ freed' = freed \cup Batch(s)
BY Zenon DEF record_outcome, clear_in_flight_batch, Acks, GivesUp, Batch

\* Every step settles nothing, or items of one batch, which it frees.
LEMMA Outcomes ==
  ASSUME Types, DistinctPlaces, Requests, [Next]_vars
  PROVE  \/ UNCHANGED <<acked, dropped, sent, droppedErr>>
         \/ \E s \in Signals : \E B :
              /\ B \subseteq Batch(s) /\ IsFiniteSet(B)
              /\ Acks(s, Cardinality(B), B) \/ GivesUp(s, Cardinality(B), B)
              /\ freed' = freed \cup Batch(s) /\ UNCHANGED accepted
<1> USE DEF Types
<1>1. CASE Quiet
  BY <1>1, QuietFrame DEF history, stats
<1>2. CASE TickDrain
  BY <1>2 DEF TickDrain, history, stats
<1>3. CASE TickNull
  <2>1. PICK s \in Signals, status \in Responses :
          record_outcome(s, Len(pending[s]), SetOf(pending[s]), status)
    BY <1>3 DEF TickNull
  <2>2. UNCHANGED accepted
    BY <1>3 DEF TickNull, Emitting
  <2>3. pending[s] \in Seq(Items) /\ Distinct(pending[s])
    BY DEF QueueTypes, DistinctPlaces
  <2>4. IsFiniteSet(Batch(s)) /\ Cardinality(Batch(s)) = Len(pending[s])
    BY <2>3, BatchCardinality DEF Batch
  <2>5. record_outcome(s, Cardinality(Batch(s)), Batch(s), status)
    BY <2>1, <2>4 DEF Batch
  <2> QED BY <2>2, <2>4, <2>5, OutcomeSettles
<1>4. CASE TickStart
  BY <1>4 DEF TickStart, StartUnchanged
<1>5. CASE TickFinish
  <2>1. PICK status : record_outcome(inFlightSignal, inFlightCount, SetOf(wire), status)
    BY <1>5 DEF TickFinish
  <2>2. UNCHANGED accepted /\ inFlight /\ inFlightSignal \in Signals /\ inFlightCount \in Nat
    BY <1>5 DEF TickFinish, Emitting, RequestTypes
  <2> DEFINE q == pending[inFlightSignal]
  <2>3. /\ wire \in Seq(Items) /\ Len(wire) = inFlightCount /\ Len(q) >= inFlightCount
        /\ \A i \in 1..inFlightCount : q[i] = wire[i]
    BY <2>2 DEF Requests, Carried, RequestTypes
  <2>4. q \in Seq(Items) /\ Distinct(q)
    BY <2>2 DEF QueueTypes, DistinctPlaces
  <2> HIDE DEF q
  <2>5. DOMAIN wire \subseteq DOMAIN q /\ DOMAIN wire = 1..inFlightCount
    BY <2>2, <2>3, <2>4
  <2>6. Distinct(wire) /\ SetOf(wire) \subseteq SetOf(q)
    BY <2>3, <2>4, <2>5 DEF Distinct, SetOf
  <2>7. IsFiniteSet(SetOf(wire)) /\ Cardinality(SetOf(wire)) = inFlightCount
    BY <2>3, <2>6, BatchCardinality
  <2>8. SetOf(wire) \subseteq Batch(inFlightSignal)
    BY <2>6 DEF q, Batch
  <2>9. record_outcome(inFlightSignal, Cardinality(SetOf(wire)), SetOf(wire), status)
    BY <2>1, <2>7
  <2> QED BY <2>2, <2>7, <2>8, <2>9, OutcomeSettles
<1>6. CASE TickRetry
  BY <1>6 DEF TickRetry, StartUnchanged
<1>7. CASE Free
  BY <1>7 DEF Free, history, stats
<1>8. CASE BackoffElapses \/ \E s \in Signals : Age(s)
  BY <1>8 DEF BackoffElapses, Age, history, stats
<1>9. CASE \E p \in Emitters : Emit(p)
  BY <1>9, EmitFrame DEF EmitUnchanged
<1>10. CASE UNCHANGED vars
  BY <1>10 DEF vars, history, stats
<1> QED BY <1>1, <1>2, <1>3, <1>4, <1>5, <1>6, <1>7, <1>8, <1>9, <1>10, NextCases

\* What is freed stays freed, and what is stored stays so until it is freed.
LEMMA MovesGrow ==
  ASSUME \/ Still \/ FreesAll
         \/ \E p \in Emitters : Takes(p) \/ Drops(p)
         \/ \E p \in Emitters, s \in Signals : Puts(p, s)
         \/ \E s \in Signals : Drains(s) \/ Clears(s)
  PROVE  freed \subseteq freed' /\ Visible \subseteq freed' \cup Visible'
<1>s. \A s \in Signals : Stored(s) = Batch(s) \cup Queued(s) /\ Stored(s)' = Batch(s)' \cup Queued(s)'
  BY DEF Stored, Batch, Queued
<1>1. freed \subseteq freed'
  BY DEF Still, FreesAll, Takes, Drops, Puts, Drains, Clears
<1>2. ASSUME NEW s \in Signals PROVE FreesAll \/ Stored(s) \subseteq freed' \cup Stored(s)'
  <2>1. CASE Still \/ \E p \in Emitters : Takes(p) \/ Drops(p)
    BY <1>s, <2>1 DEF Still, Takes, Drops, StoresBut
  <2>2. CASE \E p \in Emitters, r \in Signals : Puts(p, r)
    <3>1. PICK p \in Emitters, r \in Signals : Puts(p, r)
      BY <2>2
    <3>2. CASE r = s
      BY <1>s, <3>1, <3>2 DEF Puts
    <3>3. CASE r # s
      BY <1>s, <3>1, <3>3 DEF Puts, StoresBut
    <3> QED BY <3>2, <3>3
  <2>3. CASE \E r \in Signals : Drains(r) \/ Clears(r)
    <3>1. PICK r \in Signals : Drains(r) \/ Clears(r)
      BY <2>3
    <3>2. CASE r = s
      BY <1>s, <3>1, <3>2 DEF Drains, Clears
    <3>3. CASE r # s
      BY <1>s, <3>1, <3>3 DEF Drains, Clears, StoresBut
    <3> QED BY <3>2, <3>3
  <2> QED BY <2>1, <2>2, <2>3
<1>3. CASE FreesAll
  BY <1>1, <1>3 DEF FreesAll
<1>4. CASE ~FreesAll
  BY <1>1, <1>2, <1>4 DEF Visible
<1> QED BY <1>3, <1>4

\* A settled item is freed, is settled in one way, and is counted once, for the
\* signal that accepted it.
Settled == acked \cup dropped \subseteq freed /\ acked \cap dropped = {}
Tally(counter, S) == \A s \in Signals : counter[s] = Cardinality(S \cap accepted[s])
Tallied == Tally(sent, acked) /\ Tally(droppedErr, dropped)

\* Counting the items B of one signal: the counter stays exact.
NotYetIn(S, s, B) == B \subseteq accepted[s] /\ IsFiniteSet(B) /\ B \cap S = {}

\* Counting a batch that was not counted before keeps a counter a tally.
LEMMA TallyStep ==
  ASSUME Types, Acceptance, NEW s \in Signals, NEW B, NEW settled, NotYetIn(settled, s, B),
         NEW counter \in Counters, Tally(counter, settled)
  PROVE  Tally(Add(counter, s, Cardinality(B)), settled \cup B)
<1>0. B \subseteq accepted[s] /\ IsFiniteSet(B) /\ B \cap settled = {}
  BY DEF NotYetIn
<1>1. ASSUME NEW r \in Signals PROVE IsFiniteSet(accepted[r])
  <2>1. IsFiniteSet(Given)
    BY FS_Interval DEF Types, EmitTypes, Given
  <2>2. accepted[r] \in SUBSET Given
    BY DEF Acceptance
  <2> QED BY <2>1, <2>2, FS_Subset
<1>2. ASSUME NEW r \in Signals, r # s
      PROVE  Add(counter, s, Cardinality(B))[r] = Cardinality((settled \cup B) \cap accepted[r])
  <2>1. (settled \cup B) \cap accepted[r] = settled \cap accepted[r]
    BY <1>0, <1>2 DEF Acceptance
  <2>2. Add(counter, s, Cardinality(B))[r] = counter[r]
    BY <1>2 DEF Add, Counters
  <2> QED BY <2>1, <2>2 DEF Tally
<1>3. Add(counter, s, Cardinality(B))[s] = Cardinality((settled \cup B) \cap accepted[s])
  <2> DEFINE A == settled \cap accepted[s]
  <2>1. IsFiniteSet(A)
    BY <1>1, FS_Intersection
  <2>2. (settled \cup B) \cap accepted[s] = A \cup B /\ A \cap B = {}
    BY <1>0
  <2>3. Cardinality(A) \in Nat /\ Cardinality(B) \in Nat
    BY <1>0, <2>1, FS_CardinalityType
  <2>4. counter[s] = Cardinality(A)
    BY DEF Tally
  <2> HIDE DEF A
  <2>5. Cardinality(A \cup B) = Cardinality(A) + Cardinality(B)
    <3>1. Cardinality(A \cup B) = Cardinality(A) + Cardinality(B) - Cardinality(A \cap B)
      BY <1>0, <2>1, FS_Union
    <3>2. Cardinality(A \cap B) = 0
      BY <2>2, FS_EmptySet
    <3> QED BY <2>3, <3>1, <3>2
  <2>6. Add(counter, s, Cardinality(B))[s] = counter[s] + Cardinality(B)
    BY DEF Add, Counters
  <2> QED BY <2>2, <2>4, <2>5, <2>6
<1> QED BY <1>2, <1>3 DEF Tally

\* Every step keeps what is settled settled, and counted.
LEMMA NextSettled ==
  ASSUME Types, DistinctPlaces, Places, Acceptance, Requests, Settled, Tallied, [Next]_vars
  PROVE  Settled' /\ Tallied'
<1>m. \/ Still \/ FreesAll
      \/ \E p \in Emitters : Takes(p) \/ Drops(p)
      \/ \E p \in Emitters, s \in Signals : Puts(p, s)
      \/ \E s \in Signals : Drains(s) \/ Clears(s)
  BY Moves
<1>g. freed \subseteq freed'
  BY <1>m, MovesGrow
<1>1. CASE UNCHANGED <<acked, dropped, sent, droppedErr>>
  <2>1. Settled'
    BY <1>g, <1>1 DEF Settled
  <2>2. \A s \in Signals : /\ acked \cap accepted'[s] = acked \cap accepted[s]
                           /\ dropped \cap accepted'[s] = dropped \cap accepted[s]
    <3>1. CASE UNCHANGED accepted
      BY <3>1
    <3>2. CASE \E p \in Emitters, s \in Signals : Puts(p, s)
      <4>1. PICK p \in Emitters, s \in Signals : Puts(p, s)
        BY <3>2
      <4>2. Holds(p) /\ accepted' = [accepted EXCEPT ![s] = @ \cup {eitem[p]}]
        BY <4>1 DEF Puts
      <4>3. eitem[p] \notin acked /\ eitem[p] \notin dropped
        BY <4>2 DEF Places, InHand, Settled
      <4>4. \A r \in Signals : accepted'[r] = IF r = s THEN accepted[s] \cup {eitem[p]} ELSE accepted[r]
        BY <4>2 DEF Acceptance
      <4> QED BY <4>3, <4>4
    <3> QED BY <1>m, <3>1, <3>2 DEF Still, FreesAll, Takes, Drops, Drains, Clears
  <2>3. Tallied'
    BY <1>1, <2>2 DEF Tallied, Tally
  <2> QED BY <2>1, <2>3
<1>2. CASE \E s \in Signals : \E B :
              /\ B \subseteq Batch(s) /\ IsFiniteSet(B)
              /\ Acks(s, Cardinality(B), B) \/ GivesUp(s, Cardinality(B), B)
              /\ freed' = freed \cup Batch(s) /\ UNCHANGED accepted
  <2>0. PICK s \in Signals :
          \E B : /\ B \subseteq Batch(s) /\ IsFiniteSet(B)
                 /\ Acks(s, Cardinality(B), B) \/ GivesUp(s, Cardinality(B), B)
                 /\ freed' = freed \cup Batch(s) /\ UNCHANGED accepted
    BY <1>2
  <2>1. PICK B :
              /\ B \subseteq Batch(s) /\ IsFiniteSet(B)
              /\ Acks(s, Cardinality(B), B) \/ GivesUp(s, Cardinality(B), B)
              /\ freed' = freed \cup Batch(s) /\ UNCHANGED accepted
    BY <2>0
  <2>2. Batch(s) \subseteq Stored(s) /\ Stored(s) \cap freed = {} /\ Stored(s) \subseteq accepted[s]
    BY DEF Places, Apart, Acceptance, Stored, Batch
  <2>3. B \cap acked = {} /\ B \cap dropped = {} /\ B \subseteq accepted[s]
    BY <2>1, <2>2 DEF Settled
  <2>4. Settled'
    BY <2>1, <2>3 DEF Settled, Acks, GivesUp
  <2>5. sent \in Counters /\ droppedErr \in Counters
    BY DEF Types, StatTypes
  <2>6. CASE Acks(s, Cardinality(B), B)
    <3>1. Tally(Add(sent, s, Cardinality(B)), acked \cup B)
      <4>1. NotYetIn(acked, s, B) /\ Tally(sent, acked)
        BY <2>1, <2>3 DEF NotYetIn, Tallied
      <4> QED BY <2>5, <4>1, TallyStep
    <3>2. /\ sent' = Add(sent, s, Cardinality(B)) /\ acked' = acked \cup B
          /\ UNCHANGED <<dropped, droppedErr, accepted>>
      BY <2>1, <2>6 DEF Acks
    <3> QED BY <2>4, <3>1, <3>2 DEF Tallied, Tally
  <2>7. CASE GivesUp(s, Cardinality(B), B)
    <3>1. Tally(Add(droppedErr, s, Cardinality(B)), dropped \cup B)
      <4>1. NotYetIn(dropped, s, B) /\ Tally(droppedErr, dropped)
        BY <2>1, <2>3 DEF NotYetIn, Tallied
      <4> QED BY <2>5, <4>1, TallyStep
    <3>2. /\ droppedErr' = Add(droppedErr, s, Cardinality(B)) /\ dropped' = dropped \cup B
          /\ UNCHANGED <<acked, sent, accepted>>
      BY <2>1, <2>7 DEF GivesUp
    <3> QED BY <2>4, <3>1, <3>2 DEF Tallied, Tally
  <2> QED BY <2>1, <2>6, <2>7
<1> QED BY <1>1, <1>2, Outcomes

\* What was stored when flush() was called is stored or freed, and freed when
\* it has returned OTLP_OK.
Flushed == beforeFlush \subseteq freed \cup Visible /\ (flushRet = "ok" => beforeFlush \subseteq freed)

\* What was stored when flush was called stays stored or is freed.
LEMMA NextFlushed ==
  ASSUME Types, DistinctPlaces, Flushed, [Next]_vars
  PROVE  Flushed'
<1>m. \/ Still \/ FreesAll
      \/ \E p \in Emitters : Takes(p) \/ Drops(p)
      \/ \E p \in Emitters, s \in Signals : Puts(p, s)
      \/ \E s \in Signals : Drains(s) \/ Clears(s)
  BY Moves
<1>g. freed \subseteq freed' /\ Visible \subseteq freed' \cup Visible'
  BY <1>m, MovesGrow
<1>1. CASE UNCHANGED flushing
  BY <1>g, <1>1 DEF Flushed, flushing
<1>2. CASE FlushForgotten
  BY <1>2 DEF Flushed, FlushForgotten
<1>3. CASE FlushBegin
  BY <1>g, <1>3 DEF FlushBegin, Flushed
<1>4. CASE FlushReturn
  <2>1. flushRet' = (IF Remaining THEN "network" ELSE "ok") /\ UNCHANGED <<beforeFlush, freed>>
    BY <1>4 DEF FlushReturn
  <2>2. CASE Remaining
    BY <1>g, <2>1, <2>2 DEF Flushed
  <2>3. CASE ~Remaining
    <3>1. \A s \in Signals : pending[s] = <<>> /\ queue[s] = <<>>
      BY <2>3 DEF Remaining
    <3>2. \A s \in Signals : Stored(s) = {}
      BY <3>1 DEF Stored, SetOf, CellItems
    <3>3. Visible = {}
      BY <3>2 DEF Visible
    <3> QED BY <2>1, <3>3 DEF Flushed
  <2> QED BY <2>2, <2>3
<1>5. Quiet => UNCHANGED flushing \/ FlushForgotten \/ FlushBegin \/ FlushReturn
  BY Zenon DEF Quiet, TickBegin, TickDrained, TickNoStart, TickStep, TickNoRetry, TickEnd, FlushLoop, Shutdown
<1>6. TickDrain \/ TickNull \/ TickStart \/ TickFinish \/ TickRetry => UNCHANGED flushing
  BY Zenon DEF TickDrain, TickNull, TickStart, TickFinish, TickRetry, StartUnchanged
<1>7. Free => FlushForgotten
  BY DEF Free
<1>8. BackoffElapses \/ (\E s \in Signals : Age(s)) \/ UNCHANGED vars => UNCHANGED flushing
  BY DEF BackoffElapses, Age, vars
<1>9. (\E p \in Emitters : Emit(p)) => UNCHANGED flushing
  BY EmitFrame DEF EmitUnchanged
<1> QED BY <1>1, <1>2, <1>3, <1>4, <1>5, <1>6, <1>7, <1>8, <1>9, NextCases

(***************************************************************************)
(* Sockets                                                                 *)
(***************************************************************************)
\* A request has a socket, and nothing is kept alive beside it; the open
\* sockets are the owned ones and those forgotten by a failed start, of which
\* each lost at most one.
SocketInv ==
  /\ {sockets, lost} \subseteq Nat
  /\ sockets = OwnedSockets + lost /\ lost <= startFails
  /\ inFlight => keepalive = NoSock /\ reqSock # NoSock

\* try_start_post hands the kept-alive socket over, closes it, or loses it.
LEMMA StartKeepsSockets ==
  ASSUME Types, SocketInv, NEW s \in Signals, ~inFlight, StartOk(s) \/ StartFails(s)
  PROVE  SocketInv'
<1> USE Constants DEF SocketInv, OwnedSockets, Types, RequestTypes
<1>1. CASE StartOk(s)
  <2>1. inFlight' /\ keepalive' = NoSock
    BY <1>1 DEF StartOk
  <2>2. reqSock' # NoSock
    BY <1>1 DEF StartOk
  <2>3. /\ sockets' = IF keepalive = NoSock THEN sockets + 1 ELSE sockets
        /\ UNCHANGED <<lost, startFails>>
    BY <1>1 DEF StartOk
  <2> QED BY <2>1, <2>2, <2>3
<1>2. CASE StartFails(s)
  <2>1. /\ \/ sockets' = sockets /\ lost' = IF keepalive = NoSock THEN lost ELSE lost + 1
           \/ sockets' = (IF keepalive = NoSock THEN sockets ELSE sockets - 1) /\ lost' = lost
        /\ keepalive' = NoSock /\ startFails' = startFails + 1
    BY <1>2 DEF StartFails
  <2>2. ~inFlight'
    BY <1>2 DEF StartFails, request
  <2> QED BY <2>1, <2>2
<1> QED BY <1>1, <1>2

\* Every step keeps the number of open sockets.
LEMMA NextSockets ==
  ASSUME Types, SocketInv, [Next]_vars
  PROVE  SocketInv'
<1> USE Constants DEF Types
<1>0. UNCHANGED <<inFlight, keepalive, reqSock, sockets, lost, startFails>> => SocketInv'
  BY DEF SocketInv, OwnedSockets
<1>1. CASE Quiet
  BY <1>0, <1>1, QuietFrame DEF request, sockvars
<1>2. CASE TickDrain
  BY <1>0, <1>2 DEF TickDrain, request, sockvars
<1>3. CASE TickNull
  BY <1>0, <1>3 DEF TickNull, sockvars
<1>4. CASE TickStart
  <2>1. PICK s \in ts..NumSignals : StartOk(s) \/ StartFails(s)
    BY <1>4 DEF TickStart
  <2>2. s \in Signals /\ ~inFlight
    BY <1>4 DEF TickStart, MayStart, OwnerTypes, Signals
  <2> QED BY <2>1, <2>2, StartKeepsSockets
<1>5. CASE TickFinish
  <2>1. PICK keep : ReleaseSocket(keep)
    BY <1>5 DEF TickFinish
  <2>2. inFlight /\ ~inFlight'
    BY <1>5 DEF TickFinish
  <2>3. UNCHANGED <<lost, startFails>>
    BY <1>5 DEF TickFinish
  <2> QED BY <2>1, <2>2, <2>3 DEF ReleaseSocket, SocketInv, OwnedSockets
<1>6. CASE TickRetry
  <2>1. inFlightSignal \in Signals /\ ~inFlight
    BY <1>6 DEF TickRetry, RequestTypes
  <2>2. CASE UNCHANGED <<request, first, posts, sockvars, startFails>>
    BY <1>0, <2>2 DEF request, sockvars
  <2>3. CASE StartOk(inFlightSignal) \/ StartFails(inFlightSignal)
    BY <2>1, <2>3, StartKeepsSockets
  <2> QED BY <1>6, <2>2, <2>3, Zenon DEF TickRetry
<1>7. CASE Free
  <2>1. /\ keepalive' = NoSock
        /\ sockets' = sockets - (IF inFlight THEN 1 ELSE 0) - (IF keepalive # NoSock THEN 1 ELSE 0)
    BY <1>7 DEF Free
  <2>2. ~inFlight'
    BY <1>7, Zenon DEF Free
  <2>3. UNCHANGED <<lost, startFails>>
    BY <1>7 DEF Free
  <2> QED BY <2>1, <2>2, <2>3 DEF SocketInv, OwnedSockets
<1>8. CASE BackoffElapses \/ \E s \in Signals : Age(s)
  BY <1>0, <1>8 DEF BackoffElapses, Age, request, sockvars
<1>9. CASE \E p \in Emitters : Emit(p)
  BY <1>0, <1>9, EmitFrame DEF EmitUnchanged, request, sockvars
<1>10. CASE UNCHANGED vars
  BY <1>0, <1>10 DEF vars, request, sockvars
<1> QED BY <1>1, <1>2, <1>3, <1>4, <1>5, <1>6, <1>7, <1>8, <1>9, <1>10, NextCases

(***************************************************************************)
(* The inductive invariant                                                 *)
(***************************************************************************)
IInv == /\ Types /\ Calls /\ DistinctPlaces /\ Places /\ Acceptance
        /\ Requests /\ Settled /\ Tallied /\ Flushed /\ SocketInv

\* A new exporter satisfies it.
LEMMA InitInv == Init => IInv
<1> SUFFICES ASSUME Init PROVE IInv
  OBVIOUS
<1> USE Constants
<1>1. Types
  BY InitTypes
<1>2. /\ \A s \in Signals : queue[s] = <<>> /\ pending[s] = <<>> /\ accepted[s] = {}
      /\ \A p \in Emitters : epc[p] = "idle" /\ ~Holds(p)
      /\ nItems = 0 /\ freed = {} /\ acked = {} /\ dropped = {} /\ beforeFlush = {}
      /\ \A s \in Signals : sent[s] = 0 /\ droppedErr[s] = 0 /\ first[s] = "unset"
  BY DEF Init, Holds
<1>3. ~inFlight /\ backoff = "off" /\ owner = "idle" /\ tpc = "idle" /\ flushRet = "none"
      /\ keepalive = NoSock /\ sockets = 0 /\ lost = 0 /\ startFails = 0
  BY Zenon DEF Init
<1>4. Calls
  BY <1>2, <1>3 DEF Calls
<1>5. DistinctPlaces
  <2>1. Distinct(<<>>) /\ DistinctCells(<<>>)
    BY DEF Distinct, DistinctCells
  <2> QED BY <1>2, <2>1 DEF DistinctPlaces
<1>6. \A s \in Signals : Batch(s) = {} /\ Queued(s) = {} /\ Stored(s) = {}
  BY <1>2 DEF Batch, Queued, Stored, SetOf, CellItems
<1>7. Given = {}
  BY <1>2 DEF Given
<1>8. Places
  BY <1>2, <1>6, <1>7 DEF Places, Apart, InHand, Covered
<1>9. Acceptance
  <2>1. accepted \in [Signals -> SUBSET Given]
    BY DEF Init
  <2> QED BY <1>2, <1>6, <2>1 DEF Acceptance
<1>10. Requests
  BY <1>2, <1>3 DEF Requests, Timed, NullIdle, Carried, Waiting
<1>11. Settled /\ Flushed
  BY <1>2, <1>3 DEF Settled, Flushed
<1>12. Tallied
  <2>1. \A s \in Signals : acked \cap accepted[s] = {} /\ dropped \cap accepted[s] = {}
    BY <1>2
  <2> QED BY <1>2, <2>1, FS_EmptySet DEF Tallied, Tally
<1>13. SocketInv
  BY <1>3 DEF SocketInv, OwnedSockets
<1> QED BY <1>1, <1>4, <1>5, <1>8, <1>9, <1>10, <1>11, <1>12, <1>13 DEF IInv

\* Every step of every thread and of the clock preserves it.
LEMMA NextInv == IInv /\ [Next]_vars => IInv'
<1> SUFFICES ASSUME IInv, [Next]_vars PROVE IInv'
  OBVIOUS
<1> USE DEF IInv
<1>1. Types'
  BY NextTypes
<1>2. Calls'
  BY NextCalls
<1>3. DistinctPlaces'
  BY NextDistinct
<1>4. \/ Still \/ FreesAll
      \/ \E p \in Emitters : Takes(p) \/ Drops(p)
      \/ \E p \in Emitters, s \in Signals : Puts(p, s)
      \/ \E s \in Signals : Drains(s) \/ Clears(s)
  BY Moves
<1>5. Places'
  BY <1>4, MovesKeepPlaces
<1>6. Acceptance'
  BY <1>4, MovesKeepAcceptance
<1>7. Requests'
  BY NextRequests
<1>8. Settled' /\ Tallied'
  BY NextSettled
<1>9. Flushed'
  BY NextFlushed
<1>10. SocketInv'
  BY NextSockets
<1> QED BY <1>1, <1>2, <1>3, <1>5, <1>6, <1>7, <1>8, <1>9, <1>10

\* It holds of the exporter at all times.
THEOREM ExporterInvariant == Spec => []IInv
BY InitInv, NextInv, PTL DEF Spec

(***************************************************************************)
(* The properties                                                          *)
(***************************************************************************)
\* Every variable of the exporter keeps its type; queues and batches stay
\* within their capacities, the retry counter within max_retries, and the
\* number of open sockets is never negative.
THEOREM TypeOKHolds == Spec => []TypeOK
<1>1. IInv => TypeOK
  <2> SUFFICES ASSUME IInv PROVE TypeOK
    OBVIOUS
  <2>1. {shutdown, inFlight, work} \subseteq BOOLEAN
    BY Zenon DEF IInv, Types, OwnerTypes, RequestTypes
  <2>2. \A s \in Signals :
          /\ queue[s] \in Seq([item : Items, ready : BOOLEAN])
          /\ Len(queue[s]) <= QueueCapacity
          /\ pending[s] \in Seq(Items) /\ Len(pending[s]) <= PendingCap
    BY DEF IInv, Types, QueueTypes, Cell
  <2>3. {emitted, droppedFull, droppedErr, sent, rejected} \subseteq Counters
    BY DEF IInv, Types, StatTypes
  <2>4. {reqSock, keepalive} \subseteq {NoSock} \cup {Endpoint[s] : s \in Signals}
    BY DEF IInv, Types, RequestTypes, Socks
  <2>5. {sockets, lost} \subseteq Nat
    BY DEF IInv, SocketInv
  <2> QED BY <2>1, <2>2, <2>3, <2>4, <2>5
             DEF TypeOK, IInv, Types, QueueTypes, StatTypes, RequestTypes, OwnerTypes, EmitTypes
<1> QED BY <1>1, ExporterInvariant, PTL

\* Whatever the emitting threads, the owner and the collector do, each item
\* handed to the exporter is in one place, or freed, and free() leaves nothing
\* behind: no leak, no double free, no use after free.
THEOREM OwnershipHolds == Spec => []Ownership
<1>1. IInv => Ownership
  <2> SUFFICES ASSUME IInv PROVE Ownership
    OBVIOUS
  <2> DEFINE held == {eitem[p] : p \in {q \in Emitters : epc[q] \in {"check", "push"}}}
  <2> DEFINE places(s) == pending[s] \o [i \in DOMAIN queue[s] |-> queue[s][i].item]
  <2>1. \A x : x \in held <=> \E p \in Emitters : Holds(p) /\ eitem[p] = x
    BY DEF Holds
  <2>2. \A x : x \in Visible <=> \E s \in Signals : x \in Stored(s)
    BY DEF Visible
  <2> HIDE DEF held
  <2>3. held \cup Visible \cup freed = Given
    <3>1. \A x \in Given : x \in held \cup Visible \cup freed
      BY <2>1, <2>2 DEF IInv, Places, Covered
    <3>2. held \subseteq Given /\ Visible \subseteq Given /\ freed \subseteq Given
      BY <2>1, <2>2 DEF IInv, Places, Apart, InHand
    <3> QED BY <3>1, <3>2
  <2>4. held \cap Visible = {} /\ (held \cup Visible) \cap freed = {}
    BY <2>1, <2>2 DEF IInv, Places, Apart, InHand
  <2>5. ASSUME NEW s \in Signals, NEW i \in DOMAIN places(s), NEW j \in DOMAIN places(s), i # j
        PROVE  places(s)[i] # places(s)[j]
    <3> DEFINE q == pending[s]
    <3> DEFINE c == queue[s]
    <3> DEFINE r == [k \in DOMAIN c |-> c[k].item]
    <3>1. q \in Seq(Items) /\ c \in Seq(Cell) /\ Distinct(q) /\ DistinctCells(c)
      BY DEF IInv, Types, QueueTypes, DistinctPlaces
    <3>2. SetOf(q) \cap CellItems(c) = {}
      BY DEF IInv, Places, Apart, Batch, Queued
    <3> HIDE DEF q, c
    <3>3. /\ Len(q) \in Nat /\ Len(c) \in Nat /\ DOMAIN q = 1..Len(q) /\ DOMAIN c = 1..Len(c)
          /\ \A k \in 1..Len(c) : c[k] \in Cell
      BY <3>1
    <3>4. r \in [1..Len(c) -> Items] /\ \A k \in 1..Len(c) : r[k] = c[k].item
      BY <3>3 DEF Cell
    <3> HIDE DEF r
    <3>5. r \in Seq(Items) /\ Len(r) = Len(c)
      BY <3>3, <3>4
    <3>6. /\ DOMAIN (q \o r) = 1..(Len(q) + Len(c))
          /\ \A k \in 1..Len(q) : (q \o r)[k] = q[k]
          /\ \A k \in (Len(q) + 1)..(Len(q) + Len(c)) : (q \o r)[k] = r[k - Len(q)]
      <4>1. /\ q \o r \in Seq(Items) /\ Len(q \o r) = Len(q) + Len(r)
            /\ \A k \in 1..(Len(q) + Len(r)) :
                 (q \o r)[k] = IF k <= Len(q) THEN q[k] ELSE r[k - Len(q)]
        BY <3>1, <3>5, ConcatProperties
      <4>2. DOMAIN (q \o r) = 1..(Len(q) + Len(c))
        BY <3>5, <4>1
      <4>3. ASSUME NEW k \in 1..Len(q) PROVE (q \o r)[k] = q[k]
        BY <3>3, <3>5, <4>1
      <4>4. ASSUME NEW k \in (Len(q) + 1)..(Len(q) + Len(c)) PROVE (q \o r)[k] = r[k - Len(q)]
        <5>1. k \in 1..(Len(q) + Len(r)) /\ ~(k <= Len(q))
          BY <3>3, <3>5
        <5> QED BY <4>1, <5>1
      <4> QED BY <4>2, <4>3, <4>4
    <3>7. places(s) = q \o r
      BY DEF q, r, c
    <3> HIDE DEF places
    <3>8. i \in 1..(Len(q) + Len(c)) /\ j \in 1..(Len(q) + Len(c))
      BY <3>6, <3>7
    <3>9. ASSUME NEW k \in 1..(Len(q) + Len(c))
          PROVE  \/ k \in 1..Len(q) /\ places(s)[k] = q[k] /\ q[k] \in SetOf(q)
                 \/ /\ k - Len(q) \in 1..Len(c) /\ places(s)[k] = c[k - Len(q)].item
                    /\ c[k - Len(q)].item \in CellItems(c)
      <4>1. CASE k <= Len(q)
        <5>1. k \in 1..Len(q)
          BY <3>3, <4>1
        <5> QED BY <3>3, <3>6, <3>7, <5>1 DEF SetOf
      <4>2. CASE k > Len(q)
        <5>1. k \in (Len(q) + 1)..(Len(q) + Len(c)) /\ k - Len(q) \in 1..Len(c)
          BY <3>3, <4>2
        <5> QED BY <3>3, <3>4, <3>6, <3>7, <5>1 DEF CellItems
      <4> QED BY <3>3, <4>1, <4>2
    <3>10. CASE i \in 1..Len(q) /\ j \in 1..Len(q)
      BY <2>5, <3>1, <3>3, <3>6, <3>7, <3>10 DEF Distinct
    <3>11. CASE i - Len(q) \in 1..Len(c) /\ j - Len(q) \in 1..Len(c)
      <4>1. places(s)[i] = c[i - Len(q)].item /\ places(s)[j] = c[j - Len(q)].item
        BY <3>3, <3>8, <3>9, <3>11
      <4>2. i - Len(q) # j - Len(q)
        BY <2>5, <3>3, <3>8
      <4> QED BY <3>1, <3>3, <3>11, <4>1, <4>2 DEF DistinctCells
    <3> QED BY <3>2, <3>8, <3>9, <3>10, <3>11
  <2>6. owner = "freed" => freed = Given
    <3>1. owner = "freed" => \A s \in Signals : Stored(s) = {}
      BY DEF IInv, Calls, Stored, SetOf, CellItems
    <3>2. owner = "freed" => \A p \in Emitters : ~Holds(p)
      BY DEF IInv, Calls, Holds
    <3> QED BY <3>1, <3>2 DEF IInv, Places, Covered, Apart
  <2>7. 1..nItems = Given
    BY DEF Given
  <2> QED BY <2>3, <2>4, <2>5, <2>6, <2>7 DEF Ownership, held
<1> QED BY <1>1, ExporterInvariant, PTL

\* The batch of a request stays in place until record_outcome, and while a
\* backoff runs there is a batch to retry.
THEOREM BatchKeptHolds == Spec => []BatchKept
<1>1. IInv => BatchKept
  <2> SUFFICES ASSUME IInv PROVE BatchKept
    OBVIOUS
  <2>1. ASSUME inFlight
        PROVE  /\ Len(wire) = inFlightCount /\ wire # <<>>
               /\ Len(pending[inFlightSignal]) >= inFlightCount
               /\ wire = SubSeq(pending[inFlightSignal], 1, inFlightCount)
    <3> DEFINE q == pending[inFlightSignal]
    <3> DEFINE n == inFlightCount
    <3>1. /\ wire # <<>> /\ Len(wire) = n /\ Len(q) >= n
          /\ \A i \in 1..n : q[i] = wire[i]
      BY <2>1 DEF IInv, Requests, Carried
    <3>2. wire \in Seq(Items) /\ q \in Seq(Items) /\ n \in Nat
      BY DEF IInv, Types, RequestTypes, QueueTypes
    <3> HIDE DEF q, n
    <3>3. /\ SubSeq(q, 1, n) \in Seq(Items) /\ Len(SubSeq(q, 1, n)) = n
          /\ \A i \in 1..n : SubSeq(q, 1, n)[i] = q[i]
      BY <3>1, <3>2
    <3>4. wire = SubSeq(q, 1, n)
      BY <3>1, <3>2, <3>3
    <3> QED BY <3>1, <3>4 DEF q, n
  <2>2. backoff # "off" /\ Alive => ~inFlight /\ pending[inFlightSignal] # <<>>
    BY DEF IInv, Requests, Waiting
  <2> QED BY <2>1, <2>2 DEF BatchKept
<1> QED BY <1>1, ExporterInvariant, PTL

\* After record_outcome has acknowledged an item or given it up, the item is
\* in no queue and no batch, so it cannot be sent again.
THEOREM OutcomeIsFinalHolds == Spec => []OutcomeIsFinal
<1>1. IInv => OutcomeIsFinal
  <2> SUFFICES ASSUME IInv PROVE OutcomeIsFinal
    OBVIOUS
  <2>1. freed \cap Visible = {}
    BY DEF IInv, Places, Apart, Visible
  <2> QED BY <2>1 DEF IInv, Settled, OutcomeIsFinal
<1> QED BY <1>1, ExporterInvariant, PTL

\* The counters sent and dropped_err of every signal are the numbers of its
\* items that were acknowledged and given up.
THEOREM StatsExactHolds == Spec => []StatsExact
<1>1. IInv => StatsExact
  BY DEF IInv, Settled, Tallied, Tally, StatsExact
<1> QED BY <1>1, ExporterInvariant, PTL

\* When flush() returns OTLP_OK, everything that was stored at its call has
\* been settled and freed.
THEOREM FlushOkSettlesHolds == Spec => []FlushOkSettles
<1>1. IInv => FlushOkSettles
  BY DEF IInv, Flushed, FlushOkSettles
<1> QED BY <1>1, ExporterInvariant, PTL

\* The open sockets are those of the request and of the keep-alive slot, and
\* those of failed starts: whatever the outcomes of the requests, reuse, close
\* and free() lose no other socket, and no failed start loses more than one.
THEOREM SocketsAccountedHolds == Spec => []SocketsAccounted
<1>1. IInv => SocketsAccounted
  BY DEF IInv, SocketInv, SocketsAccounted
<1> QED BY <1>1, ExporterInvariant, PTL

-----------------------------------------------------------------------------
(* The counters that depend on the transport: the retry counter over HTTP,  *)
(* and the accounting of the null transport.                                *)

(***************************************************************************)
(* The retry counter                                                       *)
(***************************************************************************)
\* POSTs of the oldest item of in_flight_signal, by the retry counter.
Load == attempt + (IF inFlight THEN 1 ELSE 0)

\* The counter is in use while a request or a backoff is.
InUse == ~inFlight /\ backoff = "off" /\ Alive => attempt = 0

\* Items are POSTed from a batch, those of in_flight_signal at most as often as
\* the counter says, and its oldest item exactly so; those of the other batches
\* not at all yet.
Charged ==
  /\ \A x \in Items : (x \notin freed /\ \A s \in Signals : x \notin Batch(s)) => posts[x] = 0
  /\ \A s \in Signals : \A x \in Batch(s) : posts[x] <= (IF s = inFlightSignal THEN Load ELSE 0)
  /\ Alive /\ pending[inFlightSignal] # <<>> => posts[Head(pending[inFlightSignal])] = Load
  /\ \A x \in Items : posts[x] <= MaxRetries + 1

Attempts == startFails = 0 => InUse /\ Charged

\* The items of a batch are items, its head is one of them.
LEMMA BatchItems ==
  ASSUME Types, NEW s \in Signals
  PROVE  /\ Batch(s) \subseteq Items
         /\ pending[s] # <<>> => Head(pending[s]) \in Batch(s)
<1>1. pending[s] \in Seq(Items)
  BY DEF Types, QueueTypes
<1> DEFINE q == pending[s]
<1> HIDE DEF q
<1>2. q \in Seq(Items)
  BY <1>1 DEF q
<1>3. SetOf(q) \subseteq Items
  BY <1>2 DEF SetOf
<1>4. q # <<>> => Head(q) = q[1] /\ 1 \in DOMAIN q
  BY <1>2
<1> QED BY <1>3, <1>4 DEF Batch, SetOf, q

\* What a step has to leave alone to leave the counts alone.
LEMMA AttemptsFrame ==
  ASSUME Attempts, UNCHANGED <<pending, posts, inFlight, inFlightSignal, attempt, startFails>>,
         backoff' = backoff \/ backoff' = "due", freed \subseteq freed', Alive' => Alive
  PROVE  Attempts'
<1> SUFFICES ASSUME startFails' = 0 PROVE InUse' /\ Charged'
  BY DEF Attempts
<1>1. InUse /\ Charged
  BY DEF Attempts
<1>2. InUse'
  BY <1>1 DEF InUse
<1>3. Load' = Load /\ \A s \in Signals : Batch(s)' = Batch(s)
  BY DEF Load, Batch
<1>4. Charged'
  BY <1>1, <1>3 DEF Charged
<1> QED BY <1>2, <1>4

\* A start charges every item of its batch with one POST.
LEMMA StartCharges ==
  ASSUME Types, DistinctPlaces, Places, Charged, NEW s \in Signals, StartOk(s), ~inFlight,
         UNCHANGED <<pending, attempt, owner, freed>>,
         s = inFlightSignal \/ attempt = 0, pending[s] # <<>>, Alive
  PROVE  Charged'
<1> USE Constants
<1>1. /\ inFlight' /\ inFlightSignal' = s
      /\ posts' = [i \in Items |-> IF i \in Batch(s) THEN posts[i] + 1 ELSE posts[i]]
  BY DEF StartOk, Batch
<1>2. attempt \in 0..MaxRetries /\ posts \in [Items -> Nat] /\ inFlightSignal \in Signals
  BY DEF Types, RequestTypes
<1>3. Load = attempt /\ Load' = attempt + 1
  BY <1>1, <1>2 DEF Load
<1>4. \A r \in Signals : Batch(r)' = Batch(r) /\ Batch(r) \subseteq Items
  BY BatchItems DEF Batch
<1>5. \A x \in Items : posts'[x] = IF x \in Batch(s) THEN posts[x] + 1 ELSE posts[x]
  BY <1>1
<1>6. \A x \in Batch(s) : posts[x] <= attempt
  BY <1>2, <1>3, <1>4 DEF Charged
<1>7. \A r \in Signals : r # s => \A x \in Batch(r) : x \notin Batch(s) /\ posts[x] = 0
  <2> SUFFICES ASSUME NEW r \in Signals, r # s, NEW x \in Batch(r)
               PROVE  x \notin Batch(s) /\ posts[x] = 0
    OBVIOUS
  <2>1. x \notin Batch(s)
    BY DEF Places, Apart, Stored, Batch
  <2>2. posts[x] <= 0
    BY <1>2, <1>3 DEF Charged
  <2> QED BY <1>2, <1>4, <2>1, <2>2
<1>8. \A x \in Items : (x \notin freed' /\ \A r \in Signals : x \notin Batch(r)') => posts'[x] = 0
  BY <1>4, <1>5 DEF Charged
<1>9. \A r \in Signals : \A x \in Batch(r)' : posts'[x] <= (IF r = inFlightSignal' THEN Load' ELSE 0)
  BY <1>1, <1>2, <1>3, <1>4, <1>5, <1>6, <1>7
<1>10. posts'[Head(pending'[inFlightSignal'])] = Load'
  <2>1. Head(pending[s]) \in Batch(s) /\ Head(pending[s]) \in Items
    BY <1>4, BatchItems
  <2>2. posts[Head(pending[s])] = attempt
    <3>1. CASE s = inFlightSignal
      BY <1>3, <3>1 DEF Charged
    <3>2. CASE attempt = 0
      BY <1>2, <1>6, <2>1, <3>2
    <3> QED BY <3>1, <3>2
  <2> QED BY <1>1, <1>3, <1>5, <2>1, <2>2
<1>11. \A x \in Items : posts'[x] <= MaxRetries + 1
  BY <1>2, <1>5, <1>6 DEF Charged
<1> QED BY <1>8, <1>9, <1>10, <1>11 DEF Charged

\* Every step over HTTP keeps the counter that of the batch at hand.
LEMMA NextAttempts ==
  ASSUME ~NullTransport, IInv, Attempts, [Next]_vars
  PROVE  Attempts'
<1> USE Constants DEF IInv
<1>0. Alive' => Alive
  BY NextCalls DEF Alive, vars, ownvars
<1>g. freed \subseteq freed'
  BY Moves, MovesGrow
<1>1. CASE Quiet
  BY <1>0, <1>g, <1>1, QuietFrame, AttemptsFrame DEF sigvars, request, retry, history
<1>2. CASE TickDrain
  <2> SUFFICES ASSUME startFails' = 0 PROVE InUse' /\ Charged'
    BY DEF Attempts
  <2>1. /\ UNCHANGED <<posts, inFlight, inFlightSignal, attempt, backoff, startFails, freed, owner>>
        /\ tpc = "drain"
    BY <1>2, Zenon DEF TickDrain, request, retry, history
  <2>2. InUse /\ Charged
    BY <2>1 DEF Attempts
  <2>3. InUse' /\ Load' = Load
    BY <2>1, <2>2 DEF InUse, Alive, Load
  <2>4. ts \in Signals /\ queue[ts] # <<>> /\ queue[ts] \in Seq(Cell) /\ pending[ts] \in Seq(Items)
    BY <1>2 DEF TickDrain, CanPop, Types, OwnerTypes, QueueTypes, Signals
  <2> DEFINE x == Head(queue[ts]).item
  <2>5. pending' = [pending EXCEPT ![ts] = Append(pending[ts], x)]
    BY <1>2 DEF TickDrain
  <2>6. x \in Queued(ts)
    BY <2>4, TailCells DEF Queued, DistinctPlaces
  <2>7. Head(queue[ts]) \in Cell
    BY <2>4
  <2>8. x \in Items
    BY <2>7 DEF Cell
  <2> HIDE DEF x
  <2>9. x \notin freed /\ \A s \in Signals : x \notin Batch(s)
    BY <2>4, <2>6 DEF Places, Apart, Stored, Batch, Queued
  <2>10. posts[x] = 0 /\ posts \in [Items -> Nat] /\ Load \in Nat /\ inFlightSignal \in Signals
    BY <2>2, <2>8, <2>9 DEF Charged, Types, RequestTypes, Load
  <2>11. \A s \in Signals : pending'[s] = IF s = ts THEN Append(pending[ts], x) ELSE pending[s]
    BY <2>4, <2>5 DEF Types, QueueTypes
  <2>12. SetOf(Append(pending[ts], x)) = Batch(ts) \cup {x}
    BY <2>4, <2>8, AppendItem DEF Batch
  <2>13. \A s \in Signals : Batch(s)' = IF s = ts THEN Batch(ts) \cup {x} ELSE Batch(s)
    BY <2>11, <2>12 DEF Batch
  <2>14. \A y \in Items : (y \notin freed' /\ \A s \in Signals : y \notin Batch(s)') => posts'[y] = 0
    BY <2>1, <2>2, <2>13 DEF Charged
  <2>15. \A s \in Signals : \A y \in Batch(s)' :
           posts'[y] <= (IF s = inFlightSignal' THEN Load' ELSE 0)
    BY <2>1, <2>2, <2>3, <2>10, <2>13 DEF Charged
  <2>16. Alive' /\ pending'[inFlightSignal'] # <<>> => posts'[Head(pending'[inFlightSignal'])] = Load'
    <3> SUFFICES ASSUME Alive', pending'[inFlightSignal] # <<>>
                 PROVE  posts[Head(pending'[inFlightSignal])] = Load
      BY <2>1, <2>3
    <3>1. Alive
      BY <1>0
    <3>2. CASE pending[inFlightSignal] # <<>>
      <4>1. Head(pending'[inFlightSignal]) = Head(pending[inFlightSignal])
        <5>1. CASE inFlightSignal = ts
          <6>1. pending[ts] # <<>> /\ pending'[inFlightSignal] = Append(pending[ts], x)
            BY <2>10, <2>11, <3>2, <5>1
          <6>2. Head(Append(pending[ts], x)) = Head(pending[ts])
            BY <2>4, <2>8, <6>1
          <6> QED BY <5>1, <6>1, <6>2
        <5>2. CASE inFlightSignal # ts
          BY <2>10, <2>11, <5>2
        <5> QED BY <5>1, <5>2
      <4> QED BY <2>2, <3>1, <3>2, <4>1 DEF Charged
    <3>3. CASE pending[inFlightSignal] = <<>> /\ inFlightSignal = ts
      <4>1. Head(pending'[inFlightSignal]) = x
        <5>1. pending'[inFlightSignal] = Append(<<>>, x)
          BY <2>10, <2>11, <3>3
        <5>2. Head(Append(<<>>, x)) = x
          OBVIOUS
        <5> QED BY <5>1, <5>2
      <4>2. ~inFlight /\ backoff = "off"
        <5>1. ~inFlight
          <6>1. inFlight => wire # <<>> /\ Len(wire) = inFlightCount
                            /\ Len(pending[inFlightSignal]) >= inFlightCount
            BY DEF Requests, Carried
          <6>2. wire \in Seq(Items) /\ (wire # <<>> => Len(wire) > 0)
            BY DEF Types, RequestTypes
          <6>3. Len(pending[inFlightSignal]) = 0
            BY <3>3
          <6> QED BY <6>1, <6>2, <6>3
        <5> QED BY <3>1, <3>3, <5>1 DEF Requests, Waiting
      <4>3. Load = 0
        BY <2>2, <3>1, <4>2 DEF InUse, Load
      <4> QED BY <2>10, <4>1, <4>3
    <3>4. CASE pending[inFlightSignal] = <<>> /\ inFlightSignal # ts
      BY <2>10, <2>11, <3>4
    <3> QED BY <3>2, <3>3, <3>4
  <2>17. \A y \in Items : posts'[y] <= MaxRetries + 1
    BY <2>1, <2>2 DEF Charged
  <2> QED BY <2>3, <2>14, <2>15, <2>16, <2>17 DEF Charged
<1>3. CASE TickNull
  BY <1>3 DEF TickNull
<1>4. CASE TickStart
  <2> SUFFICES ASSUME startFails' = 0 PROVE InUse' /\ Charged'
    BY DEF Attempts
  <2>1. PICK s \in ts..NumSignals : BatchReady(s) /\ (StartOk(s) \/ StartFails(s))
    BY <1>4 DEF TickStart
  <2>2. startFails \in Nat /\ s \in Signals
    BY DEF Types, RequestTypes, OwnerTypes, Signals
  <2>3. StartOk(s) /\ startFails = 0
    BY <2>1, <2>2 DEF StartOk, StartFails
  <2>4. InUse /\ Charged
    BY <2>3 DEF Attempts
  <2>5. /\ UNCHANGED <<pending, retry, owner, freed>> /\ ~inFlight /\ backoff = "off" /\ tpc = "send"
    BY <1>4 DEF TickStart, StartUnchanged, Sending, MayStart
  <2>6. Alive /\ attempt = 0 /\ attempt' = attempt
    BY <2>4, <2>5 DEF Calls, Alive, InUse, retry
  <2>7. pending[s] # <<>>
    <3>1. pending[s] = <<>> => Len(pending[s]) = 0
      OBVIOUS
    <3>2. ~(Len(pending[s]) >= BatchSize) \/ pending[s] # <<>>
      BY <3>1
    <3> QED BY <2>1, <2>2, <2>6, <3>2 DEF BatchReady, Requests, Timed
  <2>8. Charged'
    BY <2>2, <2>3, <2>4, <2>5, <2>6, <2>7, StartCharges
  <2>9. InUse'
    BY <2>3 DEF StartOk, InUse
  <2> QED BY <2>8, <2>9
<1>5. CASE TickFinish
  <2> SUFFICES ASSUME startFails' = 0 PROVE InUse' /\ Charged'
    BY DEF Attempts
  <2>1. PICK status : record_outcome(inFlightSignal, inFlightCount, SetOf(wire), status)
    BY <1>5 DEF TickFinish
  <2>2. inFlight /\ ~inFlight' /\ UNCHANGED <<owner, inFlightSignal, posts, startFails>>
    BY <1>5 DEF TickFinish
  <2>3. InUse /\ Charged /\ inFlightSignal \in Signals /\ attempt \in Nat /\ posts \in [Items -> Nat]
    BY <2>2 DEF Attempts, Types, RequestTypes
  <2>4. CASE attempt' = attempt + 1 /\ backoff' = "armed" /\ UNCHANGED <<pending, freed>>
    <3>1. Load' = Load /\ \A s \in Signals : Batch(s)' = Batch(s)
      BY <2>2, <2>3, <2>4 DEF Load, Batch
    <3>2. InUse'
      BY <2>4 DEF InUse
    <3>3. Charged'
      BY <2>2, <2>3, <2>4, <3>1 DEF Charged, Alive
    <3> QED BY <3>2, <3>3
  <2>5. CASE clear_in_flight_batch(inFlightSignal)
    <3>1. /\ pending' = [pending EXCEPT ![inFlightSignal] = <<>>]
          /\ freed' = freed \cup Batch(inFlightSignal) /\ attempt' = 0
      BY <2>5 DEF clear_in_flight_batch, Batch
    <3>2. Load' = 0 /\ InUse'
      BY <2>2, <3>1 DEF Load, InUse
    <3>3. \A s \in Signals : pending'[s] = IF s = inFlightSignal THEN <<>> ELSE pending[s]
      BY <2>3, <3>1 DEF Types, QueueTypes
    <3>4. SetOf(<<>>) = {}
      BY DEF SetOf
    <3>5. \A s \in Signals : Batch(s)' = IF s = inFlightSignal THEN {} ELSE Batch(s)
      BY <3>3, <3>4 DEF Batch
    <3>6. \A y \in Items : (y \notin freed' /\ \A s \in Signals : y \notin Batch(s)') => posts'[y] = 0
      BY <2>2, <2>3, <3>1, <3>5 DEF Charged
    <3>7. \A s \in Signals : \A y \in Batch(s)' :
            posts'[y] <= (IF s = inFlightSignal' THEN Load' ELSE 0)
      BY <2>2, <2>3, <3>5 DEF Charged
    <3>8. pending'[inFlightSignal'] = <<>>
      BY <2>2, <2>3, <3>3
    <3> QED BY <2>2, <2>3, <3>2, <3>6, <3>7, <3>8 DEF Charged
  <2> QED BY <2>1, <2>4, <2>5, Zenon DEF record_outcome
<1>6. CASE TickRetry
  <2> SUFFICES ASSUME startFails' = 0 PROVE InUse' /\ Charged'
    BY DEF Attempts
  <2>1. /\ UNCHANGED <<pending, owner, attempt, freed>> /\ ~inFlight /\ tpc = "retry"
        /\ backoff = "due"
    BY <1>6 DEF TickRetry, StartUnchanged
  <2>2. Alive
    BY <2>1 DEF Calls, Alive
  <2>3. pending[inFlightSignal] # <<>>
    BY <2>1, <2>2 DEF Requests, Waiting
  <2>4. StartOk(inFlightSignal) \/ StartFails(inFlightSignal)
    BY <1>6, <2>3 DEF TickRetry
  <2>5. startFails \in Nat /\ inFlightSignal \in Signals
    BY DEF Types, RequestTypes
  <2>6. StartOk(inFlightSignal) /\ startFails = 0
    BY <2>4, <2>5 DEF StartOk, StartFails
  <2>7. Charged
    BY <2>6 DEF Attempts
  <2>8. Charged'
    BY <2>1, <2>2, <2>3, <2>5, <2>6, <2>7, StartCharges
  <2>9. InUse'
    BY <2>6 DEF StartOk, InUse
  <2> QED BY <2>8, <2>9
<1>7. CASE Free
  <2> SUFFICES ASSUME startFails' = 0 PROVE InUse' /\ Charged'
    BY DEF Attempts
  <2>1. ~Alive' /\ UNCHANGED <<posts, startFails>> /\ freed' = freed \cup Visible
    BY <1>7 DEF Free, Alive, history
  <2>2. Charged
    BY <2>1 DEF Attempts
  <2>3. \A s \in Signals : Batch(s)' = {} /\ Batch(s) \subseteq Visible
    BY <1>7 DEF Free, Batch, SetOf, Visible, Stored
  <2>4. InUse'
    BY <2>1 DEF InUse
  <2>5. Charged'
    BY <2>1, <2>2, <2>3 DEF Charged
  <2> QED BY <2>4, <2>5
<1>8. CASE BackoffElapses \/ \E s \in Signals : Age(s)
  BY <1>0, <1>g, <1>8, AttemptsFrame DEF BackoffElapses, Age, sigvars, request, retry, history
<1>9. CASE \E p \in Emitters : Emit(p)
  BY <1>0, <1>g, <1>9, EmitFrame, AttemptsFrame DEF EmitUnchanged, request, retry
<1>10. CASE UNCHANGED vars
  BY <1>0, <1>g, <1>10, AttemptsFrame DEF vars, sigvars, request, retry, history
<1> QED BY <1>1, <1>2, <1>3, <1>4, <1>5, <1>6, <1>7, <1>8, <1>9, <1>10, NextCases

\* Over HTTP, as long as no start has failed, no item is POSTed more often than
\* once plus max_retries times, and the retry counter is that of the batch at
\* hand.  (The null transport picks the first batch after a backoff, whichever
\* it was for, so it does carry the counter over.)
THEOREM AttemptCountsHolds ==
  ASSUME ~NullTransport
  PROVE  Spec => []AttemptCounts
<1>1. Init => Attempts
  <2> SUFFICES ASSUME Init PROVE InUse /\ Charged
    BY DEF Attempts
  <2>1. /\ attempt = 0 /\ \A s \in Signals : pending[s] = <<>>
        /\ \A x \in Items : posts[x] = 0
    BY DEF Init
  <2>2. \A s \in Signals : Batch(s) = {}
    BY <2>1 DEF Batch, SetOf
  <2>3. inFlightSignal \in Signals
    BY Constants DEF Init
  <2> QED BY <2>1, <2>2, <2>3, Constants DEF InUse, Charged
<1>2. IInv /\ Attempts => AttemptCounts
  <2> SUFFICES ASSUME IInv, Attempts, startFails = 0
               PROVE  /\ \A i \in Items : posts[i] <= MaxRetries + 1
                      /\ attempt > 0 /\ Alive =>
                           /\ pending[inFlightSignal] # <<>>
                           /\ posts[Head(pending[inFlightSignal])]
                                = attempt + (IF inFlight THEN 1 ELSE 0)
    BY DEF AttemptCounts
  <2>1. InUse /\ Charged
    BY DEF Attempts
  <2>2. ASSUME attempt > 0, Alive PROVE pending[inFlightSignal] # <<>>
    <3>1. CASE inFlight
      <4>1. wire # <<>> /\ Len(wire) = inFlightCount /\ Len(pending[inFlightSignal]) >= inFlightCount
        BY <3>1 DEF IInv, Requests, Carried
      <4>2. wire \in Seq(Items) /\ (wire # <<>> => Len(wire) > 0)
        BY DEF IInv, Types, RequestTypes
      <4>3. pending[inFlightSignal] = <<>> => Len(pending[inFlightSignal]) = 0
        OBVIOUS
      <4> QED BY <4>1, <4>2, <4>3
    <3>2. CASE ~inFlight
      <4>1. backoff # "off"
        BY <2>1, <2>2, <3>2 DEF InUse
      <4> QED BY <2>2, <4>1 DEF IInv, Requests, Waiting
    <3> QED BY <3>1, <3>2
  <2> QED BY <2>1, <2>2 DEF Charged, Load
<1>3. IInv /\ Attempts /\ [Next]_vars => Attempts'
  BY NextAttempts
<1> QED BY <1>1, <1>2, <1>3, ExporterInvariant, PTL DEF Spec

(***************************************************************************)
(* The accounting of the null transport                                    *)
(***************************************************************************)
\* Emit calls whose item is in the queue of s, or was, and is not counted yet.
Uncounted(s) == {p \in Emitters : epc[p] \in {"publish", "count"} /\ esig[p] = s}

\* What was put into the queue of s was sent, given up, or is still there.
Balanced(s) ==
  /\ IsFiniteSet(Uncounted(s))
  /\ emitted[s] + Cardinality(Uncounted(s))
       = sent[s] + droppedErr[s] + Len(pending[s]) + Len(queue[s])

Balance == Alive => \A s \in Signals : Balanced(s)

\* What a step has to leave alone to leave the balance of one signal alone.
LEMMA BalanceFrame ==
  ASSUME NEW s \in Signals, Balanced(s), Uncounted(s)' = Uncounted(s), emitted'[s] = emitted[s],
         sent'[s] = sent[s], droppedErr'[s] = droppedErr[s], Len(pending'[s]) = Len(pending[s]),
         Len(queue'[s]) = Len(queue[s])
  PROVE  Balanced(s)'
BY DEF Balanced

\* The lengths and counters of a signal are natural numbers.
LEMMA SignalNumbers ==
  ASSUME Types, NEW s \in Signals
  PROVE  /\ Len(pending[s]) \in Nat /\ Len(queue[s]) \in Nat
         /\ emitted[s] \in Nat /\ sent[s] \in Nat /\ droppedErr[s] \in Nat
<1>1. pending[s] \in Seq(Items) /\ queue[s] \in Seq(Cell)
  BY DEF Types, QueueTypes
<1> QED BY <1>1 DEF Types, StatTypes, Counters

\* A step changes both sides of the balance by the same number.
EqualChange(s) ==
  Cardinality(Uncounted(s)') - Cardinality(Uncounted(s))
    = ((sent'[s] + droppedErr'[s]) - (sent[s] + droppedErr[s]))
      + (Len(pending'[s]) - Len(pending[s])) + (Len(queue'[s]) - Len(queue[s]))

\* Such a step keeps the balance.
LEMMA BalanceStep ==
  ASSUME Types, NEW s \in Signals, Balanced(s), emitted'[s] = emitted[s],
         IsFiniteSet(Uncounted(s)'), Types', EqualChange(s)
  PROVE  Balanced(s)'
<1>1. Cardinality(Uncounted(s)) \in Nat /\ Cardinality(Uncounted(s)') \in Nat
  BY FS_CardinalityType DEF Balanced
<1>2. pending'[s] \in Seq(Items) /\ queue'[s] \in Seq(Cell)
  BY DEF Types, QueueTypes
<1>3. sent'[s] \in Nat /\ droppedErr'[s] \in Nat
  BY DEF Types, StatTypes, Counters
<1>4. Len(pending'[s]) \in Nat /\ Len(queue'[s]) \in Nat
  BY <1>2
<1>5. PICK c0 \in Nat, c1 \in Nat : c0 = Cardinality(Uncounted(s)) /\ c1 = Cardinality(Uncounted(s)')
  BY <1>1
<1>6. PICK d0 \in Nat, d1 \in Nat : d0 = sent[s] + droppedErr[s] /\ d1 = sent'[s] + droppedErr'[s]
  BY <1>3, SignalNumbers
<1>7. PICK l0 \in Nat, l1 \in Nat : l0 = Len(pending[s]) /\ l1 = Len(pending'[s])
  BY <1>4, SignalNumbers
<1>8. PICK q0 \in Nat, q1 \in Nat : q0 = Len(queue[s]) /\ q1 = Len(queue'[s])
  BY <1>4, SignalNumbers
<1>9. PICK e0 \in Nat : e0 = emitted[s]
  BY SignalNumbers
<1>10. e0 + c0 = d0 + l0 + q0
  BY <1>5, <1>6, <1>7, <1>8, <1>9 DEF Balanced
<1>11. c1 - c0 = (d1 - d0) + (l1 - l0) + (q1 - q0)
  BY <1>5, <1>6, <1>7, <1>8 DEF EqualChange
<1>12. e0 + c1 = d1 + l1 + q1
  BY <1>10, <1>11
<1> QED BY <1>5, <1>6, <1>7, <1>8, <1>9, <1>12 DEF Balanced

\* emit puts an item into the queue, and counts it later.
LEMMA EmitBalances ==
  ASSUME Types, NEW p \in Emitters, Emit(p), NEW s \in Signals, Balanced(s)
  PROVE  Balanced(s)'
<1> USE Constants
<1>1. UNCHANGED <<pending, sent, droppedErr>>
  BY EmitFrame DEF EmitUnchanged
<1>2. /\ epc \in [Emitters -> {"idle", "clone", "check", "push", "publish", "count"}]
      /\ esig \in [Emitters -> Signals] /\ emitted \in [Signals -> Nat]
      /\ queue \in [Signals -> Seq(Cell)] /\ esig[p] \in Signals
  BY DEF Types, EmitTypes, StatTypes, QueueTypes, Counters
<1>3. UNCHANGED <<queue, emitted>> /\ Uncounted(s)' = Uncounted(s) => Balanced(s)'
  BY <1>1, BalanceFrame
<1>4. CASE \E r \in Signals : EmitMove(p, r)
  <2>1. Uncounted(s)' = Uncounted(s)
    BY <1>2, <1>4 DEF EmitMove, Own, Uncounted
  <2> QED BY <1>3, <1>4, <2>1 DEF EmitMove
<1>5. CASE \E r \in Signals : EmitClone(p, r)
  <2>1. Uncounted(s)' = Uncounted(s)
    BY <1>2, <1>5 DEF EmitClone, Uncounted
  <2> QED BY <1>3, <1>5, <2>1 DEF EmitClone
<1>6. CASE EmitCloned(p)
  <2>1. Uncounted(s)' = Uncounted(s)
    BY <1>2, <1>6 DEF EmitCloned, Own, EmitReturn, Uncounted
  <2> QED BY <1>3, <1>6, <2>1 DEF EmitCloned
<1>7. CASE EmitCheck(p)
  <2>1. Uncounted(s)' = Uncounted(s)
    BY <1>2, <1>7 DEF EmitCheck, EmitGoto, EmitReturn, Uncounted
  <2> QED BY <1>3, <1>7, <2>1 DEF EmitCheck
<1>8. CASE EmitFull(p)
  <2>1. Uncounted(s)' = Uncounted(s)
    BY <1>2, <1>8 DEF EmitFull, EmitReturn, Uncounted
  <2> QED BY <1>3, <1>8, <2>1 DEF EmitFull
<1>9. CASE EmitReserve(p)
  <2>1. epc[p] = "push" /\ epc' = [epc EXCEPT ![p] = "publish"] /\ UNCHANGED <<esig, emitted>>
    BY <1>9 DEF EmitReserve, EmitGoto
  <2>2. CASE s = esig[p]
    <3> DEFINE q == queue[s]
    <3> DEFINE c == [item |-> eitem[p], ready |-> FALSE]
    <3>1. q \in Seq(Cell) /\ queue'[s] = Append(q, c)
      BY <1>2, <1>9, <2>2 DEF EmitReserve
    <3> HIDE DEF q, c
    <3>2. Len(queue'[s]) = Len(q) + 1 /\ Len(q) \in Nat
      BY <3>1
    <3>3. Uncounted(s)' = Uncounted(s) \cup {p} /\ p \notin Uncounted(s)
      BY <1>2, <2>1, <2>2 DEF Uncounted
    <3>4. IsFiniteSet(Uncounted(s)) /\ Cardinality(Uncounted(s)) \in Nat
      BY FS_CardinalityType DEF Balanced
    <3>5. IsFiniteSet(Uncounted(s)') /\ Cardinality(Uncounted(s)') = Cardinality(Uncounted(s)) + 1
      BY <3>3, <3>4, FS_AddElement
    <3>6. Len(queue'[s]) = Len(queue[s]) + 1 /\ emitted'[s] = emitted[s]
      BY <2>1, <3>2 DEF q
    <3>7. sent'[s] + droppedErr'[s] = sent[s] + droppedErr[s] /\ Len(pending'[s]) = Len(pending[s])
      BY <1>1
    <3>8. EqualChange(s)
      BY <3>4, <3>5, <3>6, <3>7, SignalNumbers DEF EqualChange
    <3>9. Types'
      BY NextTypes DEF Next
    <3> QED BY <3>5, <3>6, <3>8, <3>9, BalanceStep
  <2>3. CASE s # esig[p]
    <3>1. Uncounted(s)' = Uncounted(s)
      BY <1>2, <2>1, <2>3 DEF Uncounted
    <3>2. queue'[s] = queue[s]
      BY <1>2, <1>9, <2>3 DEF EmitReserve
    <3> QED BY <1>1, <2>1, <3>1, <3>2, BalanceFrame
  <2> QED BY <2>2, <2>3
<1>10. CASE EmitPublish(p)
  <2>1. epc[p] = "publish" /\ epc' = [epc EXCEPT ![p] = "count"] /\ UNCHANGED <<esig, emitted>>
    BY <1>10 DEF EmitPublish, EmitGoto
  <2>2. Uncounted(s)' = Uncounted(s)
    BY <1>2, <2>1 DEF Uncounted
  <2>3. Len(queue'[s]) = Len(queue[s])
    <3>1. CASE s = esig[p]
      <4> DEFINE q == queue[s]
      <4> DEFINE F(i) == IF q[i].item = eitem[p] THEN [q[i] EXCEPT !.ready = TRUE] ELSE q[i]
      <4>1. q \in Seq(Cell) /\ queue'[s] = [i \in DOMAIN q |-> F(i)]
        BY <1>2, <1>10, <3>1 DEF EmitPublish
      <4> HIDE DEF q, F
      <4>2. DOMAIN q = 1..Len(q) /\ Len(q) \in Nat
        BY <4>1
      <4>3. Len([i \in 1..Len(q) |-> F(i)]) = Len(q)
        BY <4>2
      <4> QED BY <4>1, <4>2, <4>3 DEF q
    <3>2. CASE s # esig[p]
      BY <1>2, <1>10, <3>2 DEF EmitPublish
    <3> QED BY <3>1, <3>2
  <2> QED BY <1>1, <2>1, <2>2, <2>3, BalanceFrame
<1>11. CASE EmitCount(p)
  <2>1. /\ epc[p] = "count" /\ epc' = [epc EXCEPT ![p] = "idle"] /\ UNCHANGED queue
        /\ esig' = [esig EXCEPT ![p] = 1] /\ emitted' = [emitted EXCEPT ![esig[p]] = @ + 1]
    BY <1>11 DEF EmitCount, EmitReturn, Add
  <2>2. CASE s = esig[p]
    <3>1. Uncounted(s)' = Uncounted(s) \ {p} /\ p \in Uncounted(s)
      BY <1>2, <2>1, <2>2 DEF Uncounted
    <3>2. IsFiniteSet(Uncounted(s)) /\ Cardinality(Uncounted(s)) \in Nat
      BY FS_CardinalityType DEF Balanced
    <3>3. IsFiniteSet(Uncounted(s)') /\ Cardinality(Uncounted(s)') = Cardinality(Uncounted(s)) - 1
      BY <3>1, <3>2, FS_RemoveElement
    <3>4. emitted'[s] = emitted[s] + 1
      BY <1>2, <2>1, <2>2
    <3>5. sent'[s] + droppedErr'[s] = sent[s] + droppedErr[s] /\ Len(pending'[s]) = Len(pending[s])
          /\ Len(queue'[s]) = Len(queue[s])
      BY <1>1, <2>1
    <3>6. PICK c \in Nat, e \in Nat : c = Cardinality(Uncounted(s)) /\ e = emitted[s]
      BY <3>2, SignalNumbers
    <3>7. sent[s] + droppedErr[s] \in Nat /\ Len(pending[s]) \in Nat /\ Len(queue[s]) \in Nat
      BY SignalNumbers
    <3>8. PICK d \in Nat, l \in Nat, q \in Nat :
            d = sent[s] + droppedErr[s] /\ l = Len(pending[s]) /\ q = Len(queue[s])
      BY <3>7
    <3>9. e + c = d + l + q
      BY <3>6, <3>8 DEF Balanced
    <3>10. (e + 1) + (c - 1) = d + l + q
      BY <3>9
    <3> QED BY <3>3, <3>4, <3>5, <3>6, <3>8, <3>10 DEF Balanced
  <2>3. CASE s # esig[p]
    <3>1. Uncounted(s)' = Uncounted(s)
      BY <1>2, <2>1, <2>3 DEF Uncounted
    <3>2. emitted'[s] = emitted[s]
      BY <1>2, <2>1, <2>3
    <3> QED BY <1>1, <2>1, <3>1, <3>2, BalanceFrame
  <2> QED BY <2>2, <2>3
<1> QED BY <1>4, <1>5, <1>6, <1>7, <1>8, <1>9, <1>10, <1>11 DEF Emit

\* Every step of the null transport keeps the balance.
LEMMA NextBalance ==
  ASSUME NullTransport, IInv, Balance, [Next]_vars
  PROVE  Balance'
<1> USE Constants DEF IInv
<1>0. Alive' => Alive
  BY NextCalls DEF Alive, vars, ownvars
<1> SUFFICES ASSUME Alive', NEW s \in Signals
             PROVE  Balanced(s)'
  BY DEF Balance
<1>a. Balanced(s)
  BY <1>0 DEF Balance
<1>c. Types'
  BY NextTypes
<1>b. UNCHANGED <<queue, pending, emitted, sent, droppedErr, epc, esig>> => Balanced(s)'
  BY <1>a, BalanceFrame DEF Uncounted
<1>1. CASE Quiet
  BY <1>b, <1>1, QuietFrame DEF sigvars, stats, emitvars
<1>2. CASE TickDrain
  <2>1. /\ ts \in Signals /\ queue[ts] # <<>> /\ queue[ts] \in Seq(Cell) /\ pending[ts] \in Seq(Items)
        /\ queue \in [Signals -> Seq(Cell)] /\ pending \in [Signals -> Seq(Items)]
    BY <1>2 DEF TickDrain, CanPop, Types, OwnerTypes, QueueTypes, Signals
  <2>2. UNCHANGED <<emitted, sent, droppedErr, epc, esig>>
    BY <1>2 DEF TickDrain, stats, emitvars
  <2>3. Uncounted(s)' = Uncounted(s)
    BY <2>2 DEF Uncounted
  <2>4. CASE s = ts
    <3> DEFINE x == Head(queue[ts]).item
    <3>1. pending'[s] = Append(pending[s], x) /\ queue'[s] = Tail(queue[s])
      BY <1>2, <2>1, <2>4 DEF TickDrain
    <3> HIDE DEF x
    <3>2. Len(Append(pending[s], x)) = Len(pending[s]) + 1
      BY <2>1, <2>4
    <3>3. Len(Tail(queue[s])) = Len(queue[s]) - 1
      BY <2>1, <2>4
    <3>4. /\ Len(pending'[s]) = Len(pending[s]) + 1 /\ Len(queue'[s]) = Len(queue[s]) - 1
          /\ sent'[s] + droppedErr'[s] = sent[s] + droppedErr[s]
      BY <2>2, <3>1, <3>2, <3>3
    <3>5. /\ Cardinality(Uncounted(s)') = Cardinality(Uncounted(s)) /\ IsFiniteSet(Uncounted(s)')
          /\ Cardinality(Uncounted(s)) \in Nat
      BY <1>a, <2>3, FS_CardinalityType DEF Balanced
    <3>6. EqualChange(s)
      BY <3>4, <3>5, SignalNumbers DEF EqualChange
    <3> QED BY <1>a, <1>c, <2>2, <3>5, <3>6, BalanceStep
  <2>5. CASE s # ts
    BY <1>a, <1>2, <2>1, <2>2, <2>3, <2>5, BalanceFrame DEF TickDrain
  <2> QED BY <2>4, <2>5
<1>3. CASE TickNull
  <2>1. PICK r \in Signals, status \in Responses :
          record_outcome(r, Len(pending[r]), SetOf(pending[r]), status)
    BY <1>3 DEF TickNull
  <2>2. UNCHANGED <<queue, emitted, epc, esig>>
    BY <1>3 DEF TickNull, Emitting, emitvars
  <2>3. Uncounted(s)' = Uncounted(s) /\ UNCHANGED <<queue, emitted>>
    BY <2>2 DEF Uncounted
  <2>4. /\ pending \in [Signals -> Seq(Items)] /\ sent \in [Signals -> Nat]
        /\ droppedErr \in [Signals -> Nat] /\ Len(<<>>) = 0
    BY DEF Types, QueueTypes, StatTypes, Counters
  <2>c. /\ Cardinality(Uncounted(s)') = Cardinality(Uncounted(s)) /\ IsFiniteSet(Uncounted(s)')
        /\ Cardinality(Uncounted(s)) \in Nat
    BY <1>a, <2>3, FS_CardinalityType DEF Balanced
  <2>5. CASE UNCHANGED <<pending, sent, droppedErr>>
    BY <1>a, <2>3, <2>5, BalanceFrame
  <2>6. CASE /\ sent' = Add(sent, r, Len(pending[r])) /\ UNCHANGED droppedErr
             /\ pending' = [pending EXCEPT ![r] = <<>>]
    <3>1. CASE s = r
      <4>1. pending'[s] = <<>> /\ sent'[s] = sent[s] + Len(pending[s]) /\ droppedErr'[s] = droppedErr[s]
        BY <2>4, <2>6, <3>1 DEF Add
      <4>2. Len(pending'[s]) = 0 /\ Len(queue'[s]) = Len(queue[s]) /\ emitted'[s] = emitted[s]
        BY <2>3, <2>4, <4>1
      <4>3. EqualChange(s)
        <5>1. /\ sent[s] \in Nat /\ droppedErr[s] \in Nat /\ Len(pending[s]) \in Nat
              /\ Len(queue[s]) \in Nat
          BY SignalNumbers
        <5> QED BY <2>c, <4>1, <4>2, <5>1 DEF EqualChange
      <4> QED BY <1>a, <1>c, <2>c, <4>2, <4>3, BalanceStep
    <3>2. CASE s # r
      BY <1>a, <2>3, <2>4, <2>6, <3>2, BalanceFrame DEF Add
    <3> QED BY <3>1, <3>2
  <2>7. CASE /\ droppedErr' = Add(droppedErr, r, Len(pending[r])) /\ UNCHANGED sent
             /\ pending' = [pending EXCEPT ![r] = <<>>]
    <3>1. CASE s = r
      <4>1. /\ pending'[s] = <<>> /\ droppedErr'[s] = droppedErr[s] + Len(pending[s])
            /\ sent'[s] = sent[s]
        BY <2>4, <2>7, <3>1 DEF Add
      <4>2. Len(pending'[s]) = 0 /\ Len(queue'[s]) = Len(queue[s]) /\ emitted'[s] = emitted[s]
        BY <2>3, <2>4, <4>1
      <4>3. EqualChange(s)
        <5>1. /\ sent[s] \in Nat /\ droppedErr[s] \in Nat /\ Len(pending[s]) \in Nat
              /\ Len(queue[s]) \in Nat
          BY SignalNumbers
        <5> QED BY <2>c, <4>1, <4>2, <5>1 DEF EqualChange
      <4> QED BY <1>a, <1>c, <2>c, <4>2, <4>3, BalanceStep
    <3>2. CASE s # r
      BY <1>a, <2>3, <2>4, <2>7, <3>2, BalanceFrame DEF Add
    <3> QED BY <3>1, <3>2
  <2> QED BY <2>1, <2>5, <2>6, <2>7, Zenon DEF record_outcome, clear_in_flight_batch
<1>4. CASE TickStart
  BY <1>b, <1>4 DEF TickStart, StartUnchanged, Emitting, emitvars
<1>5. CASE TickFinish
  BY <1>5 DEF TickFinish, Requests, NullIdle
<1>6. CASE TickRetry
  BY <1>b, <1>6 DEF TickRetry, StartUnchanged, Emitting, emitvars
<1>7. CASE Free
  BY <1>7 DEF Free, Alive
<1>8. CASE BackoffElapses \/ \E r \in Signals : Age(r)
  BY <1>b, <1>8 DEF BackoffElapses, Age, sigvars, stats, emitvars
<1>9. CASE \E p \in Emitters : Emit(p)
  BY <1>a, <1>9, EmitBalances
<1>10. CASE UNCHANGED vars
  BY <1>b, <1>10 DEF vars, sigvars, stats, emitvars
<1> QED BY <1>1, <1>2, <1>3, <1>4, <1>5, <1>6, <1>7, <1>8, <1>9, <1>10, NextCases

\* The documented accounting invariant, emitted == sent + dropped_err once
\* nothing is stored and no emit is in progress, holds of the null transport.
\* (Over HTTP it does not: see the run exporter_loss.)
THEOREM AccountingHolds ==
  ASSUME NullTransport
  PROVE  Spec => []Accounting
<1>1. Init => Balance
  <2> SUFFICES ASSUME Init, NEW s \in Signals PROVE Balanced(s)
    BY DEF Balance
  <2>1. Uncounted(s) = {}
    BY DEF Init, Uncounted
  <2>2. pending[s] = <<>> /\ queue[s] = <<>> /\ emitted[s] = 0 /\ sent[s] = 0 /\ droppedErr[s] = 0
    BY DEF Init
  <2>3. Len(<<>>) = 0
    OBVIOUS
  <2> QED BY <2>1, <2>2, <2>3, FS_EmptySet DEF Balanced
<1>2. IInv /\ Balance => Accounting
  <2> SUFFICES ASSUME IInv, Balance, Alive, ~Remaining, \A p \in Emitters : epc[p] = "idle",
                      NEW s \in Signals
               PROVE  emitted[s] = sent[s] + droppedErr[s]
    BY DEF Accounting
  <2>1. pending[s] = <<>> /\ queue[s] = <<>> /\ Len(<<>>) = 0
    BY DEF Remaining
  <2>2. Uncounted(s) = {}
    BY DEF Uncounted
  <2> QED BY <2>1, <2>2, FS_EmptySet, SignalNumbers DEF IInv, Balance, Balanced
<1>3. IInv /\ Balance /\ [Next]_vars => Balance'
  BY NextBalance
<1> QED BY <1>1, <1>2, <1>3, ExporterInvariant, PTL DEF Spec
=============================================================================
