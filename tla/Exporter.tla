------------------------------ MODULE Exporter ------------------------------
(***************************************************************************)
(* The asynchronous pipeline of src/exporter.c: emit calls from any thread *)
(* fill one queue per signal; the owner thread's tick drains the queues    *)
(* into pending batches, keeps at most one HTTP request in flight, and     *)
(* retries with backoff; flush, shutdown and free belong to the owner too. *)
(*                                                                         *)
(* A queue is the two-step buffer of BoundedFifo (which MpscQueue          *)
(* implements).  An HTTP request is its start, its steps and its outcome   *)
(* (see HttpRequest).  Time is abstracted to its effects: a batch timer    *)
(* that has elapsed, a backoff that is due, a deadline that may or may not *)
(* have passed.                                                            *)
(***************************************************************************)
EXTENDS Naturals, Sequences, FiniteSets

CONSTANTS
  Emitters,          \* threads calling emit
  NumSignals,        \* spans, metrics, logs; a smaller number in small models
  QueueCapacity, BatchSize, MaxRetries,
  Endpoint,          \* Endpoint[s]: host:port of signal s
  NullTransport,     \* TRUE after otlp_exporter_set_null_transport(e, true)
  Responses,         \* classes of status the collector may answer with
  Rejections,        \* rejected counts a 2xx body may report
  StartFailures,     \* where try_start_post may fail, see StartFails
  MaxStartFailures,  \* bound: failed starts
  MaxItems           \* bound: items handed to the exporter

Signals == 1..NumSignals
Items   == 1..MaxItems
NoSock  == "none"

ASSUME ParamAssumption ==
  /\ {NumSignals, BatchSize} \subseteq Nat \ {0}
  /\ QueueCapacity \in Nat /\ QueueCapacity >= 2  \* one slot is no queue, see MpscQueue
  /\ {MaxRetries, MaxItems, MaxStartFailures} \subseteq Nat
  /\ DOMAIN Endpoint = Signals /\ \A s \in Signals : Endpoint[s] # NoSock
  /\ NullTransport \in BOOLEAN
  /\ Rejections \subseteq Nat
  /\ Responses \subseteq {"000", "2xx", "429", "4xx", "5xx", "other"}
  /\ StartFailures \subseteq {"before", "after"}

VARIABLES
  \* struct signal_state, per signal
  queue, pending, first,
  emitted, droppedFull, droppedErr, sent, rejected,
  \* struct otlp_exporter
  shutdown, inFlight, inFlightSignal, inFlightCount, attempt, backoff,
  keepalive, http,
  \* the request in flight: items encoded in its body, peer of its socket
  wire, reqSock,
  \* the owner thread: call in progress, step of tick, its locals
  owner, tpc, ts, work, flushRet,
  \* the emitters: step of emit, its arguments
  epc, eitem, esig,
  \* history
  nItems, freed, accepted, acked, dropped, posts, startFails, beforeFlush,
  sockets, lost       \* open sockets, and those of them nobody can close

sigvars  == <<queue, pending, first>>
stats    == <<emitted, droppedFull, droppedErr, sent, rejected, http>>
request  == <<inFlight, inFlightSignal, inFlightCount, wire, reqSock>>
retry    == <<attempt, backoff>>
sockvars == <<keepalive, sockets, lost>>
ownvars  == <<owner, tpc, ts, work>>
flushing == <<flushRet, beforeFlush>>
emitvars == <<epc, eitem, esig, nItems>>
history  == <<accepted, acked, dropped, posts>>
vars == <<sigvars, stats, shutdown, request, retry, sockvars, ownvars,
          flushing, emitvars, history, freed, startFails>>

CellItems(q)  == {q[i].item : i \in DOMAIN q}
SetOf(q)     == {q[i] : i \in DOMAIN q}
PendingCap   == 2 * BatchSize

\* otlp_atomic_fetch_add_u64 on the counter of signal s.
AddOne(counter, s, n) == [counter EXCEPT ![s] = @ + 1]
Add(counter, s, n) == [counter EXCEPT ![s] = @ + n]

\* otlp_exporter_create
Init ==
  /\ queue = [s \in Signals |-> <<>>]
  /\ pending = [s \in Signals |-> <<>>]
  /\ first = [s \in Signals |-> "unset"]
  /\ emitted = [s \in Signals |-> 0] /\ droppedFull = [s \in Signals |-> 0]
  /\ droppedErr = [s \in Signals |-> 0] /\ sent = [s \in Signals |-> 0]
  /\ rejected = [s \in Signals |-> 0]
  /\ http = [class \in {"2xx", "4xx", "5xx", "net"} |-> 0]
  /\ shutdown = FALSE
  /\ inFlight = FALSE /\ inFlightSignal = 1 /\ inFlightCount = 0
  /\ wire = <<>> /\ reqSock = NoSock
  /\ attempt = 0 /\ backoff = "off"
  /\ keepalive = NoSock /\ sockets = 0 /\ lost = 0
  /\ owner = "idle" /\ tpc = "idle" /\ ts = 1 /\ work = FALSE
  /\ flushRet = "none" /\ beforeFlush = {}
  /\ epc = [p \in Emitters |-> "idle"]
  /\ eitem = [p \in Emitters |-> 0] /\ esig = [p \in Emitters |-> 1]
  /\ nItems = 0 /\ freed = {} /\ startFails = 0
  /\ accepted = [s \in Signals |-> {}]
  /\ acked = {} /\ dropped = {} /\ posts = [i \in Items |-> 0]
-----------------------------------------------------------------------------
(***************************************************************************)
(* emit, from any thread                                                   *)
(***************************************************************************)
EmitGoto(p, pc) == epc' = [epc EXCEPT ![p] = pc] /\ UNCHANGED <<eitem, esig, nItems>>

EmitReturn(p) == /\ epc' = [epc EXCEPT ![p] = "idle"]
                 /\ eitem' = [eitem EXCEPT ![p] = 0]
                 /\ esig' = [esig EXCEPT ![p] = 1]
                 /\ UNCHANGED nItems

Alive == owner # "freed"

\* An item comes into the exporter's hands, and emit_move_common begins.
Own(p, s) == /\ nItems < MaxItems
             /\ nItems' = nItems + 1
             /\ eitem' = [eitem EXCEPT ![p] = nItems + 1]
             /\ esig' = [esig EXCEPT ![p] = s]
             /\ epc' = [epc EXCEPT ![p] = "check"]

EmitUnchanged == UNCHANGED <<pending, first, droppedErr, sent, rejected, http,
                   shutdown, request, retry, sockvars, ownvars, flushing,
                   acked, dropped, posts, startFails>>

\* emit_*_move: the item is the exporter's from the call on.
EmitMove(p, s) ==
  /\ epc[p] = "idle" /\ Alive
  /\ Own(p, s)
  /\ UNCHANGED <<queue, emitted, droppedFull, accepted, freed>> /\ EmitUnchanged

\* The cloning variants test the shutdown flag first, and again after the clone.
EmitClone(p, s) ==
  /\ epc[p] = "idle" /\ Alive /\ ~shutdown /\ nItems < MaxItems
  /\ esig' = [esig EXCEPT ![p] = s]
  /\ epc' = [epc EXCEPT ![p] = "clone"]
  /\ UNCHANGED <<queue, emitted, droppedFull, accepted, freed, eitem, nItems>>
  /\ EmitUnchanged

\* The clone succeeds, or there is no memory for it.
EmitCloned(p) ==
  /\ epc[p] = "clone"
  /\ Own(p, esig[p]) \/ EmitReturn(p)
  /\ UNCHANGED <<queue, emitted, droppedFull, accepted, freed>> /\ EmitUnchanged

\* The shutdown flag is read; the item is freed if it is set.
EmitCheck(p) ==
  /\ epc[p] = "check"
  /\ \/ ~shutdown /\ EmitGoto(p, "push") /\ UNCHANGED freed
     \/ shutdown /\ EmitReturn(p) /\ freed' = freed \cup {eitem[p]}
  /\ UNCHANGED <<queue, emitted, droppedFull, accepted>> /\ EmitUnchanged

\* mpsc_queue_push finds room and claims a place ...
EmitReserve(p) ==
  /\ epc[p] = "push" /\ Len(queue[esig[p]]) < QueueCapacity
  /\ queue' = [queue EXCEPT ![esig[p]] =
                 Append(@, [item |-> eitem[p], ready |-> FALSE])]
  /\ accepted' = [accepted EXCEPT ![esig[p]] = @ \cup {eitem[p]}]
  /\ EmitGoto(p, "publish")
  /\ UNCHANGED <<emitted, droppedFull, freed>> /\ EmitUnchanged

\* ... or the queue is full, and the item is freed and counted.
EmitFull(p) ==
  /\ epc[p] = "push" /\ Len(queue[esig[p]]) = QueueCapacity
  /\ freed' = freed \cup {eitem[p]}
  /\ droppedFull' = Add(droppedFull, esig[p], 1)
  /\ EmitReturn(p)
  /\ UNCHANGED <<queue, emitted, accepted>> /\ EmitUnchanged

\* mpsc_queue_push makes the item visible to the consumer.
EmitPublish(p) ==
  /\ epc[p] = "publish"
  /\ queue' = [queue EXCEPT ![esig[p]] =
                 [i \in DOMAIN @ |->
                    IF @[i].item = eitem[p] THEN [@[i] EXCEPT !.ready = TRUE]
                                            ELSE @[i]]]
  /\ EmitGoto(p, "count")
  /\ UNCHANGED <<emitted, droppedFull, accepted, freed>> /\ EmitUnchanged

\* The emitted counter follows the push: the item may be sent already.
EmitCount(p) ==
  /\ epc[p] = "count"
  /\ emitted' = Add(emitted, esig[p], 1)
  /\ EmitReturn(p)
  /\ UNCHANGED <<queue, droppedFull, accepted, freed>> /\ EmitUnchanged

Emit(p) ==
  \/ \E s \in Signals : EmitMove(p, s) \/ EmitClone(p, s)
  \/ EmitCloned(p) \/ EmitCheck(p) \/ EmitReserve(p) \/ EmitFull(p)
  \/ EmitPublish(p) \/ EmitCount(p)
-----------------------------------------------------------------------------
(***************************************************************************)
(* record_outcome                                                          *)
(***************************************************************************)
\* Mutants: the batch array is not reset; its last item is overlooked; the
\* retry counter is not reset.
ClearKeepsArray(s) ==
  /\ freed' = freed \cup SetOf(pending[s])
  /\ first' = [first EXCEPT ![s] = "unset"]
  /\ attempt' = 0 /\ backoff' = "off"
  /\ UNCHANGED pending

ClearOffByOne(s) ==
  /\ freed' = freed \cup {pending[s][i] : i \in 1..(Len(pending[s]) - 1)}
  /\ pending' = [pending EXCEPT ![s] = <<@[Len(@)]>>]
  /\ first' = [first EXCEPT ![s] = "unset"]
  /\ attempt' = 0 /\ backoff' = "off"

ClearKeepsAttempt(s) ==
  /\ freed' = freed \cup SetOf(pending[s])
  /\ pending' = [pending EXCEPT ![s] = <<>>]
  /\ first' = [first EXCEPT ![s] = "unset"]
  /\ backoff' = "off"
  /\ UNCHANGED attempt

\* Free everything pending for s, and forget the retry state.
clear_in_flight_batch(s) ==
  /\ freed' = freed \cup SetOf(pending[s])
  /\ pending' = [pending EXCEPT ![s] = <<>>]
  /\ first' = [first EXCEPT ![s] = "unset"]
  /\ attempt' = 0 /\ backoff' = "off"

Transient(status) == status \in {"failed", "000", "429", "5xx"}

CounterOf(status) ==
  CASE status \in {"failed", "000"} -> "net"
    [] status = "2xx" -> "2xx"
    [] status = "5xx" -> "5xx"
    [] OTHER -> "4xx"

\* The retry of attempt + 1 is within max_retries.
RetryLeft == attempt + 1 <= MaxRetries

\* What the answer `status` to a request of signal s, carrying the items
\* `batch` and counted as `count`, does to batch, counters and retry state.
record_outcome(s, count, batch, status) ==
  /\ http' = [http EXCEPT ![CounterOf(status)] = @ + 1]
  /\ \/ /\ status = "2xx"
        /\ sent' = Add(sent, s, count)
        /\ \E n \in Rejections : rejected' = Add(rejected, s, n)
        /\ acked' = acked \cup batch
        /\ clear_in_flight_batch(s)
        /\ UNCHANGED <<droppedErr, dropped>>
     \/ /\ Transient(status) /\ RetryLeft
        /\ attempt' = attempt + 1 /\ backoff' = "armed"
        /\ UNCHANGED <<pending, first, freed, sent, rejected, droppedErr,
                       acked, dropped>>
     \/ /\ status # "2xx"
        /\ Transient(status) => ~RetryLeft
        /\ droppedErr' = Add(droppedErr, s, count)
        /\ dropped' = dropped \cup batch
        /\ clear_in_flight_batch(s)
        /\ UNCHANGED <<sent, rejected, acked>>

(***************************************************************************)
(* try_start_post                                                          *)
(***************************************************************************)
\* The request is built and started, on the kept-alive socket if there is one.
StartOk(s) ==
  /\ inFlight' = TRUE /\ inFlightSignal' = s
  /\ inFlightCount' = Len(pending[s])
  /\ wire' = pending[s]
  /\ reqSock' = IF keepalive = NoSock THEN Endpoint[s] ELSE keepalive
  /\ sockets' = IF keepalive = NoSock THEN sockets + 1 ELSE sockets
  /\ keepalive' = NoSock
  /\ first' = [first EXCEPT ![s] = "unset"]
  /\ posts' = [i \in Items |-> IF i \in SetOf(pending[s]) THEN posts[i] + 1
                                                         ELSE posts[i]]
  /\ UNCHANGED <<startFails, lost>>

\* Mutant: the failure path of the request keeps the donated socket open.
StartFailsOpen(s) ==
  /\ startFails < MaxStartFailures /\ startFails' = startFails + 1
  /\ keepalive' = NoSock
  /\ UNCHANGED <<request, first, posts, sockets, lost>>

\* The start fails: "before" the request owns the donated socket (no memory
\* for the body or the request), which then nobody can close any more; or
\* "after", when the failing code closes it (no memory for the request text, no
\* address, no connection).
StartFails(s) ==
  /\ startFails < MaxStartFailures /\ startFails' = startFails + 1
  /\ \/ /\ "before" \in StartFailures /\ UNCHANGED sockets
        /\ lost' = IF keepalive = NoSock THEN lost ELSE lost + 1
     \/ /\ "after" \in StartFailures /\ UNCHANGED lost
        /\ sockets' = IF keepalive = NoSock THEN sockets ELSE sockets - 1
  /\ keepalive' = NoSock
  /\ UNCHANGED <<request, first, posts>>
-----------------------------------------------------------------------------
(***************************************************************************)
(* tick, on the owner thread                                               *)
(***************************************************************************)
TickGoto(pc) == tpc' = pc
Emitting == UNCHANGED <<emitvars, accepted, emitted, droppedFull>>
StartUnchanged == UNCHANGED <<queue, pending, droppedErr, sent, rejected, http,
                    shutdown, flushing, acked, dropped, freed>> /\ Emitting

\* The result of an earlier flush is of no interest any more.
FlushForgotten == flushRet' = "none" /\ beforeFlush' = {}

TickBegin ==
  /\ owner = "idle"
  /\ owner' = "tick" /\ TickGoto("drain") /\ FlushForgotten
  /\ UNCHANGED <<sigvars, stats, shutdown, request, retry, sockvars, ts, work,
                 emitvars, history, freed, startFails>>

\* Mutant: the capacity of the batch array is not tested.
CanPopUnbounded(s) == queue[s] # <<>> /\ Head(queue[s]).ready

CanPop(s) == /\ Len(pending[s]) < PendingCap
             /\ queue[s] # <<>> /\ Head(queue[s]).ready

\* 1. Pop one item into the pending batch; the first one starts the timer.
TickDrain ==
  /\ tpc = "drain" /\ ts <= NumSignals /\ CanPop(ts)
  /\ pending' = [pending EXCEPT ![ts] = Append(@, Head(queue[ts]).item)]
  /\ queue' = [queue EXCEPT ![ts] = Tail(@)]
  /\ first' = [first EXCEPT ![ts] = IF @ = "unset" THEN "set" ELSE @]
  /\ work' = TRUE
  /\ UNCHANGED <<stats, shutdown, request, retry, sockvars, owner, tpc, ts,
                 flushing, emitvars, history, freed, startFails>>

\* The queue looks empty or the batch is at its cap: go on to the next signal.
TickDrained ==
  /\ tpc = "drain"
  /\ \/ ts <= NumSignals /\ ~CanPop(ts) /\ ts' = ts + 1 /\ UNCHANGED tpc
     \/ ts > NumSignals /\ ts' = 1 /\ TickGoto("send")
  /\ UNCHANGED <<sigvars, stats, shutdown, request, retry, sockvars, owner,
                 work, flushing, emitvars, history, freed, startFails>>

\* 2. Null transport: the first non-empty batch is answered on the spot.
TickNull ==
  /\ tpc = "send" /\ NullTransport /\ backoff = "off"
  /\ \E s \in Signals, status \in Responses :
       /\ pending[s] # <<>> /\ \A r \in 1..(s - 1) : pending[r] = <<>>
       /\ inFlightSignal' = s /\ inFlightCount' = Len(pending[s])
       /\ posts' = [i \in Items |-> IF i \in SetOf(pending[s])
                                      THEN posts[i] + 1 ELSE posts[i]]
       /\ record_outcome(s, Len(pending[s]), SetOf(pending[s]), status)
  /\ work' = TRUE /\ TickGoto("end")
  /\ UNCHANGED <<queue, shutdown, inFlight, wire, reqSock, sockvars, owner, ts,
                 flushing, startFails>> /\ Emitting

\* Mutants: the batch timer, or the shutdown flag, is ignored.
ReadyWithoutTimer(s) == Len(pending[s]) >= BatchSize \/ (shutdown /\ pending[s] # <<>>)
ReadyWithoutShutdown(s) == Len(pending[s]) >= BatchSize \/ first[s] = "aged"

BatchReady(s) == \/ Len(pending[s]) >= BatchSize
                 \/ first[s] = "aged"
                 \/ shutdown /\ pending[s] # <<>>

\* Nothing in flight and no backoff running; mutant: the backoff is ignored.
MayStartInBackoff == ~inFlight
MayStart == ~inFlight /\ backoff = "off"

Sending == tpc = "send" /\ ~(NullTransport /\ backoff = "off" /\ \E s \in Signals : pending[s] # <<>>)

\* 3. Try the next signal whose batch is
\*    ready.  After a failed start the signals behind it are tried.
TickStart ==
  /\ Sending /\ MayStart
  /\ \E s \in ts..NumSignals :
       /\ BatchReady(s) /\ \A r \in ts..(s - 1) : ~BatchReady(r)
       /\ \/ StartOk(s) /\ work' = TRUE /\ TickGoto("step") /\ ts' = 1
          \/ StartFails(s) /\ ts' = s + 1 /\ UNCHANGED <<work, tpc>>
  /\ UNCHANGED <<retry, owner>> /\ StartUnchanged

TickNoStart ==
  /\ Sending
  /\ ~MayStart \/ \A s \in ts..NumSignals : ~BatchReady(s)
  /\ TickGoto("step") /\ ts' = 1
  /\ UNCHANGED <<sigvars, stats, shutdown, request, retry, sockvars, owner,
                 work, flushing, emitvars, history, freed, startFails>>

\* 4. Step the request: it goes on, ...
TickStep ==
  /\ tpc = "step"
  /\ work' = (work \/ inFlight) /\ TickGoto("retry")
  /\ UNCHANGED <<sigvars, stats, shutdown, request, retry, sockvars, owner, ts,
                 flushing, emitvars, history, freed, startFails>>

\* The request is freed: it closes its socket unless the socket was detached.
ReleaseSocket(keep) ==
  \/ keep /\ keepalive' = reqSock /\ UNCHANGED sockets
  \/ ~keep /\ sockets' = sockets - 1 /\ UNCHANGED keepalive

\* ... fails, or is answered.  The socket outlives the request if the response
\* allows it and is not an error.
TickFinish ==
  /\ tpc = "step" /\ inFlight
  /\ \E status \in Responses \cup {"failed"}, reusable \in BOOLEAN :
       /\ record_outcome(inFlightSignal, inFlightCount, SetOf(wire), status)
       /\ ReleaseSocket(reusable /\ status \in {"2xx", "000"})
  /\ inFlight' = FALSE /\ inFlightCount' = 0 /\ wire' = <<>> /\ reqSock' = NoSock
  /\ work' = TRUE /\ TickGoto("retry")
  /\ UNCHANGED <<queue, shutdown, inFlightSignal, owner, ts, flushing, posts,
                 lost, startFails>> /\ Emitting

\* 5. The backoff is over: the batch of in_flight_signal is tried again.
TickRetry ==
  /\ tpc = "retry" /\ backoff = "due" /\ ~inFlight
  /\ backoff' = "off" /\ UNCHANGED attempt
  /\ IF NullTransport \/ pending[inFlightSignal] = <<>>
       THEN UNCHANGED <<request, first, posts, sockvars, startFails>>
       ELSE StartOk(inFlightSignal) \/ StartFails(inFlightSignal)
  /\ work' = (work \/ inFlight') /\ TickGoto("end")
  /\ UNCHANGED <<owner, ts>> /\ StartUnchanged

TickNoRetry ==
  /\ tpc = "retry" /\ ~(backoff = "due" /\ ~inFlight)
  /\ TickGoto("end")
  /\ UNCHANGED <<sigvars, stats, shutdown, request, retry, sockvars, owner, ts,
                 work, flushing, emitvars, history, freed, startFails>>

\* The loop goes on while work was done and max_wait_ms has not elapsed.
TickEnd ==
  /\ tpc = "end" /\ work' = FALSE
  /\ \/ work /\ TickGoto("drain") /\ UNCHANGED owner
     \/ owner = "tick" /\ owner' = "idle" /\ TickGoto("idle")
     \/ owner = "flush" /\ TickGoto("flushed") /\ UNCHANGED owner
  /\ UNCHANGED <<sigvars, stats, shutdown, request, retry, sockvars, ts, flushing,
                 emitvars, history, freed, startFails>>

Tick == \/ TickBegin \/ TickDrain \/ TickDrained \/ TickNull \/ TickStart
        \/ TickNoStart \/ TickStep \/ TickFinish \/ TickRetry \/ TickNoRetry
        \/ TickEnd
-----------------------------------------------------------------------------
(***************************************************************************)
(* flush, shutdown and free, on the owner thread                           *)
(***************************************************************************)
\* Mutant: the queues are not looked at.
RemainingInBatches == inFlight \/ \E s \in Signals : pending[s] # <<>>

\* What flush waits for; mpsc_queue_size counts claimed places too.
Remaining == inFlight \/ \E s \in Signals : pending[s] # <<>> \/ queue[s] # <<>>

Stored(s) == SetOf(pending[s]) \cup CellItems(queue[s])
Visible == UNION {Stored(s) : s \in Signals}

FlushBegin ==
  /\ owner = "idle"
  /\ owner' = "flush" /\ TickGoto("drain")
  /\ flushRet' = "none" /\ beforeFlush' = Visible
  /\ UNCHANGED <<sigvars, stats, shutdown, request, retry, sockvars, ts, work,
                 emitvars, history, freed, startFails>>

\* After each tick: go on while something remains and flush_timeout_ms has
\* not elapsed.
FlushLoop ==
  /\ tpc = "flushed"
  /\ \/ Remaining /\ TickGoto("drain")
     \/ TickGoto("return")
  /\ UNCHANGED <<sigvars, stats, shutdown, request, retry, sockvars, owner, ts,
                 work, flushing, emitvars, history, freed, startFails>>

\* The return status is computed from a second look at the same state.
FlushReturn ==
  /\ tpc = "return"
  /\ flushRet' = IF Remaining THEN "network" ELSE "ok"
  /\ owner' = "idle" /\ TickGoto("idle")
  /\ UNCHANGED <<sigvars, stats, shutdown, request, retry, sockvars, ts, work,
                 beforeFlush, emitvars, history, freed, startFails>>

Shutdown ==
  /\ owner = "idle" /\ ~shutdown
  /\ shutdown' = TRUE /\ FlushForgotten
  /\ UNCHANGED <<sigvars, stats, request, retry, sockvars, ownvars,
                 emitvars, history, freed, startFails>>

\* free: the caller has stopped every emitter.
Free ==
  /\ owner = "idle" /\ \A p \in Emitters : epc[p] = "idle"
  /\ owner' = "freed"
  /\ freed' = freed \cup Visible
  /\ queue' = [s \in Signals |-> <<>>] /\ pending' = [s \in Signals |-> <<>>]
  /\ inFlight' = FALSE /\ wire' = <<>> /\ reqSock' = NoSock
  /\ keepalive' = NoSock /\ FlushForgotten
  /\ sockets' = sockets - (IF inFlight THEN 1 ELSE 0)
                        - (IF keepalive # NoSock THEN 1 ELSE 0)
  /\ UNCHANGED <<first, stats, shutdown, inFlightSignal, inFlightCount, retry,
                 tpc, ts, work, emitvars, history, lost, startFails>>

(***************************************************************************)
(* The clock                                                               *)
(***************************************************************************)
\* batch_ms elapses for the batch of s.
Age(s) ==
  /\ first[s] = "set" /\ Alive
  /\ first' = [first EXCEPT ![s] = "aged"]
  /\ UNCHANGED <<queue, pending, stats, shutdown, request, retry, sockvars,
                 ownvars, flushing, emitvars, history, freed, startFails>>

\* The backoff deadline passes.
BackoffElapses ==
  /\ backoff = "armed" /\ Alive
  /\ backoff' = "due"
  /\ UNCHANGED <<sigvars, stats, shutdown, request, attempt, sockvars, ownvars,
                 flushing, emitvars, history, freed, startFails>>
-----------------------------------------------------------------------------
Owner == Tick \/ FlushBegin \/ FlushLoop \/ FlushReturn \/ Shutdown \/ Free

Clock == BackoffElapses \/ \E s \in Signals : Age(s)

Next == Owner \/ Clock \/ \E p \in Emitters : Emit(p)

Spec == Init /\ [][Next]_vars

\* The owner keeps calling tick or flush; the clock goes on; a thread inside
\* emit gets through its straight-line code.  A request does not stay in
\* flight for ever: its connect and read timeouts end it (see HttpRequest).
Fairness ==
  /\ WF_vars(Tick \/ FlushLoop \/ FlushReturn) /\ SF_vars(TickFinish)
  /\ WF_vars(BackoffElapses) /\ \A s \in Signals : WF_vars(Age(s))
  /\ \A p \in Emitters :
       WF_vars(EmitCheck(p) \/ EmitReserve(p) \/ EmitFull(p) \/ EmitPublish(p) \/ EmitCount(p))

FairSpec == Spec /\ Fairness
-----------------------------------------------------------------------------
(***************************************************************************)
(* Properties                                                              *)
(***************************************************************************)
Counters == [Signals -> Nat]

TypeOK ==
  /\ \A s \in Signals :
       /\ queue[s] \in Seq([item : Items, ready : BOOLEAN])
       /\ Len(queue[s]) <= QueueCapacity
       /\ pending[s] \in Seq(Items) /\ Len(pending[s]) <= PendingCap
  /\ first \in [Signals -> {"unset", "set", "aged"}]
  /\ {emitted, droppedFull, droppedErr, sent, rejected} \subseteq Counters
  /\ http \in [{"2xx", "4xx", "5xx", "net"} -> Nat]
  /\ {shutdown, inFlight, work} \subseteq BOOLEAN
  /\ inFlightSignal \in Signals /\ inFlightCount \in Nat /\ wire \in Seq(Items)
  /\ {reqSock, keepalive} \subseteq {NoSock} \cup {Endpoint[s] : s \in Signals}
  /\ attempt \in 0..MaxRetries /\ backoff \in {"off", "armed", "due"}
  /\ owner \in {"idle", "tick", "flush", "freed"}
  /\ tpc \in {"idle", "drain", "send", "step", "retry", "end", "flushed", "return"}
  /\ ts \in 1..(NumSignals + 1)
  /\ flushRet \in {"none", "ok", "network"}
  /\ epc \in [Emitters -> {"idle", "clone", "check", "push", "publish", "count"}]
  /\ eitem \in [Emitters -> 0..MaxItems] /\ esig \in [Emitters -> Signals]
  /\ {sockets, lost} \subseteq Nat /\ startFails \in 0..MaxStartFailures /\ nItems \in 0..MaxItems

\* Every item handed to the exporter is held by one emit call, stored in one
\* place of one queue or batch, or freed: nothing leaks, nothing is freed while
\* it can still be reached, and free() leaves nothing behind.
Ownership ==
  LET held == {eitem[p] : p \in {q \in Emitters : epc[q] \in {"check", "push"}}}
      places(s) == pending[s] \o [i \in DOMAIN queue[s] |-> queue[s][i].item]
  IN /\ held \cup Visible \cup freed = 1..nItems
     /\ held \cap Visible = {} /\ (held \cup Visible) \cap freed = {}
     /\ \A s \in Signals : \A i, j \in DOMAIN places(s) :
          i # j => places(s)[i] # places(s)[j]
     /\ owner = "freed" => freed = 1..nItems

\* The batch of a request stays in place until its outcome is recorded, also
\* while new items are drained behind it and while a backoff is running: a
\* retry finds every item it has to send again.
BatchKept ==
  /\ inFlight => /\ Len(wire) = inFlightCount /\ wire # <<>>
                 /\ Len(pending[inFlightSignal]) >= inFlightCount
                 /\ wire = SubSeq(pending[inFlightSignal], 1, inFlightCount)
  /\ backoff # "off" /\ Alive => ~inFlight /\ pending[inFlightSignal] # <<>>

\* sent and dropped_err count each acknowledged and each given-up item once.
StatsExact ==
  /\ acked \cap dropped = {}
  /\ \A s \in Signals :
       /\ sent[s] = Cardinality(acked \cap accepted[s])
       /\ droppedErr[s] = Cardinality(dropped \cap accepted[s])

\* An item the collector has acknowledged, or that was given up, is never
\* stored again, so it cannot be sent a second time.
OutcomeIsFinal == (acked \cup dropped) \cap Visible = {}

\* As long as requests can be started, no item is POSTed more often than once
\* plus max_retries times, and the retry counter belongs to the batch at hand:
\* it is the number of failed POSTs of the oldest item of in_flight_signal, and
\* is never carried over to the batch of another signal.  (When the start of a
\* retry fails the counter stays, and the outcome of another signal's request
\* resets it: the batch is then retried from 0 again.)
AttemptCounts ==
  startFails = 0 =>
    /\ \A i \in Items : posts[i] <= MaxRetries + 1
    /\ attempt > 0 /\ Alive =>
         /\ pending[inFlightSignal] # <<>>
         /\ posts[Head(pending[inFlightSignal])] = attempt + (IF inFlight THEN 1 ELSE 0)

\* When no emit is in progress and nothing is stored, every accepted item was
\* sent or counted as dropped ("Accounting invariant: emitted == sent +
\* dropped_err").
Accounting ==
  Alive /\ ~Remaining /\ (\A p \in Emitters : epc[p] = "idle") =>
    \A s \in Signals : emitted[s] = sent[s] + droppedErr[s]

OwnedSockets == (IF inFlight THEN 1 ELSE 0) + (IF keepalive # NoSock THEN 1 ELSE 0)

\* No socket is closed twice, and none is left open but the one of the request,
\* the one kept alive, and those given to a start that failed for want of
\* memory before it took them: one at most for each failed start.
SocketsAccounted == sockets = OwnedSockets + lost /\ lost <= startFails

\* What try_start_post says of a failed start: "The donated socket (if any) was
\* closed by the build path".  Refuted: a start may fail before it.
SocketsOwned == sockets = OwnedSockets

\* flush returns OTLP_OK only when everything stored at its call is settled.
FlushOkSettles == flushRet = "ok" => beforeFlush \subseteq freed

AllAccepted == UNION {accepted[s] : s \in Signals}

\* An accepted item is eventually sent or given up, and freed ("enqueued; will
\* be POSTed by tick()").
EveryItemSettled == \A i \in Items : i \in AllAccepted ~> i \in freed

\* The same as long as requests can be started, of a load that ends, as that of
\* MaxItems items does.  Of one that does not end it is not true: tick starts
\* the first batch that is ready, so the first signals can starve the others.
SettledIfStarted == \A i \in Items : i \in AllAccepted ~> i \in freed \/ startFails > 0

\* After shutdown() the remaining items drain even if a start fails, those of
\* emit calls that had passed the shutdown check included.
ShutdownDrains == shutdown ~> AllAccepted \subseteq freed
=============================================================================
