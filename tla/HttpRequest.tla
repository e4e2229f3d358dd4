---------------------------- MODULE HttpRequest ----------------------------
(***************************************************************************)
(* src/http_client.c: the POST state machine that the exporter steps, over *)
(* one non-blocking socket, against a peer that may be slow, stop reading, *)
(* close or reset the connection at any time.  Requests follow each other; *)
(* the socket of a request that is done may be kept for the next.          *)
(*                                                                         *)
(* Clock readings are the time since start_ms and since last_io_ms, up to  *)
(* the timeout they are compared with.  normalize_opts leaves no timeout   *)
(* at 0.                                                                   *)
(***************************************************************************)
EXTENDS HttpResponse, Powers, FiniteSets

CONSTANTS
  ReqLen,             \* units of a request
  InitCap,            \* size of the response buffer, 4096 octets in the code
  ConnectTimeout, ReadTimeout,
  Answers,            \* what the peer may answer: records [head, units]
  Unsolicited,        \* what it may send while there is no request
  Endless,            \* TRUE: a body without length may go on for ever
  MaxRequests         \* bound: number of requests

NoAnswer == [head |-> [statusLine |-> FALSE, status |-> 0, http11 |-> FALSE, lines |-> <<>>],
             units |-> <<>>]

ASSUME HttpAssumption ==
  /\ {ReqLen, InitCap, ConnectTimeout, ReadTimeout, RespMax, MaxRequests} \subseteq Nat \ {0}
  /\ InitCap <= RespMax
  /\ Answers \cup Unsolicited \subseteq [head : ResponseHeads, units : Seq(Units)] \ {NoAnswer}

Idle == "idle"        \* no request

VARIABLES
  \* struct otlp_http_request
  state, sock, reqSent, buf, cap, status, body, keepaliveEligible,
  sinceStart, sinceIo,
  kept,               \* the exporter's keepalive_sock is set
  \* the connection and the peer behind it
  conn,               \* "none", "pending", "up", "reset"
  canWrite,           \* the peer takes octets
  answer, outgoing,   \* its answer to this request, the part not sent yet
  inbound, fin,       \* octets on their way to us, and the end of stream
  \* history
  nReq, opened, why, raw,
  stale,              \* the connection carries octets that answer no request of it
  quiet               \* time since an octet went either way, as far as it matters

req    == <<state, sock, reqSent, buf, cap, status, body, keepaliveEligible>>
timers == <<sinceStart, sinceIo, quiet>>
peer   == <<conn, canWrite, answer, outgoing, inbound, fin>>
vars   == <<req, timers, kept, peer, nReq, opened, why, raw, stale>>

Active == state \in {"CONNECTING", "SENDING", "READING"}

Init ==
  /\ state = Idle /\ sock = FALSE /\ reqSent = 0 /\ buf = <<>> /\ cap = 0
  /\ status = 0 /\ body = <<>> /\ keepaliveEligible = FALSE
  /\ sinceStart = 0 /\ sinceIo = 0 /\ kept = FALSE
  /\ conn = "none" /\ canWrite = FALSE /\ answer = NoAnswer
  /\ outgoing = <<>> /\ inbound = <<>> /\ fin = FALSE
  /\ nReq = 0 /\ opened = 0 /\ why = "none" /\ raw = <<>>
  /\ stale = FALSE /\ quiet = 0
-----------------------------------------------------------------------------
(***************************************************************************)
(* otlp_http_request_start, otlp_http_request_start_with_socket            *)
(***************************************************************************)
\* A new request: calloc'ed, request text built, clock started.
Fresh(initial) ==
  /\ state = Idle /\ nReq < MaxRequests /\ nReq' = nReq + 1
  /\ state' = initial /\ sock' = TRUE
  /\ sinceStart' = 0 /\ sinceIo' = 0 /\ quiet' = 0
  /\ UNCHANGED <<reqSent, buf, cap, status, body, keepaliveEligible, why, raw>>

\* connect() is under way, or complete at once.
StartConnect ==
  /\ ~kept
  /\ \/ Fresh("CONNECTING") /\ conn' = "pending"
     \/ Fresh("SENDING") /\ conn' = "up"
  /\ opened' = opened + 1
  /\ canWrite' = TRUE /\ answer' = NoAnswer
  /\ outgoing' = <<>> /\ inbound' = <<>> /\ fin' = FALSE
  /\ stale' = FALSE /\ UNCHANGED kept

\* The donated socket is connected: no CONNECTING phase.  Nobody looks whether
\* there is something to read from it.
StartDonated ==
  /\ kept /\ kept' = FALSE
  /\ Fresh("SENDING")
  /\ stale' = (stale \/ inbound # <<>> \/ outgoing # <<>>)
  /\ answer' = NoAnswer
  /\ UNCHANGED <<conn, canWrite, outgoing, inbound, fin, opened>>

(***************************************************************************)
(* otlp_http_request_step.  A step that finds the socket not ready and no  *)
(* deadline passed changes nothing.                                        *)
(***************************************************************************)
Fail(cause) == state' = "FAILED" /\ why' = cause
StepLocals == UNCHANGED <<sock, kept, peer, nReq, opened, stale>>

StepConnected ==
  /\ state = "CONNECTING" /\ conn = "up"
  /\ state' = "SENDING" /\ sinceIo' = 0 /\ quiet' = 0
  /\ UNCHANGED <<reqSent, buf, cap, status, body, keepaliveEligible, sinceStart, why, raw>>
  /\ StepLocals

\* An error of poll(), send() or recv().
StepError ==
  /\ Active /\ conn = "reset"
  /\ Fail("reset")
  /\ UNCHANGED <<reqSent, buf, cap, status, body, keepaliveEligible, timers, raw>>
  /\ StepLocals

StepConnectTimeout ==
  /\ state = "CONNECTING" /\ conn = "pending" /\ sinceStart >= ConnectTimeout
  /\ Fail("timeout")
  /\ UNCHANGED <<reqSent, buf, cap, status, body, keepaliveEligible, timers, raw>>
  /\ StepLocals

\* send() takes n octets; after the last one the response buffer is there.
StepSend ==
  /\ state = "SENDING" /\ conn = "up" /\ canWrite
  /\ \E n \in 1..(ReqLen - reqSent) :
       /\ reqSent' = reqSent + n
       /\ IF reqSent' = ReqLen THEN state' = "READING" /\ cap' = InitCap
                               ELSE UNCHANGED <<state, cap>>
  /\ sinceIo' = 0 /\ quiet' = 0
  /\ UNCHANGED <<buf, status, body, keepaliveEligible, sinceStart, why, raw>> /\ StepLocals

\* There is no memory for the response buffer.
StepNoMemory ==
  /\ state = "SENDING" /\ conn = "up" /\ canWrite
  /\ reqSent' = ReqLen /\ sinceIo' = 0 /\ quiet' = 0
  /\ Fail("memory")
  /\ UNCHANGED <<buf, cap, status, body, keepaliveEligible, sinceStart, raw>> /\ StepLocals

\* Mutant: the stalled peer of the sending phase is not noticed.
NoSendTimeout == FALSE

\* send() would block, for the inactivity time.
StepSendTimeout ==
  /\ state = "SENDING" /\ conn = "up" /\ ~canWrite /\ sinceIo >= ReadTimeout
  /\ Fail("timeout")
  /\ UNCHANGED <<reqSent, buf, cap, status, body, keepaliveEligible, timers, raw>>
  /\ StepLocals

\* Mutant: the deadline is tested before the socket.
ReadTimeoutFirst ==
  /\ state = "READING" /\ conn = "up" /\ sinceIo >= ReadTimeout
  /\ Fail("timeout")
  /\ UNCHANGED <<reqSent, buf, cap, status, body, keepaliveEligible, timers, raw>>
  /\ StepLocals

\* recv() would block, for the inactivity time.
StepReadTimeout ==
  /\ state = "READING" /\ conn = "up" /\ inbound = <<>> /\ ~fin
  /\ sinceIo >= ReadTimeout
  /\ Fail("timeout")
  /\ UNCHANGED <<reqSent, buf, cap, status, body, keepaliveEligible, timers, raw>>
  /\ StepLocals

\* The buffer doubles until `need` octets fit; the limit is tested before
\* each doubling, the last of which starts from half the new size.
Doublings(need) ==
  CHOOSE k \in 0..need : /\ cap * Pow2[k] >= need
                         /\ \A j \in 0..(k - 1) : cap * Pow2[j] < need
Grown(need) == cap * Pow2[Doublings(need)]
\* Mutant: the limit is not tested.
OverflowsNever(need) == FALSE
Overflows(need) == need > cap /\ Grown(need) \div 2 > RespMax

try_parse_response(b, at_eof) == otlp_http_resp_parse(b, at_eof)

\* Mutant: what was not enough is thrown away.
ConcludeForgets(v) ==
  /\ buf' = <<>>
  /\ \/ v.rc = NeedMore /\ UNCHANGED <<state, status, body, keepaliveEligible, why>>
     \/ v.rc = Bad /\ Fail("invalid") /\ UNCHANGED <<status, body, keepaliveEligible>>
     \/ /\ v.rc = Complete
        /\ state' = "DONE" /\ status' = v.buf[1].head.status
        /\ body' = v.body /\ keepaliveEligible' = v.keepalive
        /\ UNCHANGED why

\* What a verdict makes of the request.
Conclude(v) ==
  /\ buf' = v.buf
  /\ \/ v.rc = NeedMore /\ UNCHANGED <<state, status, body, keepaliveEligible, why>>
     \/ v.rc = Bad /\ Fail("invalid") /\ UNCHANGED <<status, body, keepaliveEligible>>
     \/ /\ v.rc = Complete
        /\ state' = "DONE" /\ status' = v.buf[1].head.status
        /\ body' = v.body /\ keepaliveEligible' = v.keepalive
        /\ UNCHANGED why

\* recv() returns n octets: store and parse them.
StepRead ==
  /\ state = "READING" /\ conn = "up"
  /\ \E n \in 1..Len(inbound) :
       LET b == buf \o SubSeq(inbound, 1, n) IN
       /\ n <= InitCap
       /\ inbound' = SubSeq(inbound, n + 1, Len(inbound))
       /\ raw' = raw \o SubSeq(inbound, 1, n)
       /\ \/ ~Overflows(Len(b))
             /\ cap' = Grown(Len(b)) /\ sinceIo' = 0
             /\ \E v \in {try_parse_response(b, FALSE)} : Conclude(v)
          \/ /\ Len(b) > cap
             /\ Fail(IF Overflows(Len(b)) THEN "overflow" ELSE "memory")
             /\ UNCHANGED <<buf, cap, status, body, keepaliveEligible, sinceIo>>
  /\ UNCHANGED <<reqSent, sinceStart, quiet, sock, kept, conn, canWrite, answer, outgoing,
                 fin, nReq, opened, stale>>

\* recv() returns 0.  What is there is parsed again, and once more as all that
\* will ever come.
StepReadEof ==
  /\ state = "READING" /\ conn = "up" /\ inbound = <<>> /\ fin
  /\ \E v \in {try_parse_response(buf, FALSE)} :
     \E w \in {try_parse_response(v.buf, TRUE)} :
       Conclude(IF v.rc # NeedMore THEN v
                ELSE IF w.rc = Complete THEN w ELSE Undecided(Bad, w.buf))
  /\ UNCHANGED <<reqSent, cap, timers, raw>> /\ StepLocals

Step == \/ StepConnected \/ StepConnectTimeout \/ StepError \/ StepSend \/ StepNoMemory
        \/ StepSendTimeout \/ StepRead \/ StepReadEof \/ StepReadTimeout

(***************************************************************************)
(* The exporter is told the outcome, keeps the socket if it may, and frees *)
(* the request.                                                            *)
(***************************************************************************)
otlp_http_request_detach_socket == state = "DONE" /\ keepaliveEligible

Keeps == otlp_http_request_detach_socket /\ status \in {0} \cup 200..299

\* Mutant: a socket that is not kept stays open.
FreeKeepsOpen(keep) == opened' = opened /\ UNCHANGED <<conn, inbound, outgoing, fin>>

\* otlp_socket_close
CloseUnless(keep) ==
  \/ keep /\ UNCHANGED <<opened, conn, inbound, outgoing, fin>>
  \/ /\ ~keep /\ opened' = opened - 1
     /\ conn' = "none" /\ inbound' = <<>> /\ outgoing' = <<>> /\ fin' = FALSE

Release ==
  /\ state \in {"DONE", "FAILED"}
  /\ kept' = Keeps /\ CloseUnless(Keeps)
  /\ state' = Idle /\ sock' = FALSE /\ reqSent' = 0 /\ buf' = <<>> /\ cap' = 0
  /\ status' = 0 /\ body' = <<>> /\ keepaliveEligible' = FALSE
  /\ sinceStart' = 0 /\ sinceIo' = 0 /\ quiet' = 0
  /\ why' = "none" /\ raw' = <<>>
  /\ UNCHANGED <<canWrite, answer, nReq, stale>>

\* otlp_exporter_free closes the kept socket.
CloseKept ==
  /\ state = Idle /\ kept
  /\ kept' = FALSE /\ CloseUnless(FALSE)
  /\ UNCHANGED <<req, timers, canWrite, answer, nReq, why, raw, stale>>
-----------------------------------------------------------------------------
(***************************************************************************)
(* The peer, the network and the clock                                     *)
(***************************************************************************)
LocalsUnchanged == UNCHANGED <<req, kept, nReq, opened, why, raw>>
PeerUnchanged == LocalsUnchanged /\ UNCHANGED <<timers, stale>>

\* The connection is accepted, refused, or reset.
PeerConnects ==
  /\ \/ conn = "pending" /\ conn' \in {"up", "reset"}
     \/ conn = "up" /\ conn' = "reset"
  /\ UNCHANGED <<canWrite, answer, outgoing, inbound, fin>> /\ PeerUnchanged

\* It stops taking octets, or goes on.
PeerWindow ==
  /\ state = "SENDING" /\ canWrite' = ~canWrite
  /\ UNCHANGED <<conn, answer, outgoing, inbound, fin>> /\ PeerUnchanged

PeerAnswers ==
  /\ state = "READING" /\ conn = "up" /\ ~fin /\ answer = NoAnswer
  /\ answer' \in Answers
  /\ outgoing' = outgoing \o <<HeadUnit(answer'.head)>> \o answer'.units
  /\ UNCHANGED <<conn, canWrite, inbound, fin>> /\ PeerUnchanged

\* It says something while the connection is kept, that it gives up waiting for
\* a request, say.
PeerUnsolicited ==
  /\ kept /\ conn = "up" /\ ~fin /\ ~stale
  /\ \E a \in Unsolicited : outgoing' = outgoing \o <<HeadUnit(a.head)>> \o a.units
  /\ stale' = TRUE
  /\ UNCHANGED <<conn, canWrite, answer, inbound, fin, timers>> /\ LocalsUnchanged

PeerSends ==
  /\ conn = "up" /\ outgoing # <<>>
  /\ inbound' = Append(inbound, Head(outgoing)) /\ outgoing' = Tail(outgoing)
  /\ quiet' = 0
  /\ UNCHANGED <<conn, canWrite, answer, fin, sinceStart, sinceIo, stale>> /\ LocalsUnchanged

HasLine(head, name) == \E i \in DOMAIN head.lines : head.lines[i].name = name
ToEof(head) == ~HasLine(head, "Content-Length") /\ ~HasLine(head, "Transfer-Encoding")

\* A body that has no length goes on.
PeerGoesOn ==
  /\ Endless /\ state = "READING" /\ conn = "up" /\ ~fin
  /\ answer # NoAnswer /\ ToEof(answer.head) /\ outgoing = <<>> /\ inbound = <<>>
  /\ outgoing' = <<Data>>
  /\ UNCHANGED <<conn, canWrite, answer, inbound, fin>> /\ PeerUnchanged

\* It closes the connection, whatever it has still to send.
PeerCloses ==
  /\ conn = "up" /\ ~fin /\ fin' = TRUE /\ outgoing' = <<>>
  /\ UNCHANGED <<conn, canWrite, answer, inbound>> /\ PeerUnchanged

Peer == \/ PeerConnects \/ PeerWindow \/ PeerAnswers \/ PeerUnsolicited \/ PeerSends
        \/ PeerGoesOn \/ PeerCloses

Clock ==
  /\ \/ state = "CONNECTING" /\ sinceStart < ConnectTimeout
        /\ sinceStart' = sinceStart + 1 /\ UNCHANGED <<sinceIo, quiet>>
     \/ state \in {"SENDING", "READING"} /\ sinceIo < ReadTimeout
        /\ sinceIo' = sinceIo + 1 /\ UNCHANGED sinceStart
        /\ quiet' = IF quiet < ReadTimeout THEN quiet + 1 ELSE quiet
  /\ UNCHANGED <<req, kept, peer, nReq, opened, why, raw, stale>>

Next == StartConnect \/ StartDonated \/ Step \/ Release \/ CloseKept \/ Peer \/ Clock

Spec == Init /\ [][Next]_vars

\* The exporter keeps stepping the request and the clock goes on.  Nothing is
\* assumed of the peer.
FairSpec == Spec /\ WF_vars(Step) /\ WF_vars(Clock)
-----------------------------------------------------------------------------
(***************************************************************************)
(* Properties                                                              *)
(***************************************************************************)
\* The types of the variables.  Whatever the peer sends, the response buffer
\* holds it and is bounded: by twice OTLP_HTTP_RESP_MAX, since the limit is
\* tested before the last doubling.
TypeOK ==
  /\ state \in {Idle, "CONNECTING", "SENDING", "READING", "DONE", "FAILED"}
  /\ {sock, keepaliveEligible, kept, canWrite, fin, stale} \subseteq BOOLEAN
  /\ reqSent \in 0..ReqLen /\ opened \in Nat
  /\ cap \in 0..2 * RespMax /\ Len(buf) <= cap
  /\ sinceStart \in 0..ConnectTimeout /\ {sinceIo, quiet} \subseteq 0..ReadTimeout
  /\ conn \in {"none", "pending", "up", "reset"} /\ nReq \in 0..MaxRequests
  /\ why \in {"none", "reset", "timeout", "memory", "overflow", "invalid"}

\* Without a transfer coding an answer ends where its Content-Length says, or
\* with the connection.
Plain == ~HasLine(answer.head, "Transfer-Encoding")

Lengths(head) == {head.lines[i].num :
                    i \in {j \in DOMAIN head.lines : head.lines[j].name = "Content-Length"}}

\* A request on a clean connection is DONE only with the answer to it: its
\* status and, of its octets, as many as its Content-Length says, however they
\* were split over reads and whatever the peer sent behind them; a body without
\* length when the peer has closed the connection, and then all there was.  No
\* answer is accepted whose end two readers could place differently: different
\* Content-Lengths, or a length and a transfer coding.
DoneFaithful ==
  state = "DONE" /\ ~stale =>
    /\ status = answer.head.status
    /\ HasLine(answer.head, "Content-Length") => Plain /\ Lengths(answer.head) = {Len(body)}
    /\ Plain => \A k \in DOMAIN body :
                  k <= Len(answer.units) => body[k] = answer.units[k]
    /\ Plain /\ ToEof(answer.head) => fin /\ inbound = <<>> /\ Len(body) = Len(raw) - 1
    /\ Plain /\ ~ToEof(answer.head) => Len(body) <= Len(answer.units)

\* What a request leaves in the socket that is kept is behind the end of its
\* answer, so nothing that the peer announced, and nothing at all of an answer
\* that is as long as announced, is there for the next request to read.
DetachedClean ==
  kept /\ Plain /\ ~stale =>
    \E from \in Lengths(answer.head), i, j \in 0..Len(answer.units) :
      from <= i /\ inbound \o outgoing = SubSeq(answer.units, i + 1, j)

\* The code goes further: "Need exactly content_length bytes after \r\n\r\n.",
\* so that a kept connection has nothing left to read.  Refuted: more will do.
KeptDrained == kept => inbound = <<>> /\ outgoing = <<>>

\* Every open socket has one owner, the request or the exporter: it is neither
\* leaked nor closed twice.
SocketOwned == opened = (IF sock THEN 1 ELSE 0) + (IF kept THEN 1 ELSE 0)

\* The verdict depends on the octets, not on how they were split over reads
\* ("incremental need-more until the terminator").
SplitIndependent ==
  LET rc == try_parse_response(raw, fin /\ inbound = <<>>).rc IN
  /\ state = "READING" /\ ~fin => rc = NeedMore
  /\ state = "DONE" => rc = Complete
  /\ why = "invalid" => rc = Bad \/ (fin /\ rc = NeedMore)

\* The same of answers that have no transfer coding: nothing a partial read
\* leaves in the buffer can turn a good answer into a bad one, be it an answer
\* to this request or what was left in the connection.
RawPlain == raw # <<>> /\ raw[1].kind = "head" => ~HasLine(raw[1].head, "Transfer-Encoding")
PlainSplitIndependent == RawPlain => SplitIndependent

\* The decoder's word of itself, "unread bytes are never clobbered": the body
\* is what the chunks carried, decoded once.  Refuted if the payload looks like
\* framing (Answers <- JustFraming) and comes in two reads.
ChunkedBodyFaithful ==
  state = "DONE" /\ ~Plain /\ ~stale => body = try_parse_response(raw, FALSE).body

\* A request that waits for its answer times out only after the peer was silent
\* for the whole timeout ("a slow-but-steady stream should not time out"), late
\* as the exporter may call step, and never when the answer has arrived.
TimeoutOnlyIfSilent ==
  [][state = "READING" /\ why # "timeout" /\ why' = "timeout" =>
       /\ quiet >= ReadTimeout
       /\ RawPlain => try_parse_response(raw \o inbound, FALSE).rc = NeedMore]_vars

\* Every request comes to an end, whatever the peer does: it never answers,
\* never reads, or never stops sending.
RequestEnds == Active ~> ~Active
============================================================================
