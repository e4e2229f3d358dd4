-------------------------- MODULE TelemetryObjects --------------------------
(***************************************************************************)
(* A caller works on one object and its clone (ObjectCalls) and exports    *)
(* them, while any allocation of the export may fail too.                  *)
(*                                                                         *)
(* Export is the request builder of src/exporter_otel.c up to the octets   *)
(* it hands to the HTTP client, and what the exporter reads from the       *)
(* collector's answer.                                                     *)
(***************************************************************************)
EXTENDS ObjectCalls, OtlpWire, PartialSuccess

CONSTANTS
    Resources,      \* what the exporter adds to a request
    Answers,        \* what the collector rejects, with a text and other fields
    RequestCap      \* initial capacity of the request's buffer

VARIABLE
    wire            \* the request or the answer at hand, or NULL

vars == <<callVars, wire>>

Init == CallsInit /\ wire = NULL

\* The caller's calls, while no request is on its way.
Call == wire = NULL /\ CallsNext /\ UNCHANGED wire

---------------------------------------------------------------------------
(* Export *)

EncodeRequest(res, items) ==
    CASE kind = "span" -> otlp_encode_export_trace_service_request(res, items)
      [] kind = "metric" -> otlp_encode_export_metrics_service_request(res, items)
      [] kind = "log" -> otlp_encode_export_logs_service_request(res, items)

\* The buffer is freed whether or not the request could be encoded.
BuildRequest(h, res, items) ==
    LET Freed(r) == [r EXCEPT !.h = otlp_pb_buf_free(r.h, r.o)] IN
    Freed(AndThen(otlp_pb_buf_init(h, RequestCap), LAMBDA g, b :
              Emit(g, b, EncodeRequest(res, items))))

NoResource == [service |-> NULL, serviceKey |-> NULL, attrs |-> <<>>, schemaUrl |-> NULL,
               scope |-> NULL, version |-> NULL]

Batch == SelectSeq(<<obj, copy>>, LAMBDA o : o # NULL)

Export ==
    /\ wire = NULL
    /\ \E res \in Resources \cup (IF Batch = <<>> THEN {NoResource} ELSE {}) :
       \E r \in {BuildRequest(Heap(live, fails), res, Batch) :
                    fails \in OneFault(LAMBDA h : BuildRequest(h, res, Batch))} :
          /\ live' = r.h.live
          /\ wire' = IF r.st # "OK" THEN NULL
                     ELSE [what |-> "request", octets |-> r.o.octets, res |-> res, items |-> Batch]
    /\ UNCHANGED <<kind, obj, copy, changes, spoiled>>

\* What a collector writes, whole: other fields, then the PartialSuccess with
\* other fields inside.
AnswerOctets(a) ==
    LET number == IF a.rejected = 0 THEN <<>>
                  ELSE Scalar(EPS_FIELDS.rejected_spans, VARINT, Varint(a.rejected))
        text   == otlp_pb_field_string(EPS_FIELDS.error_message, a.message)
    IN  Emit(Heap(0, {}), NewBuf,
             Message(EXPSR_FIELDS.partial_success, a.inside \o number \o text) \o a.after).o.octets

\* The collector takes the request and answers; n octets of the body arrive.
\* The answer does not depend on the request: the first requests are enough.
Answered ==
    /\ wire # NULL /\ wire.what = "request" /\ copy = NULL /\ changes = 0
    /\ \E a \in Answers : \E body \in {AnswerOctets(a)} : \E n \in 0..Len(body) :
          wire' = [what |-> "answer", sent |-> a, whole |-> n = Len(body),
                   told |-> otlp_exporter_report_partial_success(SubSeq(body, 1, n))]
    /\ UNCHANGED <<kind, obj, copy, live, changes, spoiled>>

\* The batch is settled.
Settled ==
    /\ wire # NULL /\ wire' = NULL
    /\ UNCHANGED <<kind, obj, copy, live, changes, spoiled>>

Next == Call \/ Export \/ Answered \/ Settled

Spec == Init /\ [][Next]_vars

---------------------------------------------------------------------------
\* A clone is exported as its original is.
CloneFaithful ==
    [][copy = NULL /\ copy' # NULL =>
         EncodeRequest(NoResource, <<copy'>>) = EncodeRequest(NoResource, <<obj>>)]_vars

\* The request says what the objects hold: a reader of the octets finds every
\* item, in well-formed messages with the numbers and wire types of the schema
\* and nothing else in them.  It finds the value of everything that was set, or
\* its absence where the value is the proto3 default.  Not sent, and so not
\* asked for: events and log records that hold nothing, resource attributes
\* without a key, the counter of a histogram without bounds, and the exemplars
\* of an exponential histogram (metric.h offers them for the other types), nor
\* a default that the table says is always emitted (SpansComplete).
RequestFaithful ==
    wire # NULL /\ wire.what = "request" =>
        CASE kind = "span" -> IsSpansRequest(wire.octets, wire.res, wire.items)
          [] kind = "metric" -> IsMetricsRequest(wire.octets, wire.res, wire.items)
          [] kind = "log" -> IsLogsRequest(wire.octets, wire.res, wire.items)

\* The exporter tells of an answer what the collector put in it, whatever other
\* fields it holds (decode_partial_success_sub skips them); of an answer that
\* was cut short, that or nothing.  The other fields have numbers below 2^32:
\* with MCWideAnswers it is refuted, since otlp_pb_read_key cuts the number.
AnswerFaithful ==
    wire # NULL /\ wire.what = "answer" =>
        LET said == [rejected |-> IF wire.sent.rejected > 0 THEN wire.sent.rejected ELSE 0,
                     message |-> wire.sent.message]
        IN  wire.told = said \/ (~wire.whole /\ wire.told = Nothing)

\* What is posted says what the objects hold, and what is told of an answer is
\* what it says.
WireFaithful == RequestFaithful /\ AnswerFaithful

\* What the table says of a span: trace and span identifier, start and end
\* time are always emitted (OTLP_PRESENCE_ALWAYS_EMIT in otlp_schema.h).  The
\* encoder leaves out a time that was not set, so this is refuted.
SpansComplete ==
    wire # NULL /\ wire.what = "request" /\ kind = "span" =>
        IsRequest(wire.octets, ETSR_FIELDS, "resource_spans", RS_FIELDS, "scope_spans",
                  SS_FIELDS, "spans", wire.res, wire.items,
                  LAMBDA octets, s : Complete(SPAN_FIELDS, Walk(octets)))
=============================================================================
