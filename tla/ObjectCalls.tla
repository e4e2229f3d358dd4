---------------------------- MODULE ObjectCalls -----------------------------
(***************************************************************************)
(* A caller works on one span, metric or log record through the public     *)
(* interface and clones it, while any allocation of any call may fail.     *)
(*                                                                         *)
(* One action is one call: a function of the heap and the object           *)
(* (SpanObject, MetricObject, LogObject) applied to the state.             *)
(***************************************************************************)
EXTENDS SpanObject, MetricObject, LogObject

CONSTANTS
    Kinds,          \* subset of {"span", "metric", "log"}
    Texts,          \* strings, NULL and invalid UTF-8 among them
    Attributes,     \* pairs of a key and an attribute value
    Ids, Times,     \* identifiers and times, NULL and 0 among them
    Measured,       \* values recorded
    BoundLists,     \* bounds of a histogram
    BucketLists,    \* counters of an exponential histogram
    SubAttributes,  \* the pairs used for events, links and metrics
    MaxChanges,     \* bound: calls that change an object, for each kind
    MaxPlain        \* bound: setters of plain fields, which do not affect the
                    \* others, are only called before the MaxPlain-th change

ASSUME CallsAssumption ==
    /\ Kinds \subseteq {"span", "metric", "log"}
    /\ Texts \subseteq Opt(Text)
    /\ \A a \in Attributes \cup SubAttributes : a[1] \in Opt(Text) /\ IsValue(a[2])
    /\ Ids \cup Times \subseteq Opt(Int) /\ Times \ {NULL, 0} # {}
    /\ Measured \subseteq Int
    /\ BoundLists \cup BucketLists \subseteq Opt(Text)

VARIABLES
    kind,           \* what the caller works on
    obj, copy,      \* the object and its clone, or NULL
    live,           \* blocks in use
    \* history
    changes,        \* calls that changed the object
    spoiled         \* calls that failed and left the object changed

callVars == <<kind, obj, copy, live, changes, spoiled>>

CallsInit ==
    /\ kind \in Kinds
    /\ obj = NULL /\ copy = NULL /\ live = 0
    /\ changes = 0 /\ spoiled = {}

---------------------------------------------------------------------------
(* What an object holds, capacities aside. *)

HeldBy(x) == [f \in DOMAIN x |-> IF f = "attrs" THEN x.attrs.items ELSE x[f]]

Held(o) ==
    [f \in DOMAIN o \ {"capEvents", "capLinks", "capExemplars"} |->
        CASE f = "attrs" -> o.attrs.items
          [] f \in {"events", "links"} -> [i \in DOMAIN o[f] |-> HeldBy(o[f][i])]
          [] OTHER -> o[f]]

FreeObject(h, o) ==
    CASE kind = "span" -> otlp_span_free(h, o)
      [] kind = "metric" -> otlp_metric_free(h, o)
      [] kind = "log" -> otlp_log_record_free(h, o)

CloneObject(h, o) ==
    CASE kind = "span" -> otlp_span_clone(h, o)
      [] kind = "metric" -> otlp_metric_clone(h, o)
      [] kind = "log" -> otlp_log_record_clone(h, o)

---------------------------------------------------------------------------
(* Calls *)

\* What may go wrong in a call: nothing, or one of the allocations it makes.
OneFault(R(_)) == {{}} \cup {{k} : k \in 1..R(Heap(live, {})).h.made}

\* The calls that go on after an allocation has failed: also all from one on.
Faults(R(_)) ==
    LET made == R(Heap(live, {})).h.made IN OneFault(R) \cup {k..made : k \in 1..made}

\* A call that makes the object.
Creates(R(_)) ==
    /\ obj = NULL /\ changes = 0
    /\ \E r \in {R(Heap(live, fails)) : fails \in Faults(R)} :
          obj' = r.o /\ live' = r.h.live
    /\ UNCHANGED <<kind, copy, changes, spoiled>>

\* A call on the object, under its name.  Object and clone share nothing, so
\* calls are only made while there is no clone.
Calls(op, R(_)) ==
    /\ obj # NULL /\ copy = NULL
    /\ \E r \in {R(Heap(live, fails)) : fails \in OneFault(R)} :
          /\ obj' = r.o /\ live' = r.h.live
          /\ changes' = changes + Bit(r.o # obj) /\ changes' <= MaxChanges[kind]
          /\ spoiled' = IF r.st # "OK" /\ Held(r.o) # Held(obj)
                        THEN spoiled \cup {op} ELSE spoiled
    /\ UNCHANGED <<kind, copy>>

SpanCreate == kind = "span" /\ \E n \in Texts : Creates(LAMBDA h : otlp_span_create(h, n))

SpanSetId ==
    /\ kind = "span" /\ changes < MaxPlain
    /\ \E which \in {"traceId", "spanId", "parent"}, id \in Ids :
          Calls("set_id", LAMBDA h : otlp_span_set_id(h, obj, which, id))

SpanSetPlain ==
    /\ kind = "span" /\ changes < MaxPlain
    /\ \/ \E which \in {"start", "end"}, t \in Times \ {NULL} :
             Calls("set_time", LAMBDA h : otlp_span_set_time(h, obj, which, t))
       \/ \E k \in {0, 2} : Calls("set_kind", LAMBDA h : otlp_span_set_kind(h, obj, k))
       \/ Calls("set_sampled", LAMBDA h : otlp_span_set_sampled(h, obj, FALSE))

SpanSetText ==
    /\ kind = "span" /\ changes < MaxPlain
    /\ \E t \in Texts :
          \/ Calls("set_name", LAMBDA h : otlp_span_set_name(h, obj, t))
          \/ \E c \in {0, 2} : Calls("set_status", LAMBDA h : otlp_span_set_status(h, obj, c, t))
          \/ Calls("set_trace_state", LAMBDA h : otlp_span_set_trace_state(h, obj, t))

\* One time is enough for events and exemplars.
SomeTime == CHOOSE t \in Times : t \notin {NULL, 0}

SpanAdd ==
    /\ kind = "span"
    /\ \/ \E n \in Texts :
             Calls("add_event", LAMBDA h : otlp_span_add_event(h, obj, n, SomeTime))
       \/ \E id \in Ids : Calls("add_link", LAMBDA h : otlp_span_add_link(h, obj, id, id))

SpanSetAttribute ==
    /\ kind = "span"
    /\ \/ \E a \in Attributes :
             Calls("set_attribute", LAMBDA h : otlp_span_set_attribute(h, obj, a[1], a[2]))
       \/ \E a \in SubAttributes :
          \/ Calls("set_event_attribute", LAMBDA h : otlp_span_set_event_attribute(h, obj, a[1], a[2]))
          \/ Calls("set_link_attribute", LAMBDA h : otlp_span_set_link_attribute(h, obj, a[1], a[2]))

MetricCreate ==
    /\ kind = "metric"
    /\ \E type \in MetricTypes, n \in Texts, bounds \in BoundLists :
          Creates(LAMBDA h : otlp_metric_create(h, type, n, n, n, bounds))

MetricRecord ==
    /\ kind = "metric"
    /\ \E v \in Measured : Calls("record", LAMBDA h : otlp_metric_record(h, obj, v))

MetricSetPlain ==
    /\ kind = "metric" /\ changes < MaxPlain
    /\ \/ \E which \in {"start", "time"}, t \in Times \ {NULL} :
             Calls("set_time", LAMBDA h : otlp_metric_set_time(h, obj, which, t))
       \/ \E t \in 0..2 :
             Calls("set_temporality", LAMBDA h :
                 otlp_metric_set_aggregation_temporality(h, obj, t))
       \/ Calls("set_monotonic", LAMBDA h : otlp_metric_set_monotonic(h, obj, FALSE))

MetricSetExpHistogram ==
    /\ kind = "metric"
    /\ \E p, n \in BucketLists, offset \in {-1, 0} :
          Calls("set_exp_histogram", LAMBDA h :
              otlp_metric_set_exp_histogram(h, obj, offset, offset, p, n))

\* An exemplar is made, filled, added (copied) and freed.
MetricAddExemplar ==
    /\ kind = "metric"
    /\ \E type \in {"DOUBLE", "INT64", "NONE"}, id \in Ids :
          Calls("add_exemplar", LAMBDA h :
              LET made  == otlp_exemplar_create(h)
                  given == otlp_exemplar_set_value(made.h, made.o, type, SomeTime).o
                  ids   == otlp_exemplar_set_trace_context(made.h, given, id, id).o
                  timed == otlp_exemplar_set_timestamp(made.h, ids, SomeTime).o
                  r     == otlp_metric_add_exemplar(made.h, obj, timed)
              IN  IF made.st # "OK" THEN Result(made.h, "NULL", obj)
                  ELSE [r EXCEPT !.h = otlp_exemplar_free(r.h)])

MetricSetAttribute ==
    /\ kind = "metric"
    /\ \E a \in SubAttributes :
          Calls("set_attribute", LAMBDA h : otlp_metric_set_attribute(h, obj, a[1], a[2]))

LogCreate ==
    /\ kind = "log"
    /\ \E sev \in {0, 9}, b \in Texts : Creates(LAMBDA h : otlp_log_record_create(h, sev, b))

LogSet ==
    /\ kind = "log" /\ changes < MaxPlain
    /\ \/ \E t \in Times \ {NULL} :
             Calls("set_timestamp", LAMBDA h : otlp_log_record_set_timestamp(h, obj, t))
       \/ \E which \in {"traceId", "spanId"}, id \in Ids :
             Calls("set_id", LAMBDA h : otlp_log_record_set_id(h, obj, which, id))
       \/ \E t \in Texts :
             Calls("set_severity_text", LAMBDA h : otlp_log_record_set_severity_text(h, obj, t))

LogSetAttribute ==
    /\ kind = "log"
    /\ \E a \in Attributes :
          Calls("set_attribute", LAMBDA h : otlp_log_record_set_attribute(h, obj, a[1], a[2]))

---------------------------------------------------------------------------
(* Clone and free *)

Clone ==
    /\ obj # NULL /\ copy = NULL
    /\ \E r \in {CloneObject(Heap(live, fails), obj) :
                    fails \in Faults(LAMBDA h : CloneObject(h, obj))} :
          copy' = r.o /\ live' = r.h.live
    /\ UNCHANGED <<kind, obj, changes, spoiled>>

FreeCopy ==
    /\ copy # NULL
    /\ live' = FreeObject(Heap(live, {}), copy).live /\ copy' = NULL
    /\ UNCHANGED <<kind, obj, changes, spoiled>>

Free ==
    /\ obj # NULL /\ copy = NULL
    /\ live' = FreeObject(Heap(live, {}), obj).live /\ obj' = NULL
    /\ UNCHANGED <<kind, copy, changes, spoiled>>

CallsNext ==
    \/ SpanCreate \/ SpanSetId \/ SpanSetPlain \/ SpanSetText \/ SpanAdd \/ SpanSetAttribute
    \/ MetricCreate \/ MetricRecord \/ MetricSetPlain \/ MetricSetExpHistogram
    \/ MetricAddExemplar \/ MetricSetAttribute
    \/ LogCreate \/ LogSet \/ LogSetAttribute
    \/ Clone \/ FreeCopy \/ Free

CallsSpec == CallsInit /\ [][CallsNext]_callVars

---------------------------------------------------------------------------
Vecs(o) ==
    {<<o.attrs, CASE kind = "span" -> MaxAttrs
                  [] kind = "metric" -> MaxMetricAttrs
                  [] kind = "log" -> MaxLogAttrs>>}
    \cup (IF kind # "span" THEN {}
          ELSE {<<e.attrs, MaxEventAttrs>> : e \in Range(o.events)}
               \cup {<<l.attrs, MaxLinkAttrs>> : l \in Range(o.links)})

\* Attribute vectors stay within their capacity and the capacity within the
\* limit, and no key occurs twice, whatever calls failed on the way
\* (otlp_attr_vec_reserve).
VecsOK ==
    \A o \in {obj, copy} \ {NULL} : \A p \in Vecs(o) :
        /\ Len(p[1].items) <= p[1].cap /\ p[1].cap <= p[2]
        /\ \A i, j \in DOMAIN p[1].items :
              p[1].items[i].key = p[1].items[j].key => i = j

\* What the caller holds, by kind.
Objects ==
    CASE kind = "span" -> Span [] kind = "metric" -> Metric [] kind = "log" -> Log

CallsTypeOK ==
    /\ kind \in Kinds
    /\ obj \in Opt(Objects) /\ copy \in Opt(Objects)
    /\ live \in Int

\* Nothing leaks and nothing is freed twice: whatever calls were made and
\* whatever allocations failed, what the free functions give back for the
\* objects the caller holds is exactly what is in use.
HeapExact ==
    LET After(h, o) == IF o = NULL THEN h ELSE FreeObject(h, o) IN
    After(After(Heap(live, {}), obj), copy).live = 0

\* A call that fails leaves the object as it was, except for the three that
\* are known not to: set_exp_histogram and set_severity_text free the old
\* value before they have the new one, and a record into a histogram without
\* bounds counts before it has the bucket.
FailureAtomic == spoiled \subseteq {"set_exp_histogram", "set_severity_text", "record"}
=============================================================================
