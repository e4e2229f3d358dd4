---------------------------- MODULE MetricObject ----------------------------
(***************************************************************************)
(* The metric of src/metric.c, in the style of SpanObject.  The buckets of *)
(* an exponential histogram are a pointer and a length that the code keeps *)
(* apart; measured values are integers.                                    *)
(***************************************************************************)
EXTENDS AttrVec

CONSTANT MaxMetricAttrs      \* OTLP_METRIC_MAX_ATTRS (128)

MetricTypes == {"COUNTER", "GAUGE", "HISTOGRAM", "EXP_HISTOGRAM"}

Buckets == [offset : Int, counts : Opt(Text), n : Nat]

Exemplar == [type : {"DOUBLE", "INT64", "NONE"}, val : Int, traceId : Opt(Int),
             spanId : Opt(Int), time : Opt(Int)]

Metric == [type : MetricTypes, name : Opt(Text), unit : Opt(Text), description : Opt(Text),
           temporality : Int, monotonic : BOOLEAN, start : Opt(Int), time : Opt(Int),
           value : Int, count : Int, sum : Int, minmax : Opt(Int \X Int),
           bounds : Opt(Text), buckets : Opt(Text),
           scale : Opt(Int), zero : Int, pos : Buckets, neg : Buckets,
           attrs : Vec, exemplars : Seq(Exemplar), capExemplars : Nat]

ASSUME MetricAssumption == MaxMetricAttrs \in Nat /\ NULL \notin Metric

NoBuckets == [offset |-> 0, counts |-> NULL, n |-> 0]

NoMetric == [type |-> "COUNTER", name |-> NULL, unit |-> NULL, description |-> NULL,
             temporality |-> 2, monotonic |-> TRUE, start |-> NULL, time |-> NULL,
             value |-> 0, count |-> 0, sum |-> 0, minmax |-> NULL,
             bounds |-> NULL, buckets |-> NULL,
             scale |-> NULL, zero |-> 0, pos |-> NoBuckets, neg |-> NoBuckets,
             attrs |-> NoVec, exemplars |-> <<>>, capExemplars |-> 0]

otlp_metric_free(h, m) ==
    LET Owned(p) == Bit(p # NULL)
        g == otlp_free(h, Owned(m.name) + Owned(m.unit) + Owned(m.description)
                          + Owned(m.bounds) + Owned(m.buckets)
                          + Owned(m.pos.counts) + Owned(m.neg.counts))
    IN  otlp_free(otlp_attr_vec_free(g, m.attrs), Bit(m.capExemplars > 0) + 1)

\* Name, unit and description: all three copied, then all three looked at.
DupTexts(h, m, name, unit, description) ==
    LET n == otlp_dup_str(h, name)
        u == otlp_dup_str(n.h, unit)
        d == otlp_dup_str(u.h, description)
    IN  Result(d.h, IF {n.st, u.st, d.st} = {"OK"} THEN "OK" ELSE "NOMEM",
               [m EXCEPT !.name = n.o, !.unit = u.o, !.description = d.o])

\* Bounds and one counter more than there are bounds, likewise.
DupBuckets(h, m, bounds, buckets) ==
    LET b == otlp_dup_str(h, bounds)
        c == otlp_dup_str(b.h, buckets)
    IN  Result(c.h, IF b.st = "OK" /\ c.st = "OK" THEN "OK" ELSE "NOMEM",
               [m EXCEPT !.bounds = b.o, !.buckets = c.o])

OrFreed(r) ==
    IF r.st = "OK" THEN r ELSE Result(otlp_metric_free(r.h, r.o), "NULL", NULL)

otlp_metric_create(h, type, name, unit, description, bounds) ==
    LET g == otlp_malloc(h)
        m == [NoMetric EXCEPT !.type = type]
        text == DupTexts(g, m, OrEmpty(name), OrEmpty(unit), OrEmpty(description))
    IN  IF type \notin MetricTypes THEN Result(h, "NULL", NULL)
        ELSE IF ~CanAlloc(h) THEN Result(g, "NULL", NULL)
        ELSE IF \E s \in {name, unit, description} : ~otlp_str_is_utf8(s)
             THEN Result(otlp_free(g, 1), "NULL", NULL)
        ELSE OrFreed(
               IF text.st # "OK" \/ type # "HISTOGRAM" \/ OrEmpty(bounds) = <<>> THEN text
               ELSE DupBuckets(text.h, text.o, bounds, [i \in 1..Len(bounds) + 1 |-> 0]))

Widen(minmax, v) ==
    IF minmax = NULL THEN <<v, v>>
    ELSE <<Lesser(minmax[1], v), IF v > minmax[2] THEN v ELSE minmax[2]>>

\* The first bound that is not below v, or the place after all of them.
BucketOf(bounds, v) ==
    CHOOSE i \in 1..Len(bounds) + 1 :
        /\ i <= Len(bounds) => v <= bounds[i]
        /\ \A j \in 1..i-1 : v > bounds[j]

\* Without bounds there is one bucket, made at the first record; count, sum
\* and extremes are updated before that can fail.
RecordHistogram(h, m, v) ==
    LET d == [m EXCEPT !.count = @ + 1, !.sum = @ + v, !.minmax = Widen(@, v)] IN
    IF m.bounds # NULL
    THEN Result(h, "OK", [d EXCEPT !.buckets[BucketOf(m.bounds, v)] = @ + 1])
    ELSE IF m.buckets # NULL THEN Result(h, "OK", [d EXCEPT !.buckets[1] = @ + 1])
    ELSE IF CanAlloc(h) THEN Result(otlp_malloc(h), "OK", [d EXCEPT !.buckets = <<1>>])
    ELSE Result(otlp_malloc(h), "NOMEM", d)

otlp_metric_record(h, m, v) ==
    CASE m.type = "COUNTER"   -> Result(h, "OK", [m EXCEPT !.value = @ + v])
      [] m.type = "GAUGE"     -> Result(h, "OK", [m EXCEPT !.value = v])
      [] m.type = "HISTOGRAM" -> RecordHistogram(h, m, v)
      [] OTHER -> Result(h, "OK", [m EXCEPT !.count = @ + 1, !.sum = @ + v,
                                            !.zero = @ + Bit(v = 0)])

otlp_metric_set_time(h, m, which, t) == Result(h, "OK", [m EXCEPT ![which] = t])

otlp_metric_set_attribute(h, m, key, v) ==
    Into(SetAny(h, m.attrs, MaxMetricAttrs, key, v), LAMBDA vec : [m EXCEPT !.attrs = vec])

\* One side of an exponential histogram: the offset is set and the old
\* counters are freed before the new ones are asked for; the length is set
\* only after that.
SetBuckets(h, b, offset, counts) ==
    LET g == otlp_free(h, Bit(b.counts # NULL))
        n == otlp_malloc(g)
    IN  IF OrEmpty(counts) = <<>> THEN Result(h, "OK", b)
        ELSE IF CanAlloc(g)
        THEN Result(n, "OK", [offset |-> offset, counts |-> counts, n |-> Len(counts)])
        ELSE Result(n, "NOMEM", [b EXCEPT !.offset = offset, !.counts = NULL])

otlp_metric_set_exp_histogram(h, m, scale, offset, posCounts, negCounts) ==
    LET p == SetBuckets(h, m.pos, offset, posCounts)
        d == [m EXCEPT !.scale = scale, !.pos = p.o]
        n == SetBuckets(p.h, m.neg, offset, negCounts)
    IN  IF m.type # "EXP_HISTOGRAM" THEN Result(h, "INVALID_ARGUMENT", m)
        ELSE IF p.st # "OK" THEN Result(p.h, p.st, d)
        ELSE Result(n.h, n.st, [d EXCEPT !.neg = n.o])

otlp_metric_set_aggregation_temporality(h, m, t) ==
    IF t \notin {1, 2} THEN Result(h, "INVALID_ARGUMENT", m)
    ELSE Result(h, "OK", [m EXCEPT !.temporality = t])

otlp_metric_set_monotonic(h, m, b) == Result(h, "OK", [m EXCEPT !.monotonic = b])

(* Exemplars: a value that is a double or an int, optional identifiers and *)
(* time.                                                                   *)

NoExemplar == [type |-> "NONE", val |-> 0, traceId |-> NULL, spanId |-> NULL, time |-> NULL]

otlp_exemplar_create(h) ==
    Result(otlp_malloc(h), IF CanAlloc(h) THEN "OK" ELSE "NULL", NoExemplar)

otlp_exemplar_free(h) == otlp_free(h, 1)

otlp_exemplar_set_value(h, ex, type, v) ==
    Result(h, "OK", [ex EXCEPT !.type = type, !.val = v])

otlp_exemplar_set_timestamp(h, ex, t) == Result(h, "OK", [ex EXCEPT !.time = t])

\* The trace identifier stays set when the span identifier is refused.
otlp_exemplar_set_trace_context(h, ex, traceId, spanId) ==
    LET d == IF traceId = NULL THEN ex ELSE [ex EXCEPT !.traceId = traceId] IN
    IF traceId = 0 THEN Result(h, "INVALID_ARGUMENT", ex)
    ELSE IF spanId = 0 THEN Result(h, "INVALID_ARGUMENT", d)
    ELSE Result(h, "OK", IF spanId = NULL THEN d ELSE [d EXCEPT !.spanId = spanId])

otlp_metric_add_exemplar(h, m, ex) ==
    LET full == Len(m.exemplars) = m.capExemplars
        g    == IF full THEN otlp_realloc(h, m.capExemplars > 0) ELSE h
        cap  == IF ~full THEN m.capExemplars
                ELSE IF m.capExemplars = 0 THEN FirstCap ELSE 2 * m.capExemplars
    IN  IF ex.type = "NONE" THEN Result(h, "INVALID_ARGUMENT", m)
        ELSE IF full /\ ~CanAlloc(h) THEN Result(g, "NOMEM", m)
        ELSE Result(g, "OK", [m EXCEPT !.exemplars = Append(@, ex), !.capExemplars = cap])

---------------------------------------------------------------------------
(* otlp_metric_clone, step by step *)

\* The array holds exactly the elements there are.
CloneExemplars(r, src) ==
    IF r.st # "OK" \/ src.exemplars = <<>> THEN r
    ELSE IF CanAlloc(r.h)
    THEN Result(otlp_malloc(r.h), "OK", [r.o EXCEPT !.exemplars = src.exemplars,
                                                !.capExemplars = Len(src.exemplars)])
    ELSE Result(otlp_malloc(r.h), "NOMEM", r.o)

\* Buckets are copied together with bounds: the single bucket of a histogram
\* without bounds is not.
CloneBuckets(r, src) ==
    IF r.st # "OK" \/ src.bounds = NULL THEN r
    ELSE DupBuckets(r.h, r.o, src.bounds, src.buckets)

CloneSide(r, which, b) ==
    LET e == [r.o EXCEPT ![which].offset = b.offset] IN
    IF r.st # "OK" THEN r
    ELSE IF b.n = 0 \/ b.counts = NULL THEN Result(r.h, "OK", e)
    ELSE IF CanAlloc(r.h) THEN Result(otlp_malloc(r.h), "OK", [r.o EXCEPT ![which] = b])
    ELSE Result(otlp_malloc(r.h), "NOMEM", e)

otlp_metric_clone(h, src) ==
    LET flat == [src EXCEPT !.name = NULL, !.unit = NULL, !.description = NULL,
                            !.bounds = NULL, !.buckets = NULL,
                            !.pos = NoBuckets, !.neg = NoBuckets, !.attrs = NoVec,
                            !.exemplars = <<>>, !.capExemplars = 0]
        text == DupTexts(otlp_malloc(h), flat, src.name, src.unit, src.description)
        vec  == otlp_attr_vec_copy(text.h, src.attrs)
        attr == IF text.st # "OK" THEN text
                ELSE Result(vec.h, vec.st, [text.o EXCEPT !.attrs = vec.o])
        hist == CloneBuckets(CloneExemplars(attr, src), src)
    IN  IF ~CanAlloc(h) THEN Result(otlp_malloc(h), "NULL", NULL)
        ELSE OrFreed(CloneSide(CloneSide(hist, "pos", src.pos), "neg", src.neg))
=============================================================================
