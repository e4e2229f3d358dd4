------------------------------ MODULE OtlpWire ------------------------------
(***************************************************************************)
(* What a collector must find in a request: the reference the encoders are *)
(* checked against.  The octets are walked with the library's own reader,  *)
(* fields are identified by the schema, absent fields have their proto3    *)
(* default.                                                                *)
(***************************************************************************)
EXTENDS OtlpMessages

\* The values of every field of a walked message, in order.
Read(table, w) ==
    [n \in DOMAIN table |->
        FoldLeft(LAMBDA vals, f : IF f.num = table[n].num THEN Append(vals, f.val) ELSE vals,
                 <<>>, w.fields)]

\* The message is well-formed, has no field that the table does not know or
\* knows with another wire type, and repeats none but repeated fields.
Conforms(table, w) ==
    /\ w.ok
    /\ \A i \in DOMAIN w.fields : \E n \in DOMAIN table :
          /\ w.fields[i].num = table[n].num
          /\ w.fields[i].wt = table[n].wt
          /\ table[n].repeated \/ \A j \in DOMAIN w.fields \ {i} :
                                     w.fields[j].num # table[n].num

\* The message has every field that the table says is always emitted.
Complete(table, w) ==
    \A n \in DOMAIN table :
        table[n].always => \E i \in DOMAIN w.fields : w.fields[i].num = table[n].num

\* A message of this table of which Says holds.
Walked(table, w, Says(_)) == Conforms(table, w) /\ Says(Read(table, w))
Means(table, octets, Says(_)) == Walked(table, Walk(octets), Says)

Single(vals, default) == IF vals = <<>> THEN default ELSE vals[1]

AllMatch(vals, items, Match(_, _)) ==
    Len(vals) = Len(items) /\ \A i \in DOMAIN items : Match(vals[i], items[i])

---------------------------------------------------------------------------
VariantOf ==
    [STRING |-> AV_FIELDS.string_value, BOOL |-> AV_FIELDS.bool_value,
     INT64 |-> AV_FIELDS.int_value, DOUBLE |-> AV_FIELDS.double_value,
     BYTES |-> AV_FIELDS.bytes_value, ARRAY |-> AV_FIELDS.array_value,
     KVLIST |-> AV_FIELDS.kvlist_value]

RECURSIVE IsAnyValue(_, _), IsKeyValue(_, _)

\* Exactly one variant, of the type of the attribute, with its value.
IsVariant(w, a) ==
    LET v == w.fields[1].val IN
    /\ Conforms(AV_FIELDS, w)
    /\ Len(w.fields) = 1 /\ w.fields[1].num = VariantOf[a.type].num
    /\ CASE a.type \in {"STRING", "BYTES"} -> v = a.val
         [] a.type \in {"BOOL", "INT64"}   -> v = a.val[1]
         [] a.type = "DOUBLE"              -> v = DoubleOctets(a.val[1])
         [] a.type = "ARRAY"  ->
               Means(AV_ARRAY_FIELDS, v, LAMBDA m : AllMatch(m.values, a.items, IsAnyValue))
         [] a.type = "KVLIST" ->
               Means(KVLIST_FIELDS, v, LAMBDA m : AllMatch(m.values, a.items, IsKeyValue))

IsAnyValue(octets, a) == IsVariant(Walk(octets), a)

IsKeyValue(octets, a) ==
    Means(KV_FIELDS, octets, LAMBDA m :
        /\ m.key = <<OrEmpty(a.key)>>
        /\ Len(m.value) = 1 /\ IsAnyValue(m.value[1], a))

---------------------------------------------------------------------------
\* An event without name, time and attributes is an empty message, which the
\* writer leaves out; so is a log record without contents.
Visible(e) == e.name # <<>> \/ e.time # 0 \/ e.attrs.items # <<>>

IsEvent(octets, e) ==
    Means(EVENT_FIELDS, octets, LAMBDA m :
        /\ Single(m.name, <<>>) = e.name
        /\ Single(m.time_unix_nano, LittleEndian(0, 8)) = LittleEndian(e.time, 8)
        /\ AllMatch(m.attributes, e.attrs.items, IsKeyValue))

IsLink(octets, l) ==
    Means(LINK_FIELDS, octets, LAMBDA m :
        /\ m.trace_id = <<TraceId(l.traceId)>> /\ m.span_id = <<SpanId(l.spanId)>>
        /\ AllMatch(m.attributes, l.attrs.items, IsKeyValue))

IsTime(vals, t) == vals = IF t = NULL THEN <<>> ELSE <<LittleEndian(t, 8)>>

IsSpan(octets, s) ==
    Means(SPAN_FIELDS, octets, LAMBDA m :
        /\ m.trace_id = <<TraceId(s.traceId)>> /\ m.span_id = <<SpanId(s.spanId)>>
        /\ m.parent_span_id = IF s.parent = NULL THEN <<>> ELSE <<SpanId(s.parent)>>
        /\ Single(m.trace_state, <<>>) = OrEmpty(s.traceState)
        /\ Single(m.name, <<>>) = s.name
        /\ Single(m.kind, 0) = s.kind
        /\ IsTime(m.start_time_unix_nano, s.start) /\ IsTime(m.end_time_unix_nano, s.end)
        /\ AllMatch(m.attributes, s.attrs.items, IsKeyValue)
        /\ AllMatch(m.events, SelectSeq(s.events, Visible), IsEvent)
        /\ AllMatch(m.links, s.links, IsLink)
        /\ Means(STATUS_FIELDS, Single(m.status, <<>>), LAMBDA st :
              Single(st.code, 0) = s.code /\ Single(st.message, <<>>) = OrEmpty(s.message))
        /\ Single(m.flags, LittleEndian(0, 4)) = LittleEndian(Bit(s.sampled), 4))

---------------------------------------------------------------------------
\* A time of 0 and one that is not set look the same.
TimeOr0(t) == LittleEndian(IF t = NULL THEN 0 ELSE t, 8)

Zero == LittleEndian(0, 8)

IsExemplar(octets, ex) ==
    Means(EX_FIELDS, octets, LAMBDA m :
        /\ m.as_double = IF ex.type = "DOUBLE" THEN <<DoubleOctets(ex.val)>> ELSE <<>>
        /\ m.as_int = IF ex.type = "INT64" THEN <<LittleEndian(ex.val, 8)>> ELSE <<>>
        /\ m.trace_id = IF ex.traceId = NULL THEN <<>> ELSE <<TraceId(ex.traceId)>>
        /\ m.span_id = IF ex.spanId = NULL THEN <<>> ELSE <<SpanId(ex.spanId)>>
        /\ Single(m.time_unix_nano, Zero) = TimeOr0(ex.time))

\* A packed sequence of 8-octet numbers.
Words(octets) == [i \in 1..Len(octets) \div 8 |-> SubSeq(octets, 8*i - 7, 8*i)]

Total(s) == FoldLeft(LAMBDA n, x : n + x, 0, s)

IsExtreme(vals, m, which) ==
    vals = IF m.minmax = NULL THEN <<>> ELSE <<DoubleOctets(m.minmax[which])>>

\* The bounds, with one counter for each and one more, which add up to the
\* count; a histogram without bounds is sent without its single counter.  The
\* extremes are there once something was recorded.
IsHistogramPoint(m, d) ==
    LET bounds == Words(Single(d.explicit_bounds, <<>>))
        counts == Words(Single(d.bucket_counts, <<>>))
    IN  /\ Single(d.count, Zero) = LittleEndian(m.count, 8)
        /\ d.sum = <<DoubleOctets(m.sum)>>
        /\ bounds = [i \in DOMAIN OrEmpty(m.bounds) |-> DoubleOctets(m.bounds[i])]
        /\ IF bounds = <<>> THEN counts = <<>>
           ELSE /\ Len(counts) = Len(bounds) + 1
                /\ \A i \in DOMAIN counts : counts[i] = LittleEndian(m.buckets[i], 8)
                /\ Total([i \in DOMAIN counts |-> counts[i][1]]) = m.count
        /\ IsExtreme(d.min, m, 1) /\ IsExtreme(d.max, m, 2)
        /\ Len(d.min) = 1 <=> m.count > 0
        /\ AllMatch(d.exemplars, m.exemplars, IsExemplar)

IsBuckets(vals, b) ==
    IF OrEmpty(b.counts) = <<>> THEN vals = <<>>
    ELSE Len(vals) = 1 /\ Means(EHB_FIELDS, vals[1], LAMBDA m :
            /\ Single(m.offset, 0) = zigzag32(b.offset)
            /\ Single(m.bucket_counts, <<>>) = b.counts)    \* below 128: one octet each

\* The exemplars of an exponential histogram are not sent.
IsExpPoint(m, d) ==
    /\ Single(d.count, Zero) = LittleEndian(m.count, 8)
    /\ d.sum = <<DoubleOctets(m.sum)>>
    /\ Single(d.scale, 0) = IF m.scale = NULL THEN 0 ELSE zigzag32(m.scale)
    /\ Single(d.zero_count, Zero) = LittleEndian(m.zero, 8)
    /\ IsBuckets(d.positive, m.pos) /\ IsBuckets(d.negative, m.neg)

\* Metric: its wrapper, its one data point, what the wrapper says of them.
MetricShape ==
    [COUNTER |-> [name |-> "sum", wrapper |-> SUM_FIELDS, point |-> NDP_FIELDS],
     GAUGE |-> [name |-> "gauge", wrapper |-> GAUGE_FIELDS, point |-> NDP_FIELDS],
     HISTOGRAM |-> [name |-> "histogram", wrapper |-> HIST_FIELDS, point |-> HDP_FIELDS],
     EXP_HISTOGRAM |-> [name |-> "exponential_histogram", wrapper |-> EH_FIELDS,
                        point |-> EHDP_FIELDS]]

IsPoint(m, d) ==
    /\ AllMatch(d.attributes, m.attrs.items, IsKeyValue)
    /\ Single(d.start_time_unix_nano, Zero) = TimeOr0(m.start)
    /\ Single(d.time_unix_nano, Zero) = TimeOr0(m.time)
    /\ CASE m.type = "HISTOGRAM" -> IsHistogramPoint(m, d)
         [] m.type = "EXP_HISTOGRAM" -> IsExpPoint(m, d)
         [] OTHER -> /\ d.as_double = <<DoubleOctets(m.value)>>
                     /\ AllMatch(d.exemplars, m.exemplars, IsExemplar)

IsMetricOf(shape, octets, m) ==
    Means(METRIC_FIELDS, octets, LAMBDA top :
        /\ Single(top.name, <<>>) = m.name
        /\ Single(top.unit, <<>>) = m.unit
        /\ Single(top.description, <<>>) = m.description
        /\ \A n \in {"sum", "gauge", "histogram", "exponential_histogram"} :
              Len(top[n]) = Bit(n = shape.name)
        /\ Means(shape.wrapper, top[shape.name][1], LAMBDA wrap :
              /\ m.type # "GAUGE" => wrap.aggregation_temporality = <<m.temporality>>
              /\ m.type = "COUNTER" => Single(wrap.is_monotonic, 0) = Bit(m.monotonic)
              /\ Len(wrap.data_points) = 1
              /\ Means(shape.point, wrap.data_points[1], LAMBDA d : IsPoint(m, d))))

IsMetric(octets, m) == IsMetricOf(MetricShape[m.type], octets, m)

---------------------------------------------------------------------------
VisibleLog(l) ==
    \/ OrEmpty(l.body) # <<>> \/ OrEmpty(l.text) # <<>> \/ l.severity # 0
    \/ l.time \notin {NULL, 0} \/ l.traceId # NULL \/ l.spanId # NULL
    \/ l.attrs.items # <<>>

IsLog(octets, l) ==
    Means(LOG_FIELDS, octets, LAMBDA m :
        /\ Single(m.time_unix_nano, Zero) = TimeOr0(l.time)
        /\ Single(m.severity_number, 0) = l.severity
        /\ Single(m.severity_text, <<>>) = OrEmpty(l.text)
        /\ IF OrEmpty(l.body) = <<>> THEN m.body = <<>>
           ELSE Len(m.body) = 1 /\ IsAnyValue(m.body[1], [NoAttr EXCEPT !.val = l.body])
        /\ AllMatch(m.attributes, l.attrs.items, IsKeyValue)
        /\ m.trace_id = IF l.traceId = NULL THEN <<>> ELSE <<TraceId(l.traceId)>>
        /\ m.span_id = IF l.spanId = NULL THEN <<>> ELSE <<SpanId(l.spanId)>>)

---------------------------------------------------------------------------
\* The service name, then the attributes that have a key.
ResourceAttrs(res) ==
    (IF OrEmpty(res.service) = <<>> THEN <<>>
     ELSE <<[NoAttr EXCEPT !.key = res.serviceKey, !.val = res.service]>>)
    \o SelectSeq(res.attrs, LAMBDA a : OrEmpty(a.key) # <<>>)

IsScope(octets, res) ==
    Means(IS_FIELDS, octets, LAMBDA m :
        /\ Single(m.name, <<>>) = OrEmpty(res.scope)
        /\ Single(m.version, <<>>) = OrEmpty(res.version))

\* A request: one resource with one scope with the items.
IsRequest(octets, top, topName, rs, scopesName, ss, itemsName, res, items, Match(_, _)) ==
    IF octets = <<>> THEN items = <<>> /\ ResourceAttrs(res) = <<>>
    ELSE Means(top, octets, LAMBDA t :
            /\ Len(t[topName]) = 1
            /\ Means(rs, t[topName][1], LAMBDA r :
                  /\ Single(r.schema_url, <<>>) = OrEmpty(res.schemaUrl)
                  /\ Means(R_FIELDS, Single(r.resource, <<>>), LAMBDA m :
                        AllMatch(m.attributes, ResourceAttrs(res), IsKeyValue))
                  /\ Len(r[scopesName]) <= 1
                  /\ Means(ss, Single(r[scopesName], <<>>), LAMBDA m :
                        /\ IsScope(Single(m.scope, <<>>), res)
                        /\ AllMatch(m[itemsName], items, Match))))

IsSpansRequest(octets, res, spans) ==
    IsRequest(octets, ETSR_FIELDS, "resource_spans", RS_FIELDS, "scope_spans",
              SS_FIELDS, "spans", res, spans, IsSpan)

IsMetricsRequest(octets, res, metrics) ==
    IsRequest(octets, EMSR_FIELDS, "resource_metrics", RM_FIELDS, "scope_metrics",
              SM_FIELDS, "metrics", res, metrics, IsMetric)

IsLogsRequest(octets, res, logs) ==
    IsRequest(octets, ELSR_FIELDS, "resource_logs", RL_FIELDS, "scope_logs",
              SL_FIELDS, "log_records", res, SelectSeq(logs, VisibleLog), IsLog)
=============================================================================
