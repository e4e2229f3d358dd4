---------------------------- MODULE OtlpMessages ----------------------------
(***************************************************************************)
(* The encoders of src/otlp_messages.c, src/otlp_metrics_encoder.c and     *)
(* src/otlp_logs_encoder.c: for every message the fields they emit, in     *)
(* order.  An identifier is a number in an array of octets; attributes,    *)
(* spans, metrics and log records are those of AttrVec, SpanObject,        *)
(* MetricObject and LogObject.                                             *)
(***************************************************************************)
EXTENDS OtlpSchema

Id(n, len) == [i \in 1..len |-> IF i = len THEN n ELSE 0]

TraceId(n) == Id(n, 16)
SpanId(n) == Id(n, 8)

\* The fields of all elements, one after the other.
Each(s, F(_)) == FoldLeft(LAMBDA done, x : done \o F(x), <<>>, s)

IfSet(x, F(_)) == IF x = NULL THEN <<>> ELSE F(x)

---------------------------------------------------------------------------
(* Attributes *)

RECURSIVE otlp_encode_any_value(_)

\* The variant is always written, whatever its value.
otlp_encode_any_value(a) ==
    CASE a.type = "STRING" -> Variant("bytes", AV_FIELDS.string_value, a.val)
      [] a.type = "BYTES"  -> Variant("bytes", AV_FIELDS.bytes_value, a.val)
      [] a.type = "BOOL"   -> Variant("scalar", AV_FIELDS.bool_value, Varint(a.val[1]))
      [] a.type = "INT64"  -> Variant("scalar", AV_FIELDS.int_value, Varint(a.val[1]))
      [] a.type = "DOUBLE" -> Variant("scalar", AV_FIELDS.double_value, DoubleOctets(a.val[1]))
      [] a.type = "ARRAY"  ->
            Variant("nested", AV_FIELDS.array_value, Each(a.items, LAMBDA x :
                Message(AV_ARRAY_FIELDS.values, otlp_encode_any_value(x))))
      [] a.type = "KVLIST" ->
            Variant("nested", AV_FIELDS.kvlist_value, Each(a.items, LAMBDA x :
                Message(KVLIST_FIELDS.values,
                    KeyValue(KV_FIELDS.key, KV_FIELDS.value, x.key, otlp_encode_any_value(x)))))

otlp_encode_key_value(key, a) ==
    KeyValue(KV_FIELDS.key, KV_FIELDS.value, key, otlp_encode_any_value(a))

otlp_emit_attributes(f, attrs) ==
    Each(attrs, LAMBDA a : Message(f, otlp_encode_key_value(a.key, a)))

---------------------------------------------------------------------------
(* Spans *)

\* Mutant: a text without an error code is left out.
StatusByCode(f, code, message) ==
    IF code = 0 THEN <<>>
    ELSE Message(f, otlp_pb_field_varint(STATUS_FIELDS.code, code)
                    \o otlp_pb_field_string(STATUS_FIELDS.message, message))

emit_status(f, code, message) ==
    LET text == otlp_pb_field_string(STATUS_FIELDS.message, message)
        head == otlp_pb_field_varint(STATUS_FIELDS.code, code)
    IN  IF code = 0 /\ text = <<>> THEN <<>> ELSE Message(f, head \o text)

emit_event(e) ==
    Message(SPAN_FIELDS.events,
        otlp_pb_field_string(EVENT_FIELDS.name, e.name)
        \o otlp_pb_field_fixed64(EVENT_FIELDS.time_unix_nano, e.time)
        \o otlp_emit_attributes(EVENT_FIELDS.attributes, e.attrs.items))

emit_link(l) ==
    Message(SPAN_FIELDS.links,
        otlp_pb_field_bytes(LINK_FIELDS.trace_id, TraceId(l.traceId))
        \o otlp_pb_field_bytes(LINK_FIELDS.span_id, SpanId(l.spanId))
        \o otlp_emit_attributes(LINK_FIELDS.attributes, l.attrs.items))

\* Times are written if they are set, even when they are 0.
SpanTime(f, t) == IfSet(t, LAMBDA v : Scalar(f, FIXED64, LittleEndian(v, 8)))

otlp_encode_span_body(s) ==
    Bytes(SPAN_FIELDS.trace_id, TraceId(s.traceId))
    \o Bytes(SPAN_FIELDS.span_id, SpanId(s.spanId))
    \o IfSet(s.parent, LAMBDA p : Bytes(SPAN_FIELDS.parent_span_id, SpanId(p)))
    \o otlp_pb_field_string(SPAN_FIELDS.trace_state, s.traceState)
    \o otlp_pb_field_string(SPAN_FIELDS.name, s.name)
    \o otlp_pb_field_varint(SPAN_FIELDS.kind, s.kind)
    \o SpanTime(SPAN_FIELDS.start_time_unix_nano, s.start)
    \o SpanTime(SPAN_FIELDS.end_time_unix_nano, s.end)
    \o otlp_emit_attributes(SPAN_FIELDS.attributes, s.attrs.items)
    \o Each(s.events, emit_event)
    \o Each(s.links, emit_link)
    \o emit_status(SPAN_FIELDS.status, s.code, s.message)
    \o IF s.sampled
       THEN Scalar(SPAN_FIELDS.flags, FIXED32, LittleEndian(1, 4))
       ELSE <<>>

---------------------------------------------------------------------------
(* Metrics *)

zigzag32(v) == IF v >= 0 THEN 2 * v ELSE -2 * v - 1

\* A double is written even when it is 0.
DoubleField(f, v) == Scalar(f, FIXED64, DoubleOctets(v))

MetricTimes(table, m) ==
    IfSet(m.start, LAMBDA t : otlp_pb_field_fixed64(table.start_time_unix_nano, t))
    \o IfSet(m.time, LAMBDA t : otlp_pb_field_fixed64(table.time_unix_nano, t))

emit_exemplar(f, ex) ==
    Message(f,
        (IF ex.type = "DOUBLE" THEN DoubleField(EX_FIELDS.as_double, ex.val)
         ELSE Scalar(EX_FIELDS.as_int, FIXED64, LittleEndian(ex.val, 8)))
        \o IfSet(ex.traceId, LAMBDA n : otlp_pb_field_bytes(EX_FIELDS.trace_id, TraceId(n)))
        \o IfSet(ex.spanId, LAMBDA n : otlp_pb_field_bytes(EX_FIELDS.span_id, SpanId(n)))
        \o IfSet(ex.time, LAMBDA t : otlp_pb_field_fixed64(EX_FIELDS.time_unix_nano, t)))

emit_number_data_point(m) ==
    otlp_emit_attributes(NDP_FIELDS.attributes, m.attrs.items)
    \o Each(m.exemplars, LAMBDA ex : emit_exemplar(NDP_FIELDS.exemplars, ex))
    \o MetricTimes(NDP_FIELDS, m)
    \o DoubleField(NDP_FIELDS.as_double, m.value)

\* Buckets are written only when there are bounds.
emit_histogram_data_point(m) ==
    otlp_emit_attributes(HDP_FIELDS.attributes, m.attrs.items)
    \o Each(m.exemplars, LAMBDA ex : emit_exemplar(HDP_FIELDS.exemplars, ex))
    \o MetricTimes(HDP_FIELDS, m)
    \o otlp_pb_field_fixed64(HDP_FIELDS.count, m.count)
    \o DoubleField(HDP_FIELDS.sum, m.sum)
    \o (IF m.buckets = NULL \/ m.bounds = NULL THEN <<>>
        ELSE Packed(HDP_FIELDS.bucket_counts,
                    [i \in 1..Len(m.bounds) + 1 |-> LittleEndian(m.buckets[i], 8)]))
    \o IfSet(m.bounds, LAMBDA bs :
            Packed(HDP_FIELDS.explicit_bounds, [i \in DOMAIN bs |-> DoubleOctets(bs[i])]))
    \o IfSet(m.minmax, LAMBDA mm : DoubleField(HDP_FIELDS.min, mm[1])
                                   \o DoubleField(HDP_FIELDS.max, mm[2]))

emit_exp_histogram_buckets(f, b) ==
    IF b.counts = NULL \/ b.n = 0 THEN <<>>
    ELSE Message(f, otlp_pb_field_varint(EHB_FIELDS.offset, zigzag32(b.offset))
                    \o Packed(EHB_FIELDS.bucket_counts,
                              [i \in 1..b.n |-> Varint(b.counts[i])]))

emit_exp_histogram_data_point(m) ==
    otlp_emit_attributes(EHDP_FIELDS.attributes, m.attrs.items)
    \o MetricTimes(EHDP_FIELDS, m)
    \o otlp_pb_field_fixed64(EHDP_FIELDS.count, m.count)
    \o DoubleField(EHDP_FIELDS.sum, m.sum)
    \o IfSet(m.scale, LAMBDA s : otlp_pb_field_varint(EHDP_FIELDS.scale, zigzag32(s)))
    \o otlp_pb_field_fixed64(EHDP_FIELDS.zero_count, m.zero)
    \o emit_exp_histogram_buckets(EHDP_FIELDS.positive, m.pos)
    \o emit_exp_histogram_buckets(EHDP_FIELDS.negative, m.neg)

\* For each type of metric: its field in Metric and its data point.
metric_kind_specs ==
    [COUNTER |-> METRIC_FIELDS.sum, GAUGE |-> METRIC_FIELDS.gauge,
     HISTOGRAM |-> METRIC_FIELDS.histogram,
     EXP_HISTOGRAM |-> METRIC_FIELDS.exponential_histogram]

DataPoint(m) ==
    CASE m.type \in {"COUNTER", "GAUGE"} -> emit_number_data_point(m)
      [] m.type = "HISTOGRAM" -> emit_histogram_data_point(m)
      [] m.type = "EXP_HISTOGRAM" -> emit_exp_histogram_data_point(m)

emit_kind_extra_fields(m) ==
    CASE m.type = "COUNTER" ->
            otlp_pb_field_varint(SUM_FIELDS.aggregation_temporality, m.temporality)
            \o otlp_pb_field_varint(SUM_FIELDS.is_monotonic, Bit(m.monotonic))
      [] m.type = "HISTOGRAM" ->
            otlp_pb_field_varint(HIST_FIELDS.aggregation_temporality, m.temporality)
      [] m.type = "EXP_HISTOGRAM" ->
            otlp_pb_field_varint(EH_FIELDS.aggregation_temporality, m.temporality)
      [] OTHER -> <<>>

\* The data point has field number 1 in all four wrappers.
emit_metric(m) ==
    Bytes(METRIC_FIELDS.name, m.name)
    \o otlp_pb_field_string(METRIC_FIELDS.description, m.description)
    \o otlp_pb_field_string(METRIC_FIELDS.unit, m.unit)
    \o Message(metric_kind_specs[m.type],
               Message([num |-> 1], DataPoint(m)) \o emit_kind_extra_fields(m))

---------------------------------------------------------------------------
(* Log records *)

emit_log_record(l) ==
    IfSet(l.time, LAMBDA t : otlp_pb_field_fixed64(LOG_FIELDS.time_unix_nano, t))
    \o otlp_pb_field_varint(LOG_FIELDS.severity_number, l.severity)
    \o otlp_pb_field_string(LOG_FIELDS.severity_text, l.text)
    \o (IF OrEmpty(l.body) = <<>> THEN <<>>
        ELSE Message(LOG_FIELDS.body,
                 otlp_encode_any_value([NoAttr EXCEPT !.val = l.body])))
    \o otlp_emit_attributes(LOG_FIELDS.attributes, l.attrs.items)
    \o IfSet(l.traceId, LAMBDA n : otlp_pb_field_bytes(LOG_FIELDS.trace_id, TraceId(n)))
    \o IfSet(l.spanId, LAMBDA n : otlp_pb_field_bytes(LOG_FIELDS.span_id, SpanId(n)))

---------------------------------------------------------------------------
(* Requests.  A resource is the exporter's service name, resource          *)
(* attributes and schema URL, and the name and version of the scope.       *)

otlp_emit_resource(f, res) ==
    LET service == [NoAttr EXCEPT !.val = OrEmpty(res.service)] IN
    IF OrEmpty(res.service) = <<>> /\ res.attrs = <<>> THEN <<>>
    ELSE Message(f,
            (IF OrEmpty(res.service) = <<>> THEN <<>>
             ELSE Message(R_FIELDS.attributes, otlp_encode_key_value(res.serviceKey, service)))
            \o otlp_emit_attributes(R_FIELDS.attributes,
                   SelectSeq(res.attrs, LAMBDA a : OrEmpty(a.key) # <<>>)))

otlp_emit_instrumentation_scope(f, name, version) ==
    Message(f, otlp_pb_field_string(IS_FIELDS.name, name)
               \o otlp_pb_field_string(IS_FIELDS.version, version))

\* The same for all signals but for the tables of the resource (rs) and of
\* the scope (ss) and the fields of the items.
Request(top, rs, scopes, ss, res, items) ==
    IF items = <<>> /\ OrEmpty(res.service) = <<>> /\ res.attrs = <<>> THEN <<>>
    ELSE Message(top,
            otlp_emit_resource(rs.resource, res)
            \o Message(scopes,
                   otlp_emit_instrumentation_scope(ss.scope, res.scope, res.version) \o items)
            \o otlp_pb_field_string(rs.schema_url, res.schemaUrl))

otlp_encode_export_trace_service_request(res, spans) ==
    Request(ETSR_FIELDS.resource_spans, RS_FIELDS, RS_FIELDS.scope_spans, SS_FIELDS, res,
            Each(spans, LAMBDA s : Message(SS_FIELDS.spans, otlp_encode_span_body(s))))

otlp_encode_export_metrics_service_request(res, metrics) ==
    Request(EMSR_FIELDS.resource_metrics, RM_FIELDS, RM_FIELDS.scope_metrics, SM_FIELDS, res,
            Each(metrics, LAMBDA m : Message(SM_FIELDS.metrics, emit_metric(m))))

otlp_encode_export_logs_service_request(res, logs) ==
    Request(ELSR_FIELDS.resource_logs, RL_FIELDS, RL_FIELDS.scope_logs, SL_FIELDS, res,
            Each(logs, LAMBDA l : Message(SL_FIELDS.log_records, emit_log_record(l))))
=============================================================================
