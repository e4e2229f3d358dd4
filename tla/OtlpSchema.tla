----------------------------- MODULE OtlpSchema -----------------------------
(***************************************************************************)
(* The tables of src/otlp_schema.h: for every OTLP message its fields, with *)
(* number, wire type, whether the field repeats, and whether the table     *)
(* says that it is always emitted (the encoders take number and wire type  *)
(* from here; nothing reads the last two).                                 *)
(***************************************************************************)
EXTENDS Protobuf

One(num, wt) == [num |-> num, wt |-> wt, repeated |-> FALSE, always |-> FALSE]
Always(num, wt) == [One(num, wt) EXCEPT !.always = TRUE]
Rep(num, wt) == [One(num, wt) EXCEPT !.repeated = TRUE]

ETSR_FIELDS ==
    [resource_spans |-> Rep(1, LEN)]

RS_FIELDS ==
    [resource |-> One(1, LEN), scope_spans |-> Rep(2, LEN),
     schema_url |-> One(3, LEN)]

R_FIELDS ==
    [attributes |-> Rep(1, LEN), dropped_attributes_count |-> One(2, VARINT)]

SS_FIELDS ==
    [scope |-> One(1, LEN), spans |-> Rep(2, LEN), schema_url |-> One(3, LEN)]

IS_FIELDS ==
    [name |-> One(1, LEN), version |-> One(2, LEN),
     attributes |-> Rep(3, LEN), dropped_attributes_count |-> One(4, VARINT)]

SPAN_FIELDS ==
    [trace_id |-> Always(1, LEN), span_id |-> Always(2, LEN),
     trace_state |-> One(3, LEN), parent_span_id |-> One(4, LEN),
     name |-> One(5, LEN), kind |-> One(6, VARINT),
     start_time_unix_nano |-> Always(7, FIXED64),
     end_time_unix_nano |-> Always(8, FIXED64), attributes |-> Rep(9, LEN),
     dropped_attributes_count |-> One(10, VARINT), events |-> Rep(11, LEN),
     dropped_events_count |-> One(12, VARINT), links |-> Rep(13, LEN),
     dropped_links_count |-> One(14, VARINT), status |-> One(15, LEN),
     flags |-> One(16, FIXED32)]

STATUS_FIELDS ==
    [message |-> One(2, LEN), code |-> One(3, VARINT)]

KV_FIELDS ==
    [key |-> Always(1, LEN), value |-> Always(2, LEN)]

AV_FIELDS ==
    [string_value |-> Always(1, LEN), bool_value |-> Always(2, VARINT),
     int_value |-> Always(3, VARINT), double_value |-> Always(4, FIXED64),
     array_value |-> Always(5, LEN), kvlist_value |-> Always(6, LEN),
     bytes_value |-> Always(7, LEN)]

AV_ARRAY_FIELDS ==
    [values |-> Rep(1, LEN)]

KVLIST_FIELDS ==
    [values |-> Rep(1, LEN)]

EVENT_FIELDS ==
    [time_unix_nano |-> One(1, FIXED64), name |-> One(2, LEN),
     attributes |-> Rep(3, LEN), dropped_attributes_count |-> One(4, VARINT)]

LINK_FIELDS ==
    [trace_id |-> One(1, LEN), span_id |-> One(2, LEN),
     trace_state |-> One(3, LEN), attributes |-> Rep(4, LEN),
     dropped_attributes_count |-> One(5, VARINT), flags |-> One(6, FIXED32)]

EMSR_FIELDS ==
    [resource_metrics |-> Rep(1, LEN)]

RM_FIELDS ==
    [resource |-> One(1, LEN), scope_metrics |-> Rep(2, LEN),
     schema_url |-> One(3, LEN)]

SM_FIELDS ==
    [scope |-> One(1, LEN), metrics |-> Rep(2, LEN),
     schema_url |-> One(3, LEN)]

METRIC_FIELDS ==
    [name |-> One(1, LEN), description |-> One(2, LEN), unit |-> One(3, LEN),
     gauge |-> One(5, LEN), sum |-> One(7, LEN), histogram |-> One(9, LEN),
     exponential_histogram |-> One(10, LEN)]

SUM_FIELDS ==
    [data_points |-> Rep(1, LEN), aggregation_temporality |-> One(2, VARINT),
     is_monotonic |-> One(3, VARINT)]

GAUGE_FIELDS ==
    [data_points |-> Rep(1, LEN)]

HIST_FIELDS ==
    [data_points |-> Rep(1, LEN), aggregation_temporality |-> One(2, VARINT)]

EH_FIELDS ==
    [data_points |-> Rep(1, LEN), aggregation_temporality |-> One(2, VARINT)]

EX_FIELDS ==
    [time_unix_nano |-> One(2, FIXED64), as_double |-> One(3, FIXED64),
     span_id |-> One(4, LEN), trace_id |-> One(5, LEN),
     as_int |-> One(6, FIXED64), filtered_attributes |-> Rep(7, LEN)]

NDP_FIELDS ==
    [start_time_unix_nano |-> One(2, FIXED64),
     time_unix_nano |-> One(3, FIXED64), as_double |-> One(4, FIXED64),
     attributes |-> Rep(7, LEN), exemplars |-> Rep(5, LEN)]

HDP_FIELDS ==
    [start_time_unix_nano |-> One(2, FIXED64),
     time_unix_nano |-> One(3, FIXED64), count |-> Always(4, FIXED64),
     sum |-> One(5, FIXED64), bucket_counts |-> Rep(6, LEN),
     explicit_bounds |-> Rep(7, LEN), exemplars |-> Rep(8, LEN),
     attributes |-> Rep(9, LEN), min |-> One(11, FIXED64),
     max |-> One(12, FIXED64)]

EHDP_FIELDS ==
    [attributes |-> Rep(1, LEN), start_time_unix_nano |-> One(2, FIXED64),
     time_unix_nano |-> One(3, FIXED64), count |-> Always(4, FIXED64),
     sum |-> One(5, FIXED64), scale |-> One(6, VARINT),
     zero_count |-> One(7, FIXED64), positive |-> One(8, LEN),
     negative |-> One(9, LEN), flags |-> One(10, VARINT)]

EHB_FIELDS ==
    [offset |-> One(1, VARINT), bucket_counts |-> Rep(2, LEN)]

ELSR_FIELDS ==
    [resource_logs |-> Rep(1, LEN)]

RL_FIELDS ==
    [resource |-> One(1, LEN), scope_logs |-> Rep(2, LEN),
     schema_url |-> One(3, LEN)]

SL_FIELDS ==
    [scope |-> One(1, LEN), log_records |-> Rep(2, LEN),
     schema_url |-> One(3, LEN)]

LOG_FIELDS ==
    [time_unix_nano |-> One(1, FIXED64), severity_number |-> One(2, VARINT),
     severity_text |-> One(3, LEN), body |-> One(5, LEN),
     attributes |-> Rep(6, LEN), dropped_attributes_count |-> One(7, VARINT),
     flags |-> One(8, FIXED32), trace_id |-> One(9, LEN),
     span_id |-> One(10, LEN)]

EXPSR_FIELDS ==
    [partial_success |-> One(1, LEN)]

EPS_FIELDS ==
    [rejected_spans |-> One(1, VARINT), error_message |-> One(2, LEN)]
=============================================================================
