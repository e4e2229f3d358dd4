----------------------------- MODULE LogObject ------------------------------
(***************************************************************************)
(* The log record of src/log.c, in the style of SpanObject.  An identifier *)
(* that is not set is NULL.                                                *)
(***************************************************************************)
EXTENDS AttrVec

CONSTANT MaxLogAttrs      \* OTLP_LOG_MAX_ATTRS (128)

Log == [severity : Int, text : Opt(Text), body : Opt(Text), time : Opt(Int),
        traceId : Opt(Int), spanId : Opt(Int), attrs : Vec]

ASSUME LogAssumption == MaxLogAttrs \in Nat /\ NULL \notin Log

otlp_log_record_create(h, severity, body) ==
    LET g == otlp_malloc(h)
        b == otlp_dup_str(g, OrEmpty(body))
    IN  IF ~CanAlloc(h) THEN Result(g, "NULL", NULL)
        ELSE IF ~otlp_str_is_utf8(body) THEN Result(otlp_free(g, 1), "NULL", NULL)
        ELSE IF b.st # "OK" THEN Result(otlp_free(b.h, 1), "NULL", NULL)
        ELSE Result(b.h, "OK",
                [severity |-> severity, text |-> NULL, body |-> b.o, time |-> NULL,
                 traceId |-> NULL, spanId |-> NULL, attrs |-> NoVec])

otlp_log_record_free(h, l) ==
    otlp_free(otlp_attr_vec_free(
        otlp_free(h, Bit(l.text # NULL) + Bit(l.body # NULL)), l.attrs), 1)

otlp_log_record_set_timestamp(h, l, t) == Result(h, "OK", [l EXCEPT !.time = t])

otlp_log_record_set_id(h, l, which, id) ==
    IF id = NULL THEN Result(h, "NULL", l)
    ELSE IF id = 0 THEN Result(h, "INVALID_ARGUMENT", l)
    ELSE Result(h, "OK", [l EXCEPT ![which] = id])

\* The old text is freed before the new one is copied, and a failure to copy
\* is reported only if there was a text to copy.
otlp_log_record_set_severity_text(h, l, text) ==
    LET n == otlp_dup_str(otlp_free(h, Bit(l.text # NULL)), OrEmpty(text)) IN
    IF ~otlp_str_is_utf8(text) THEN Result(h, "UTF8", l)
    ELSE Result(n.h, IF text = NULL THEN "OK" ELSE n.st, [l EXCEPT !.text = n.o])

otlp_log_record_set_attribute(h, l, key, v) ==
    Into(SetAny(h, l.attrs, MaxLogAttrs, key, v), LAMBDA vec : [l EXCEPT !.attrs = vec])

\* Both strings are copied before either result is looked at.
otlp_log_record_clone(h, src) ==
    LET g == otlp_malloc(h)
        t == otlp_dup_str(g, src.text)
        b == otlp_dup_str(t.h, src.body)
        v == otlp_attr_vec_copy(b.h, src.attrs)
        d == [src EXCEPT !.text = t.o, !.body = b.o, !.attrs = NoVec]
    IN  IF ~CanAlloc(h) THEN Result(g, "NULL", NULL)
        ELSE IF t.st # "OK" \/ b.st # "OK"
             THEN Result(otlp_log_record_free(b.h, d), "NULL", NULL)
        ELSE IF v.st # "OK" THEN Result(otlp_log_record_free(v.h, d), "NULL", NULL)
        ELSE Result(v.h, "OK", [d EXCEPT !.attrs = v.o])
=============================================================================
