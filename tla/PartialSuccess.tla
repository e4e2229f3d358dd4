--------------------------- MODULE PartialSuccess ---------------------------
(***************************************************************************)
(* What a successful answer may still say: the PartialSuccess of           *)
(* src/exporter_otel.c and its report in src/exporter.c.                   *)
(***************************************************************************)
EXTENDS OtlpSchema

\* The values of field f, the last of which counts; of another wire type it
\* is another field.
LastOf(walk, f, default) ==
    LET found == SelectSeq(walk.fields, LAMBDA x : x.num = f.num /\ x.wt = f.wt) IN
    IF found = <<>> THEN default ELSE found[Len(found)].val

Nothing == [rejected |-> 0, message |-> <<>>]

decode_partial_success_sub(r, sub) ==
    LET w == Walk(sub) IN
    Result(r.h, IF w.ok THEN "OK" ELSE "MALFORMED",
           [rejected |-> LastOf(w, EPS_FIELDS.rejected_spans, r.o.rejected),
            message |-> LastOf(w, EPS_FIELDS.error_message, r.o.message)])

\* Not found, or malformed at any level, is no PartialSuccess.
otlp_exporter_otel_decode_partial_success(body) ==
    LET w     == Walk(body)
        f     == EXPSR_FIELDS.partial_success
        subs  == SelectSeq(w.fields, LAMBDA x : x.num = f.num /\ x.wt = f.wt)
    IN  IF ~w.ok \/ subs = <<>> THEN Result(0, "MALFORMED", Nothing)
        ELSE FoldLeft(LAMBDA r, x : IF r.st = "OK" THEN decode_partial_success_sub(r, x.val)
                                    ELSE r,
                      Result(0, "OK", Nothing), subs)

\* What is counted and told to the caller: nothing of a malformed answer, and
\* no negative number.
otlp_exporter_report_partial_success(body) ==
    LET r == otlp_exporter_otel_decode_partial_success(body) IN
    IF r.st # "OK" THEN Nothing
    ELSE [r.o EXCEPT !.rejected = IF @ > 0 THEN @ ELSE 0]
=============================================================================
