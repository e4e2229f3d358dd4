---------------------------- MODULE TraceContext ----------------------------
(***************************************************************************)
(* Trace context on its way from one process to another: the traceparent   *)
(* header of src/w3c.c and the carrier of src/context.c.                   *)
(*                                                                         *)
(* Identifiers are sequences of octets, headers sequences of characters; a *)
(* carrier is a function from header names to headers, NULL if absent.     *)
(***************************************************************************)
EXTENDS Integers, Sequences, SequencesExt

CONSTANTS
    NULL,
    TraceIdLen,        \* OTLP_TRACE_ID_LEN (16)
    SpanIdLen,         \* OTLP_SPAN_ID_LEN (8)
    TextMax            \* OTLP_CONTEXT_TRACESTATE_MAX (512), _BAGGAGE_MAX (2048)

---------------------------------------------------------------------------
(* traceparent *)

Lower == <<"0", "1", "2", "3", "4", "5", "6", "7", "8", "9", "a", "b", "c", "d", "e", "f">>
Upper == <<"0", "1", "2", "3", "4", "5", "6", "7", "8", "9", "A", "B", "C", "D", "E", "F">>

\* The characters of a traceparent; x is what a later version adds.
HeaderChars == Range(Lower) \cup Range(Upper) \cup {"-", "x"}

\* No header is NULL, and no identifier.
ASSUME ContextAssumption ==
    /\ {TraceIdLen, SpanIdLen, TextMax} \subseteq Nat \ {0}
    /\ NULL \notin Seq(HeaderChars) \cup Seq(STRING) \cup Seq(0..255)

hex_digit(nibble) == Lower[nibble + 1]

hex_value(c) ==
    IF \E i \in 1..16 : c \in {Lower[i], Upper[i]}
    THEN (CHOOSE i \in 1..16 : c \in {Lower[i], Upper[i]}) - 1
    ELSE -1

\* Two digits for every octet, the high one first.
Hex(octets) ==
    [j \in 1..2 * Len(octets) |->
        LET octet == octets[(j + 1) \div 2]
        IN  hex_digit(IF j % 2 = 1 THEN octet \div 16 ELSE octet % 16)]

otlp_traceparent_format_raw(trace_id, span_id, sampled) ==
    <<"0", "0", "-">> \o Hex(trace_id) \o <<"-">> \o Hex(span_id)
    \o <<"-", "0", IF sampled THEN "1" ELSE "0">>

\* Places of the fields, counted from 1.
TraceAt == 4
SpanAt  == TraceAt + 2 * TraceIdLen + 1
FlagsAt == SpanAt + 2 * SpanIdLen + 1
EndAt   == FlagsAt + 2

\* Behind the last character is the terminating NUL, which no field may hold.
At(header, i) == IF i <= Len(header) THEN header[i] ELSE "NUL"

OctetAt(header, i) ==
    IF hex_value(At(header, i)) < 0 \/ hex_value(At(header, i + 1)) < 0 THEN -1
    ELSE 16 * hex_value(At(header, i)) + hex_value(At(header, i + 1))

OctetsAt(header, at, n) == [k \in 1..n |-> OctetAt(header, at + 2 * (k - 1))]

IsZero(id) == \A i \in DOMAIN id : id[i] = 0

\* Version ff is refused; version 00 ends with the flags, later versions may
\* go on.
VersionOK(header) ==
    /\ OctetAt(header, 1) >= 0 /\ OctetAt(header, 1) # 255
    /\ OctetAt(header, 1) = 0 => At(header, EndAt) = "NUL"

otlp_traceparent_parse(header) ==
    LET trace == OctetsAt(header, TraceAt, TraceIdLen)
        span  == OctetsAt(header, SpanAt, SpanIdLen)
        flags == OctetAt(header, FlagsAt)
    IN  [ok |-> /\ VersionOK(header) /\ flags >= 0
                /\ \A p \in {TraceAt - 1, SpanAt - 1, FlagsAt - 1} : At(header, p) = "-"
                /\ \A i \in DOMAIN trace : trace[i] >= 0
                /\ \A i \in DOMAIN span : span[i] >= 0
                /\ ~IsZero(trace) /\ ~IsZero(span),
         trace_id |-> trace, span_id |-> span, flags |-> flags]

---------------------------------------------------------------------------
(* Contexts *)

NoContext == [has_context |-> FALSE, trace_id |-> <<>>, span_id |-> <<>>,
              sampled |-> FALSE, tracestate |-> <<>>, baggage |-> <<>>]

otlp_context_from_span(s) ==
    [NoContext EXCEPT !.has_context = TRUE, !.trace_id = s.trace_id,
                      !.span_id = s.span_id, !.sampled = s.sampled]

contains_control(text) == \E i \in DOMAIN text : text[i] = "control"

Headers == {"traceparent", "tracestate", "baggage"}
EmptyCarrier == [k \in Headers |-> NULL]

\* Mutant: the traceparent is set first.
SetsParentFirst(ctx) ==
    <<<<"traceparent", otlp_traceparent_format_raw(ctx.trace_id, ctx.span_id, ctx.sampled)>>>>
    \o (IF ctx.tracestate = <<>> THEN <<>> ELSE <<<<"tracestate", ctx.tracestate>>>>)
    \o (IF ctx.baggage = <<>> THEN <<>> ELSE <<<<"baggage", ctx.baggage>>>>)

\* The calls of the carrier's set function, the traceparent last.
Sets(ctx) ==
    (IF ctx.tracestate = <<>> THEN <<>> ELSE <<<<"tracestate", ctx.tracestate>>>>)
    \o (IF ctx.baggage = <<>> THEN <<>> ELSE <<<<"baggage", ctx.baggage>>>>)
    \o <<<<"traceparent", otlp_traceparent_format_raw(ctx.trace_id, ctx.span_id, ctx.sampled)>>>>

\* The carrier when the first n calls of set succeed and the next one fails.
otlp_context_inject(ctx, carrier, n) ==
    [name \in Headers |->
        IF \E i \in 1..n : Sets(ctx)[i][1] = name
        THEN Sets(ctx)[CHOOSE i \in 1..n : Sets(ctx)[i][1] = name][2]
        ELSE carrier[name]]

\* A text that is absent or not printable is left out, a long one cut.
Taken(text) ==
    IF text = NULL \/ contains_control(text) THEN <<>>
    ELSE SubSeq(text, 1, IF Len(text) >= TextMax THEN TextMax - 1 ELSE Len(text))

otlp_context_extract(carrier) ==
    LET p == otlp_traceparent_parse(carrier.traceparent) IN
    IF carrier.traceparent = NULL \/ ~p.ok THEN NoContext
    ELSE [has_context |-> TRUE, trace_id |-> p.trace_id, span_id |-> p.span_id,
          sampled |-> p.flags % 2 = 1,
          tracestate |-> Taken(carrier.tracestate), baggage |-> Taken(carrier.baggage)]
=============================================================================
