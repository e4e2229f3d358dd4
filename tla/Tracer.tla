------------------------------- MODULE Tracer -------------------------------
(***************************************************************************)
(* The tracer of src/tracer.c with the samplers of src/sampler.c: threads  *)
(* start spans with identifiers from one generator that they advance with  *)
(* compare-and-swap, and the context of a span travels in a carrier        *)
(* (TraceContext).                                                         *)
(*                                                                         *)
(* The words of the generator are scaled down: WordBits bits, with shifts  *)
(* and a multiplier to match.  An identifier is made of whole words.       *)
(***************************************************************************)
EXTENDS TraceContext, Powers

CONSTANTS
    Threads,
    WordBits,          \* 64 in the code
    ShiftA, ShiftB, ShiftC, Multiplier,
    Seed,              \* clock ^ thread ^ process
    FallbackSeed,      \* used if Seed is 0
    Samplers,          \* a subset of SomeSampler
    Texts,             \* pairs of a tracestate and a baggage; those that do not fit
                       \* a context were sent by another library
    Alterations,       \* what happens to the traceparent on the way
    MaxSpans,          \* bound: calls of start_span
    MaxSpansEarly      \* bound: calls of start_span before the sampler is changed
                       \* or a context is sent

VARIABLES
    prng,              \* the state of the generator
    sampler,           \* t->sampler
    pc, old,           \* of every thread: where it is, the state it loaded
    span, words,       \* the span it makes, the words drawn for an identifier
    spans,             \* spans that were started
    carrier,           \* a context on its way, or NULL
    \* history
    drawn,             \* identifiers given to spans, recorded or not
    starts,            \* calls so far
    draws              \* words drawn so far

threadvars == <<pc, old, span, words>>
vars == <<prng, sampler, threadvars, spans, carrier, drawn, starts, draws>>

---------------------------------------------------------------------------
(* Words *)

Word == Pow2[WordBits]

\* Bit by bit.
Xor(a, b) ==
    LET low[i \in 0..WordBits] ==
          IF i = 0 THEN 0
          ELSE low[i - 1] + Pow2[i - 1] * (((a \div Pow2[i - 1]) + (b \div Pow2[i - 1])) % 2)
    IN  low[WordBits]

\* xorshift64s
xorshift64s(s) ==
    LET a == Xor(s, (s * Pow2[ShiftA]) % Word)
        b == Xor(a, a \div Pow2[ShiftB])
        c == Xor(b, (b * Pow2[ShiftC]) % Word)
    IN  (c * Multiplier) % Word

WordOctets == WordBits \div 8

\* Words are whole octets and identifiers whole words.
ASSUME TracerAssumption ==
    /\ {ShiftA, ShiftB, ShiftC, Multiplier} \subseteq Nat
    /\ WordBits \in Nat \ {0} /\ WordBits % 8 = 0
    /\ {Seed, FallbackSeed} \subseteq 0..(Word - 1)
    /\ TraceIdLen % WordOctets = 0 /\ SpanIdLen % WordOctets = 0
    /\ Texts \subseteq Seq(STRING) \X Seq(STRING)
    /\ Alterations \subseteq {"none", "upper", "version", "invalid", "trailing", "cut"}

\* put_u64_be
Octets(v) == [i \in 1..WordOctets |-> (v \div Pow2[8 * (WordOctets - i)]) % 256]

---------------------------------------------------------------------------
(* Samplers: always on, always off, by trace identifier with the ratio in  *)
(* parts of 8, or the application's own.                                   *)

SomeSampler == [type : {"on", "off", "custom"}, ratio : {0}] \cup [type : {"ratio"}, ratio : 0..8]

\* OTLP_SAMPLING_DECISION_NOT_RECORD, _RECORD, _RECORD_AND_SAMPLED
Decisions == {"drop", "record", "sample"}

\* The first word of the trace identifier, most significant octet first.
Prefix(trace_id) ==
    FoldLeft(LAMBDA n, o : 256 * n + o, 0, SubSeq(trace_id, 1, WordOctets))

ratio_should_sample(ratio, trace_id) ==
    \/ ratio = 8
    \/ ratio > 0 /\ Prefix(trace_id) < ratio * (Word \div 8)

\* What the sampler may answer.  The library's own ignore the name and the kind
\* of the span; the application's may go by them, or by anything else.
should_sample(s, trace_id) ==
    CASE s.type = "on"     -> {"sample"}
      [] s.type = "off"    -> {"drop"}
      [] s.type = "ratio"  -> {IF ratio_should_sample(s.ratio, trace_id) THEN "sample" ELSE "drop"}
      [] s.type = "custom" -> Decisions

AlwaysOn == [type |-> "on", ratio |-> 0]

---------------------------------------------------------------------------
(* Spans *)

Zeros(n) == [i \in 1..n |-> 0]

\* A span made by otlp_span_create, which a caller may also use as a parent.
NoIds == [trace_id |-> Zeros(TraceIdLen), span_id |-> Zeros(SpanIdLen),
          parent |-> NULL, sampled |-> TRUE]

Init ==
    /\ prng = IF Seed = 0 THEN FallbackSeed ELSE Seed
    /\ sampler = AlwaysOn
    /\ pc = [t \in Threads |-> "idle"] /\ old = [t \in Threads |-> 0]
    /\ span = [t \in Threads |-> NoIds] /\ words = [t \in Threads |-> <<>>]
    /\ spans = {} /\ carrier = NULL
    /\ drawn = <<>> /\ starts = 0 /\ draws = 0

Quiet == \A t \in Threads : pc[t] = "idle"

\* Not synchronised, so the caller must not race it with start_span.
otlp_tracer_set_sampler(s) ==
    /\ Quiet /\ starts <= MaxSpansEarly /\ s # sampler /\ sampler' = s
    /\ UNCHANGED <<prng, threadvars, spans, carrier, drawn, starts, draws>>

\* start_span_internal without a parent: the trace identifier is drawn.
StartRoot(t) ==
    /\ pc[t] = "idle" /\ starts < MaxSpans /\ starts' = starts + 1
    /\ pc' = [pc EXCEPT ![t] = "trace"]
    /\ span' = [span EXCEPT ![t] = NoIds]
    /\ UNCHANGED <<prng, sampler, old, words, spans, carrier, drawn, draws>>

\* Mutant: a child draws a trace identifier instead of taking its parent's.
StartChildBlank(t, parent) ==
    /\ pc[t] = "idle" /\ starts < MaxSpans /\ starts' = starts + 1
    /\ pc' = [pc EXCEPT ![t] = "trace"]
    /\ span' = [span EXCEPT ![t] =
            [NoIds EXCEPT !.parent = IF IsZero(parent.span_id) THEN NULL ELSE parent.span_id]]
    /\ UNCHANGED <<prng, sampler, old, words, spans, carrier, drawn, draws>>

\* With a parent: its trace identifier is copied, and its span identifier
\* unless that is zero, which set_parent_span_id refuses.
StartChild(t, parent) ==
    /\ pc[t] = "idle" /\ starts < MaxSpans /\ starts' = starts + 1
    /\ pc' = [pc EXCEPT ![t] = "span"]
    /\ span' = [span EXCEPT ![t] =
            [NoIds EXCEPT !.trace_id = parent.trace_id,
                          !.parent = IF IsZero(parent.span_id) THEN NULL ELSE parent.span_id]]
    /\ UNCHANGED <<prng, sampler, old, words, spans, carrier, drawn, draws>>

\* tracer_prng_next: load, and compare-and-swap until it succeeds.  A failed
\* one loads again (and may fail without reason).
PrngLoad(t) ==
    /\ pc[t] \in {"trace", "span"} /\ old[t] = 0
    /\ old' = [old EXCEPT ![t] = prng]
    /\ UNCHANGED <<prng, sampler, pc, span, words, spans, carrier, drawn, starts, draws>>

\* The word v is the next part of the identifier; when that is complete and
\* not all zero, it is the span's.
Drew(t, v) ==
    LET id  == words[t] \o Octets(v)
        len == IF pc[t] = "trace" THEN TraceIdLen ELSE SpanIdLen
    IN  IF Len(id) < len \/ IsZero(id)
        THEN /\ words' = [words EXCEPT ![t] = IF Len(id) < len THEN id ELSE <<>>]
             /\ UNCHANGED <<pc, span, drawn>>
        ELSE /\ words' = [words EXCEPT ![t] = <<>>]
             /\ pc' = [pc EXCEPT ![t] = IF @ = "trace" THEN "span" ELSE "sample"]
             /\ span' = [span EXCEPT ![t] =
                    IF pc[t] = "trace" THEN [@ EXCEPT !.trace_id = id]
                    ELSE [@ EXCEPT !.span_id = id]]
             /\ drawn' = Append(drawn, id)

\* Mutant: the new state is stored without comparing.
PrngStore(t) ==
    /\ pc[t] \in {"trace", "span"} /\ old[t] # 0
    /\ prng' = xorshift64s(old[t]) /\ draws' = draws + 1
    /\ old' = [old EXCEPT ![t] = 0] /\ Drew(t, prng')
    /\ UNCHANGED <<sampler, spans, carrier, starts>>

PrngCas(t) ==
    /\ pc[t] \in {"trace", "span"} /\ old[t] # 0
    /\ \/ /\ old[t] = prng /\ prng' = xorshift64s(old[t]) /\ draws' = draws + 1
          /\ old' = [old EXCEPT ![t] = 0] /\ Drew(t, prng')
       \/ /\ old[t] # prng /\ old' = [old EXCEPT ![t] = prng]
          /\ UNCHANGED <<prng, pc, span, words, drawn, draws>>
    /\ UNCHANGED <<sampler, spans, carrier, starts>>

\* The sampler decides: the span is freed and NULL returned, or it is returned,
\* sampled or only recorded.
Sample(t) ==
    /\ pc[t] = "sample" /\ pc' = [pc EXCEPT ![t] = "idle"]
    /\ span' = [span EXCEPT ![t] = NoIds]
    /\ \E decision \in should_sample(sampler, span[t].trace_id) :
         \/ decision = "drop" /\ UNCHANGED spans
         \/ decision # "drop"
            /\ spans' = spans \cup {[span[t] EXCEPT !.sampled = decision = "sample"]}
    /\ UNCHANGED <<prng, sampler, old, words, carrier, drawn, starts, draws>>

---------------------------------------------------------------------------
(* A context travels.  Injecting and extracting read one span only, so     *)
(* they are taken when no thread is in start_span.                         *)

\* What an intermediary, or another library, makes of a traceparent.
Altered(header, how) ==
    CASE how = "none"     -> header
      [] how = "upper"    -> [i \in DOMAIN header |->
                                 IF hex_value(header[i]) < 0 THEN header[i]
                                 ELSE Upper[hex_value(header[i]) + 1]]
      [] how = "version"  -> [header EXCEPT ![2] = "1"] \o <<"-", "x">>
      [] how = "invalid"  -> [header EXCEPT ![1] = "f", ![2] = "f"]
      [] how = "trailing" -> header \o <<"-", "x">>
      [] how = "cut"      -> SubSeq(header, 1, Len(header) - 1)

\* The span's context, with the caller's texts, into an empty carrier; n
\* calls of set succeed.
Inject(s, tracestate, baggage) ==
    /\ Quiet /\ starts <= MaxSpansEarly /\ carrier = NULL
    /\ LET ctx == [otlp_context_from_span(s) EXCEPT !.tracestate = tracestate,
                                                    !.baggage = baggage]
           all == Len(Sets(ctx))
       IN  \E n \in 0..all : \E how \in IF n = all THEN Alterations ELSE {"none"} :
             LET c == otlp_context_inject(ctx, EmptyCarrier, n) IN
             carrier' = [ctx |-> ctx, complete |-> n = all, how |-> how,
                         headers |-> IF c.traceparent = NULL THEN c
                                     ELSE [c EXCEPT !.traceparent = Altered(@, how)]]
    /\ UNCHANGED <<prng, sampler, threadvars, spans, drawn, starts, draws>>

\* The carrier is dealt with.
Discard ==
    /\ carrier # NULL /\ carrier' = NULL
    /\ UNCHANGED <<prng, sampler, threadvars, spans, drawn, starts, draws>>

Next ==
    \/ \E s \in Samplers : otlp_tracer_set_sampler(s)
    \/ \E t \in Threads :
          \/ StartRoot(t) \/ \E p \in spans \cup {NoIds} : StartChild(t, p)
          \/ PrngLoad(t) \/ PrngCas(t) \/ Sample(t)
    \/ \E s \in spans \cup {NoIds}, x \in Texts : Inject(s, x[1], x[2])
    \/ Discard

Spec == Init /\ [][Next]_vars

---------------------------------------------------------------------------
\* No identifier is given twice and none is zero, however the threads
\* interleave in the compare-and-swap loop.
IdsUnique ==
    /\ \A i, j \in DOMAIN drawn : drawn[i] = drawn[j] => i = j
    /\ \A i \in DOMAIN drawn : ~IsZero(drawn[i])

\* The recorded spans of a trace are one tree, whatever spans in between were
\* dropped and whichever threads drew the identifiers: one root at most, and
\* the parent that any other span names is one recorded span, of that trace.
\* (A span without identifiers may be used as a parent; it makes no trace.)
TracesAreTrees ==
    \A s \in spans : ~IsZero(s.trace_id) =>
        IF s.parent = NULL
        THEN \A r \in spans : r.trace_id = s.trace_id /\ r.parent = NULL => r = s
        ELSE \E p \in spans \ {s} :
                /\ p.trace_id = s.trace_id
                /\ \A r \in spans : r.span_id = s.parent <=> r = p

\* The context that arrives is the one that was sent, with the flag of a span
\* that is sampled or only recorded, or none: none if a call of set failed, if
\* the identifiers are zero or if the header is not one of the W3C format; and
\* the texts are not mixed up, only cut or left out.
ContextIntact ==
    carrier # NULL =>
        LET got  == otlp_context_extract(carrier.headers)
            sent == carrier.ctx
        IN  /\ got.has_context =
                  (/\ carrier.complete /\ carrier.how \in {"none", "upper", "version"}
                   /\ ~IsZero(sent.trace_id) /\ ~IsZero(sent.span_id))
            /\ got.has_context =>
                  /\ got.trace_id = sent.trace_id /\ got.span_id = sent.span_id
                  /\ got.sampled = sent.sampled
                  /\ \A h \in {"tracestate", "baggage"} :
                        IF contains_control(sent[h]) THEN got[h] = <<>>
                        ELSE IsPrefix(got[h], sent[h]) /\ (Len(sent[h]) < TextMax => got[h] = sent[h])

\* context.h of the tracestate and the baggage that are extracted: "copied
\* verbatim into ctx.tracestate", "... into ctx.baggage".  Refuted: ContextIntact
\* is what holds.
TextsVerbatim ==
    carrier # NULL =>
        LET got == otlp_context_extract(carrier.headers)
        IN  got.has_context =>
                got.tracestate = carrier.ctx.tracestate /\ got.baggage = carrier.ctx.baggage
=============================================================================
