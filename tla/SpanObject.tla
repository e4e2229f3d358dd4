----------------------------- MODULE SpanObject -----------------------------
(***************************************************************************)
(* The span of src/span.c: a record, and its operations as functions from  *)
(* the heap and the span to a Result.  A time or an identifier that is not *)
(* set is NULL (the code keeps a has_ flag beside the value); identifier 0 *)
(* is the all-zero identifier.                                             *)
(***************************************************************************)
EXTENDS AttrVec

CONSTANTS
    MaxAttrs,       \* OTLP_SPAN_MAX_ATTRIBUTES (128)
    MaxEventAttrs,  \* OTLP_EVENT_MAX_ATTRS (32)
    MaxLinkAttrs,   \* OTLP_LINK_MAX_ATTRS (32)
    MaxEvents,      \* OTLP_SPAN_MAX_EVENTS (64)
    MaxLinks        \* OTLP_SPAN_MAX_LINKS (64)

Event == [name : Text, time : Opt(Int), attrs : Vec]
Link == [traceId : Int, spanId : Int, attrs : Vec]
Span == [name : Text, traceId : Int, spanId : Int, parent : Opt(Int),
         start : Opt(Int), end : Opt(Int), kind : Int, code : Int,
         message : Opt(Text), sampled : BOOLEAN, traceState : Opt(Text),
         attrs : Vec, events : Seq(Event), capEvents : Nat,
         links : Seq(Link), capLinks : Nat]

ASSUME SpanAssumption ==
    /\ {MaxAttrs, MaxEventAttrs, MaxLinkAttrs, MaxEvents, MaxLinks} \subseteq Nat
    /\ NULL \notin Span

NoSpan == [name |-> <<>>, traceId |-> 0, spanId |-> 0, parent |-> NULL,
           start |-> NULL, end |-> NULL, kind |-> 1, code |-> 0,
           message |-> NULL, sampled |-> TRUE, traceState |-> NULL,
           attrs |-> NoVec, events |-> <<>>, capEvents |-> 0,
           links |-> <<>>, capLinks |-> 0]

otlp_span_create(h, name) ==
    LET g == otlp_malloc(h)
        n == otlp_dup_str(g, OrEmpty(name))
    IN  IF ~CanAlloc(h) THEN Result(g, "NULL", NULL)
        ELSE IF ~otlp_str_is_utf8(name) THEN Result(otlp_free(g, 1), "NULL", NULL)
        ELSE IF n.st # "OK" THEN Result(otlp_free(n.h, 1), "NULL", NULL)
        ELSE Result(n.h, "OK", [NoSpan EXCEPT !.name = n.o])

\* An event has a name of its own.
EventBlocks(events) == SumOf([i \in DOMAIN events |-> 1 + VecBlocks(events[i].attrs)])
LinkBlocks(links) == SumOf([i \in DOMAIN links |-> VecBlocks(links[i].attrs)])

otlp_span_free(h, s) ==
    LET strings == otlp_free(h, 1 + Bit(s.message # NULL) + Bit(s.traceState # NULL))
        events  == otlp_free(strings, EventBlocks(s.events) + Bit(s.capEvents > 0))
        links   == otlp_free(events, LinkBlocks(s.links) + Bit(s.capLinks > 0))
    IN  otlp_free(otlp_attr_vec_free(links, s.attrs), 1)

\* The three identifiers; a NULL parent clears it.
otlp_span_set_id(h, s, which, id) ==
    IF which = "parent" /\ id = NULL THEN Result(h, "OK", [s EXCEPT !.parent = NULL])
    ELSE IF id = NULL THEN Result(h, "NULL", s)
    ELSE IF id = 0 THEN Result(h, "INVALID_ARGUMENT", s)
    ELSE Result(h, "OK", [s EXCEPT ![which] = id])

\* Start and end time, given or read from the clock.
otlp_span_set_time(h, s, which, t) == Result(h, "OK", [s EXCEPT ![which] = t])

otlp_span_set_kind(h, s, kind) == Result(h, "OK", [s EXCEPT !.kind = kind])

otlp_span_set_sampled(h, s, b) == Result(h, "OK", [s EXCEPT !.sampled = b])

otlp_span_set_name(h, s, name) ==
    LET n == otlp_dup_str(h, OrEmpty(name)) IN
    IF ~otlp_str_is_utf8(name) THEN Result(h, "UTF8", s)
    ELSE IF n.st # "OK" THEN Result(n.h, "NOMEM", s)
    ELSE Result(otlp_free(n.h, 1), "OK", [s EXCEPT !.name = n.o])

\* Mutant: the old text is freed first.
StatusFreesFirst(h, s, code, text) ==
    LET n == otlp_dup_str(otlp_free(h, Bit(s.message # NULL)), text) IN
    IF ~otlp_str_is_utf8(text) THEN Result(h, "UTF8", s)
    ELSE Result(n.h, n.st, [s EXCEPT !.message = n.o, !.code = code])

\* The new text is copied before the old one is freed.
otlp_span_set_status(h, s, code, text) ==
    LET n == otlp_dup_str(h, text) IN
    IF ~otlp_str_is_utf8(text) THEN Result(h, "UTF8", s)
    ELSE IF n.st # "OK" THEN Result(n.h, "NOMEM", s)
    ELSE Result(otlp_free(n.h, Bit(s.message # NULL)), "OK",
                [s EXCEPT !.message = n.o, !.code = code])

otlp_span_set_trace_state(h, s, text) ==
    LET n == otlp_dup_str(h, text) IN
    IF ~otlp_str_is_utf8(text) THEN Result(h, "UTF8", s)
    ELSE IF n.st # "OK" THEN Result(n.h, "NOMEM", s)
    ELSE Result(otlp_free(n.h, Bit(s.traceState # NULL)), "OK",
                [s EXCEPT !.traceState = n.o])

otlp_span_set_attribute(h, s, key, v) ==
    Into(SetAny(h, s.attrs, MaxAttrs, key, v), LAMBDA vec : [s EXCEPT !.attrs = vec])

\* Room for one more event: the capacity grown if the array is full.
event_grow(h, s) ==
    IF Len(s.events) < s.capEvents THEN Result(h, "OK", s)
    ELSE LET g == otlp_realloc(h, s.capEvents > 0) IN
         IF CanAlloc(h)
         THEN Result(g, "OK", [s EXCEPT !.capEvents = GrownCap(@, MaxEvents)])
         ELSE Result(g, "NOMEM", s)

link_grow(h, s) ==
    IF Len(s.links) < s.capLinks THEN Result(h, "OK", s)
    ELSE LET g == otlp_realloc(h, s.capLinks > 0) IN
         IF CanAlloc(h)
         THEN Result(g, "OK", [s EXCEPT !.capLinks = GrownCap(@, MaxLinks)])
         ELSE Result(g, "NOMEM", s)

otlp_span_add_event(h, s, name, time) ==
    LET n == otlp_dup_str(h, name)
        r == event_grow(n.h, s)
    IN  IF name = NULL THEN Result(h, "NULL", s)
        ELSE IF Len(s.events) >= MaxEvents THEN Result(h, "OVERFLOW", s)
        ELSE IF ~otlp_str_is_utf8(name) THEN Result(h, "UTF8", s)
        ELSE IF n.st # "OK" THEN Result(n.h, "NOMEM", s)
        ELSE IF r.st # "OK" THEN Result(otlp_free(r.h, 1), "NOMEM", s)
        ELSE Result(r.h, "OK",
                [r.o EXCEPT !.events = Append(@, [name |-> n.o, time |-> time,
                                                  attrs |-> NoVec])])

\* The identifiers of a link are not looked at.
otlp_span_add_link(h, s, traceId, spanId) ==
    LET r == link_grow(h, s) IN
    IF traceId = NULL \/ spanId = NULL THEN Result(h, "NULL", s)
    ELSE IF Len(s.links) >= MaxLinks THEN Result(h, "OVERFLOW", s)
    ELSE IF r.st # "OK" THEN Result(r.h, "NOMEM", s)
    ELSE Result(r.h, "OK",
            [r.o EXCEPT !.links = Append(@, [traceId |-> traceId, spanId |-> spanId,
                                             attrs |-> NoVec])])

\* Attributes go to the event, or link, added last.
otlp_span_set_event_attribute(h, s, key, v) ==
    LET i == Len(s.events) IN
    IF i = 0 THEN Result(h, "INVALID_ARGUMENT", s)
    ELSE Into(SetAny(h, s.events[i].attrs, MaxEventAttrs, key, v),
              LAMBDA vec : [s EXCEPT !.events[i].attrs = vec])

otlp_span_set_link_attribute(h, s, key, v) ==
    LET i == Len(s.links) IN
    IF i = 0 THEN Result(h, "INVALID_ARGUMENT", s)
    ELSE Into(SetAny(h, s.links[i].attrs, MaxLinkAttrs, key, v),
              LAMBDA vec : [s EXCEPT !.links[i].attrs = vec])

---------------------------------------------------------------------------
(* otlp_span_clone, step by step *)

\* otlp_span_create, then the fields that need no memory.
CloneHead(h, src) ==
    LET new == otlp_span_create(h, src.name) IN
    IF new.st # "OK" THEN new
    ELSE Result(new.h, "OK",
            [new.o EXCEPT !.traceId = src.traceId, !.spanId = src.spanId,
                      !.parent = src.parent, !.start = src.start, !.end = src.end,
                      !.kind = src.kind, !.code = src.code, !.sampled = src.sampled])

CloneTexts(r, src) ==
    LET m == otlp_dup_str(r.h, src.message)
        t == otlp_dup_str(m.h, src.traceState)
    IN  IF r.st # "OK" THEN r
        ELSE IF m.st # "OK" THEN Result(m.h, "NOMEM", r.o)
        ELSE Result(t.h, t.st, [r.o EXCEPT !.message = m.o, !.traceState = t.o])

CloneAttrs(r, src) ==
    LET v == otlp_attr_vec_copy(r.h, src.attrs) IN
    IF r.st # "OK" THEN r ELSE Result(v.h, v.st, [r.o EXCEPT !.attrs = v.o])

\* Mutant: the attributes of the events are left behind.
CloneEventsBare(r, src) ==
    FoldLeft(LAMBDA q, e :
        AndThen(q, LAMBDA h, d : otlp_span_add_event(h, d, e.name, e.time)),
        r, src.events)

\* Event by event until one cannot be added: the event, then its attributes.
CloneEvent(q, e) ==
    LET a == otlp_span_add_event(q.h, q.o, e.name, e.time)
        v == otlp_attr_vec_copy(a.h, e.attrs)
    IN  IF q.st # "OK" THEN q
        ELSE IF a.st # "OK" THEN a
        ELSE Result(v.h, v.st, [a.o EXCEPT !.events[Len(a.o.events)].attrs = v.o])

CloneEvents(r, src) ==
    LET q[i \in 0..Len(src.events)] ==
            IF i = 0 THEN r ELSE CloneEvent(q[i - 1], src.events[i])
    IN  q[Len(src.events)]

CloneLink(q, l) ==
    LET a == otlp_span_add_link(q.h, q.o, l.traceId, l.spanId)
        v == otlp_attr_vec_copy(a.h, l.attrs)
    IN  IF q.st # "OK" THEN q
        ELSE IF a.st # "OK" THEN a
        ELSE Result(v.h, v.st, [a.o EXCEPT !.links[Len(a.o.links)].attrs = v.o])

CloneLinks(r, src) ==
    LET q[i \in 0..Len(src.links)] ==
            IF i = 0 THEN r ELSE CloneLink(q[i - 1], src.links[i])
    IN  q[Len(src.links)]

otlp_span_clone(h, src) ==
    LET OrNothing(r) ==
            IF r.st = "OK" THEN r
            ELSE Result(IF r.o = NULL THEN r.h ELSE otlp_span_free(r.h, r.o), "NULL", NULL)
    IN  OrNothing(CloneLinks(CloneEvents(CloneAttrs(CloneTexts(CloneHead(h, src),
                        src), src), src), src))
=============================================================================
