# Verification of otlp-c

This directory holds TLA+ specifications of otlp-c, an OpenTelemetry exporter in
C: the lock-free queue between application threads and the exporter, the
caller-driven export pipeline, the non-blocking HTTP client and its response
parser, the blocking flush calls and the retry policy, the telemetry objects with
their attribute vectors, the protobuf encoders and the reader of the collector's
answer, the slab allocator, the tracer with its samplers, and W3C trace context.
TLC checks them on small instances; TLAPS proves 33 of the 40 properties of the
passing runs for every value of the constants: the queue and its refinement of a
bounded buffer, the exporter, the HTTP request, the blocking flush with the retry
policy, the slab, the calls on spans, metrics and log records with any of their
allocations failing, and the tracer with its identifiers, trees of spans and
contexts. Three runs show the code in disagreement with what
the repository says of it; section 3 lists more such statements.

Paths below are relative to the repository (`src/exporter.c`, ...).
`PROJECT.json` maps each definition to the lines it models.

## 1. The system

The library starts no thread. Application threads build spans, metrics and log
records and *emit* them from anywhere; one thread, the owner, calls `tick()` (or
`flush()`), and everything that touches the network happens inside that call.

| Component | State | Operations | Interacts with |
|---|---|---|---|
| MPSC queue (`src/mpsc_queue.c`) | `head`, `tail`, per slot a sequence number and a pointer | `push` (any thread), `pop`, `size` (owner) | filled by emit, drained by tick; shared memory |
| Exporter (`src/exporter.c`, `src/exporter_otel.c`) | per signal: queue, pending batch, batch timer, counters; once: request in flight, retry counter, backoff, kept-alive socket, shutdown flag | `emit*`, `tick`, `flush`, `shutdown`, `free` | the queues, the HTTP request, retry policy, loggers (callbacks) |
| HTTP request (`src/http_client.c`) | state, socket, octets sent, response buffer, two clocks | `start`, `start_with_socket`, `step`, `detach_socket`, `free` | stepped by tick and by the blocking flush; platform sockets |
| Response parser (`src/http_response_parser.c`) | none; decodes chunked bodies in the caller's buffer | `otlp_http_resp_parse` | called after every read |
| Blocking flush (`src/exporter_sync.c`) | locals of the call, counters | `flush_metric`, `flush_log` | one HTTP request per attempt |
| Retry policy (`src/retry_policy.c`) | PRNG state | `otlp_retry_delay_ms` | both delivery paths |
| Slab and allocator hooks (`src/slab.c`) | free stack, used flags, installed hooks | `alloc`, `free_ptr`, `install`, `uninstall` | every allocation of the library |
| Tracer, sampler (`src/tracer.c`, `src/sampler.c`) | one atomic PRNG word, sampler pointer | `start_span`, `start_child_span` | spans |
| Spans, metrics, logs, attribute vectors (`src/span.c`, `src/metric.c`, `src/log.c`, `src/internal_util.c`) | growing vectors with limits | setters, clone, free | encoders, emit |
| Trace context (`src/context.c`, `src/w3c.c`) | none | inject, extract, parse, format | spans |
| Encoders, protobuf writer and reader | a growing buffer, a cursor | encode, decode PartialSuccess | exporter |
| Environment, URL parser, platform layer | none / sockets | configuration, I/O | exporter, HTTP request |

What is hard here, and what a test hardly reaches:

* *Interleaving.* Producers race on `head`; a producer may be suspended between
  its claim and its publication; an emit that has read the shutdown flag may
  push long after `shutdown()` returned; `emitted` is counted after the push.
* *One request, one backoff, one socket for three signals.* Items keep arriving
  in the array a request was built from; retry state must not pass from one
  batch to another; the kept socket may belong to someone else.
* *Partial failure.* A start may fail before or after the donated socket has
  changed hands, on a first attempt or on a retry.
* *Turns.* One request at a time is started for the first signal that is ready; a
  load that does not end on one signal is another's wait.
* *Time.* Batch timer, backoff, inactivity deadlines and the deadline of a
  flush are all polled; every one may be overdue when it is looked at.
* *Delivery.* Response octets arrive in any portions and the connection may end
  at any of them.
* *Memory.* Every setter, clone and encoder makes several allocations, each of
  which may fail; which of the blocks made so far are kept is decided line by
  line. With a slab installed, a block must find its way back to the allocator
  it came from.
* *Zero and empty.* Protobuf leaves out default values, except where a value's
  presence means something (the variants of an attribute value, a status).
* *Identifiers.* Threads draw them from one generator without a lock.

The `hazards` of `PROJECT.json` list these at their lines, with the properties
that guard them.

## 2. Modules

| Module | Models | Composes |
|---|---|---|
| `BoundedFifo` | what the exporter needs of a queue: a bounded buffer whose cells are reserved, then made ready, and taken in order | |
| `MpscQueue` | `src/mpsc_queue.c`, one action per atomic access | instance of `BoundedFifo` for the refinement |
| `MpscQueueProofs` | theorems about `MpscQueue`, its refinement of `BoundedFifo` included | extends it |
| `Exporter` | `src/exporter.c`, the start of requests in `src/exporter_otel.c`, `otlp_exporter_shutdown` | uses the behaviour of `BoundedFifo` and the outcomes of `HttpRequest` |
| `ExporterProofs` | the inductive invariant of `Exporter` and what follows from it, retry counter and accounting included | extends it |
| `Powers` | powers of two, which the code computes with shifts and doublings | |
| `NatRecursion` | lemmas: induction over a set of naturals, recursion defines a function, powers of two, division | extends `Powers` |
| `HttpResponse` | `src/http_response_parser.c`, as functions | |
| `HttpRequest` | `src/http_client.c` and, as environment, the socket, the peer and the clock | extends `HttpResponse`, `Powers` |
| `HttpRequestProofs` | theorems about the request and the parser | extends it and `NatRecursion` |
| `RetryPolicy` | `src/retry_policy.c` and the `Retry-After` line of the response parser, as functions | extends `Powers` |
| `SyncFlush` | `src/exporter_sync.c` | extends `RetryPolicy`, uses the outcomes of `HttpRequest` |
| `SyncFlushProofs` | theorems about the call and the policy | extends it and `NatRecursion` |
| `AttrVec` | `src/internal_util.c`: allocation, attribute values, attribute vectors | |
| `SpanObject`, `MetricObject`, `LogObject` | `src/span.c`, `src/metric.c`, `src/log.c` | use `AttrVec` |
| `Protobuf` | `src/protobuf_encode.c`, `src/protobuf_decode.c` | extends `AttrVec` for the heap |
| `OtlpSchema` | the field tables of `src/otlp_schema.h` | |
| `OtlpMessages` | `src/otlp_messages.c`, `src/otlp_metrics_encoder.c`, `src/otlp_logs_encoder.c` | uses the two above |
| `PartialSuccess` | decoding and reporting of the collector's answer (`src/exporter_otel.c`, `src/exporter.c`) | uses `Protobuf` |
| `OtlpWire` | the reference: what a reader must find in a request | |
| `ObjectCalls` | a caller that makes, changes, clones and frees an object | extends `SpanObject`, `MetricObject`, `LogObject` |
| `ObjectProofs` | theorems about `ObjectCalls` | extends it and `NatRecursion` |
| `TelemetryObjects` | the same caller, who also exports the object and reads the collector's answer | extends `ObjectCalls`, `OtlpWire`, `PartialSuccess` |
| `Slab` | `src/slab.c` and the allocator hooks of `src/internal_util.c` | |
| `SlabProofs` | theorems about the slabs | extends `Slab` and `NatRecursion` |
| `TraceContext` | `src/w3c.c`, `src/context.c`, as functions | |
| `Tracer` | `src/tracer.c`, `src/sampler.c`, and contexts on their way | extends `TraceContext` |
| `TracerProofs` | traces are trees, unique identifiers, contexts intact | extends `Tracer` and `NatRecursion` |
| `MC...` | constants of the small instances | |

### MpscQueue

`head`, `tail`, `seq[slot]` and `data[slot]` are the fields of the C struct; `ph[p]`
and the program counter of a producer are its local `h` and its place in the loop.
The relaxed load of `head` may return any value since the caller's previous look at
it (`LoadHead`), since nothing orders it with the acquire load of `seq`;
compare-and-swap, release stores and acquire loads act on the current value, which
is what C11 gives for one location. Indices are natural numbers: the wrap of
`uint64_t` after 2^64 pushes is not modelled. `data` is an ordinary variable, and
`NoDataRace` says that no two threads are ever about to access one slot's data with
one of them writing.

### Exporter

One action per step of `tick` that other threads can see in between: pop one
item, leave the drain loop, answer over the null transport, start a request, step
it, record the outcome, start the retry, end the round. The queue is a sequence
of cells that are reserved and later ready, which is exactly `BoundedFifo`, so
an item claimed by a suspended producer blocks the drain but counts in
`mpsc_queue_size`. `inFlightCount` and `wire` are kept apart on purpose: the
first is the number the code counts with, the second what the request body
contains. `record_outcome` follows the status switch of the C function, and
`StartFails` tells the two places apart where a build can fail: before the
donated socket has changed hands, and then nobody closes it, or after. `lost`
counts the sockets nobody owns any more.

Time is abstracted to effects: `first[s]` is unset, set or aged; a backoff is
off, armed or due; loops bounded by a deadline may stop at any round.

Items have names and there are at most `MaxItems`, so every load ends. Of a load
that ends, `SettledIfStarted` says that each item is settled. Of one that does not it
would not be true of the code: `tick` starts the first signal's batch that is ready,
one request at a time, and a retry before any other (`TickStart`, `TickRetry`), so
spans that always fill a batch keep metrics and logs from ever being sent. Bounded
items cannot show that; the property is to be read with this restriction.

`null_transport` is fixed per instance: switching it while a request is in
flight is not modelled.

### HttpResponse and HttpRequest

A response is a head (the header lines that decide on framing and persistence)
followed by octets. An octet is one of the kinds that the parser tells apart: a
carriage return, a line feed, a semicolon, a hexadecimal digit with its value, any
other. Payload may be of every kind, so that it may look like framing. A
read delivers any non-empty prefix of what is on the way. The parser is a
function from the buffer to a verdict *and to the buffer afterwards*, because the
chunked decoder writes into it. `Retry-After` is not scanned here.

The peer may accept, refuse, reset, stop and resume reading, answer with any of
the given answers, also with more octets than it announced, say something
(`Unsolicited`) on a connection that is kept, send for ever if the body has no
length, and close at any moment, also while the connection is kept between two
requests. Octets that a request does not read stay in the connection, and the
next one reads them. Two variables are for the properties: `stale`, that the
connection holds or held octets which answer no request of it, and `quiet`, the
time since an octet went either way.

### SyncFlush and RetryPolicy

`flush_metric` and `flush_log` are one code over two sets of counters; the module
is one of them. Time is counted in polls, and the sleep between attempts is a
delay the policy may draw. An attempt begins with the resolution of the collector's
name, which blocks for anything up to `ResolveMax` before the deadline of the attempt
is set (`PostStart`): the library sets no limit to it, the resolver of the platform
does. The policy is a function from attempt, floor and configuration to the *set* of
delays its jitter may give, in words of `WordBits` bits: the shift that is clamped
and the `attempt - 1` that wraps are kept, at a width at which both can be enumerated.

### AttrVec, SpanObject, MetricObject, LogObject, ObjectCalls

A heap is a number of blocks in use, a number of allocations made and the set of
those that fail. Every function of the C code that allocates is a function from
a heap and an object to the next heap, a status and the next object; what it
leaves behind on an error path is thereby part of its value. Attributes are
records of key, type and value, arrays and key-value lists nested; an event or
link carries its own vector, with limits of its own (`OTLP_SPAN_MAX_ATTRIBUTES`,
`OTLP_EVENT_MAX_ATTRS`, `OTLP_LINK_MAX_ATTRS` are `MaxAttrs`, `MaxEventAttrs`,
`MaxLinkAttrs`). The records are also given as sets (`Attr`, `Span`, `Metric`,
`Log`, ...), which are the C structs. A value is at most two levels deep: the
elements of an array or a list are scalars. Texts are short sequences of numbers,
one of which stands for an octet that is not UTF-8. The `mark_` functions are the
setters with the clock's value, so they have no definition of their own.

`ObjectCalls` makes calls in any order on one object, clones and frees it;
`TelemetryObjects` also exports it (with its clone, so that a batch has two items)
and receives an answer. Each call takes place with no failure, or with any one of
its allocations failing; constructors and clones, which go on after a failure, also
with all from one on. The functions, and the lemmas about them, are for any set
of failing allocations.

### Protobuf, OtlpSchema, OtlpMessages, PartialSuccess, OtlpWire

An encoder is the sequence of fields it emits; `Emit` performs them on a buffer,
octet by octet, with the buffer's growth, the sub-buffers of nested messages and the
failure of any of their allocations. `OtlpWire` reads the octets back with the
library's reader and the schema's tables and compares with the object: every value
set, nothing else, no repeated singular field, absent fields at their default.
Bucket counts are compared one by one, minimum and maximum by value. What the
encoders do not send, and the reader therefore does not look for, is named in the
comment of `WireFaithful`. Whether a field that may be left out is one the table
marks `ALWAYS_EMIT` is a property of its own (`SpansComplete`). A field's number is
cut to 32 bits by the reader, as in the code. The field numbers themselves are one
table in code and model, so a number that is wrong in both would not be seen.
Doubles are those of small integers, numbers stay below 2^28; a negative one is the
64-bit number it is. `PartialSuccess` reads answers cut at any octet and with fields
of every wire type that this version does not know.

### Slab

Clients hold blocks and mark what they write, so that an overlap or a lost copy
shows. A pointer is its area (an arena, libc, the allocator below) and a number.
`Prev` is the allocator below, libc's or the application's.
`Malloc`, `Free` and `Realloc` go through the hooks, `SlabAlloc` and `SlabFreePtr` to a
slab of the caller's own; `Destroy` requires what `slab.h` requires of the caller.
The own slab is created before the global one is installed, so that the memory
of both comes from below.

### Tracer and TraceContext

Each access to the generator's word is an action, so threads interleave between the
load and the compare-and-swap, and between the two words of a trace identifier.
`draws` counts the words drawn, for the properties. The word has 16 bits, with
shifts and a multiplier for that width in place of the 64-bit ones; identifiers are
correspondingly short. (The assumptions of the module allow any width and any
shifts, so also the code's.) A sampler drops a span, records it without the sampled
flag, or samples it. That of the ratio compares the identifier's prefix with the
scaled ratio as the C code does; one of the application's may decide anything, since
it is also given the name and the kind of the span. Headers are sequences of
characters; a carrier may fail after any number of headers, and the header may
arrive altered, in ways the W3C format allows or not.

## 3. Runs

| Run | Expect | Shows | Size |
|---|---|---|---|
| `mpsc` | pass | safety, refinement of `BoundedFifo`, delivery | 121 000 states |
| `exporter` | pass | ownership, batches, outcomes, counters, sockets for one signal | 2.2 million states |
| `exporter_signals` | pass | retry counter, and liveness of a load that ends, with two signals | 194 000 states |
| `exporter_emit` | pass | accounting with two emitters, null transport | 884 000 states |
| `exporter_loss` | violation | items freed uncounted behind a request | |
| `exporter_stuck` | violation | partial batch forgotten after a failed retry start | |
| `http_request` | pass | done is complete and faithful, kept sockets hold nothing announced, timeouts only after silence, bound, end | 126 000 states |
| `http_chunked_split` | violation | chunked answer rejected because of where a read ended | |
| `sync_flush` | pass | accounting, budget, delays, bounded blocking, return | 11 200 states |
| `objects` | pass | no leak, failed calls without effect, whole clones, faithful encoding and decoding | 31 800 states |
| `memory` | pass | free stack and live blocks, contents, blocks back to their allocator | 234 000 states |
| `tracing` | pass | unique identifiers, traces are trees, contexts intact | 995 000 states |

Bounds, and why they suffice to make the cases happen:

* `mpsc`: six pushes through two slots, so the ring wraps three times, is full and
  empty repeatedly, and a producer can be a lap behind. Two producers are enough for
  every pairwise race; the theorems cover any number.
* `exporter`: `batch_size` 1 makes the pending array two long; with three items one
  is in flight, one drained behind it and one still queued or in hand. `max_retries`
  1 gives a retry and an exhausted budget. One failing start, before or after it has
  taken the kept socket.
* `exporter_signals`: `batch_size` 2 with one item per signal leaves batches
  partial, so the batch timer matters; one start may fail. The collector answers 2xx
  or the request fails, which is all that liveness depends on.
* `exporter_emit`: two emitters, interchangeable (symmetry), and three items for a
  queue of two places.
* `http_request`: two requests, so that a kept connection is used, and may have been
  closed meanwhile or hold octets nobody asked for; answers with a length, without,
  with more octets than announced, with a body that looks like the end of a head;
  chunked ones with an extension, a trailer and each of the decoder's errors; and
  heads that contradict themselves. The buffer limit is 12 units, so that an endless
  body passes it.
* `sync_flush`: two calls, three attempts each, two polls per deadline and up to
  three more for the resolution of the name. The policy is evaluated for every
  attempt, initial delay and maximum of a four-bit word, so that the exponent passes
  its limit and `attempt - 1` wraps, and for `Retry-After` texts that are absent,
  small, saturated, too long, a date.
* `objects`: three changes for a span, two for a metric or a log record. That is an
  event or link with an attribute, a replaced attribute, a vector that grows and one
  at its (lowered) limit; values of every type and of every kind that is refused. An
  event takes one attribute, a link two, so that the limits of the three kinds of
  vector differ. The failing allocation is any of those a call makes. Plain setters
  are called among the first changes only (`MaxPlain`), since their order does not
  matter.
* `memory`: three clients for two slots, blocks that fit exactly, fit with room and
  do not fit; five allocating calls. The allocator below is the application's, so
  that a block of it and one of libc are told apart; over libc they are the same,
  and the theorem is about both.
* `tracing`: two threads and up to three spans, so that a root, its child and a
  competitor overlap; samplers that take all, half, or what the application decides
  (drop, record, sample). A context is sent of the first span or of one without
  identifiers: which span it is makes no difference to the functions.

`CHECK_DEADLOCK FALSE` is set because each system may stop: all bounded work is
done, the exporter is freed, or the owner does not call again.

### Fairness

* Queue: a thread inside `push` or `pop` keeps running (weak fairness), the
  consumer keeps calling `pop`. A producer that calls is not required to.
* Exporter: the owner keeps calling `tick` or `flush` (the library's contract),
  the clock goes on, a thread inside `emit` gets through its straight-line code.
  A request does not stay in flight for ever; this is `RequestEnds` of
  `HttpRequest`, where it follows from stepping and the clock alone.
* HTTP request: it is stepped and the clock goes on; nothing is assumed of the
  peer.
* Blocking flush: the calling thread runs; nothing is assumed of the collector.

### What the violations show

1. *Items lost behind a request* (`src/exporter.c:863`). `tick` drains new items
   into the array of the batch in flight; the outcome frees all of them but counts
   only the ones sent. They are neither sent nor counted, contrary to the
   accounting invariant stated in `src/exporter_sync.c` and in
   `tests/test_shutdown_stress.c`. The tests use the null transport, where a
   batch is answered in the same step and the case cannot arise: `exporter_emit`
   passes with the same property.
2. *A forgotten batch* (`src/exporter.c:1288`). A retry that cannot be started
   leaves a partial batch without timer and without backoff.
3. *Chunked answers in pieces* (`src/http_response_parser.c:128`). Decoding in
   place destroys the framing that the next call has to read again.

### Disagreements without a run of their own

These are written down as properties beside the ones that hold. TLC refutes each
when it is checked in the configuration named:

| Statement | From | Configuration | What happens |
|---|---|---|---|
| `SocketsOwned` | `src/exporter.c:899`: a failed start's donated socket "was closed by the build path" | `Exporter.cfg` | the start fails before it takes the socket; `SocketsAccounted` counts it as lost |
| `TimeoutIsFinal` | `src/exporter_sync.c:184`: "Non-2xx responses and timeouts are permanent (no retry)" | `SyncFlush.cfg` | the POST is repeated after a deadline, so the item may be delivered twice |
| `GivesUpInTime` | `include/otlp-c/exporter.h:182`: `flush_timeout_ms` is the "max wall-clock milliseconds" of the blocking flush | `SyncFlush.cfg` | it is the deadline of each of `max_retries + 1` attempts, and set after the name is resolved; `BlocksBounded` is what holds |
| `KeptDrained` | `src/http_response_parser.c:318`: "Need exactly content_length bytes" | `HttpRequest.cfg` | more will do, and the rest stays in the kept connection for the next request to read |
| `ChunkedBodyFaithful` | `src/http_response_parser.c:50`: "unread bytes are never clobbered" | `HttpRequest.cfg` with `Answers <- JustFraming` | payload that reads `0 CRLF CRLF` where a size line was is taken for the last chunk by the second call, and the request is DONE with another body |
| `FallbackSafe` | `src/slab.c:253`: "libc malloc is always safe"; `slab.h:80` | `Slab.cfg` | over another allocator the fallback's blocks are freed by that one |
| `WireFaithful` for any number | `src/protobuf_decode.c:31`: no "garbage key" may "alias a real field" | `TelemetryObjects.cfg` with `Answers <- MCWideAnswers` | a field number is cut to 32 bits, so 2^32 + 1 is 1 |
| `SpansComplete` | `src/otlp_schema.h:225`: span times are `ALWAYS_EMIT` | `TelemetryObjects.cfg` | an unset time is left out, and so are counts of zero in histogram points |
| `TextsVerbatim` | `include/otlp-c/context.h:109`: tracestate and baggage are "copied verbatim" | `Tracer.cfg` | they are cut to their field, or left out if they hold a control character |

With `Capacity = 1` in `MpscQueue.cfg`, which passes the power-of-two test
(`src/mpsc_queue.c:54`), "full" and "free for the next lap" become the same sequence
number and `WithinCapacity` is violated.

The others are visible in the definitions named.

Exporter and HTTP: a load without end on one signal starves those behind it, although
an accepted item "will be POSTed by tick()" (`TickStart`, section 2); the one
kept-alive socket is donated without comparing its host
with the signal's endpoint, which `http_client.h:90` makes the caller's
responsibility (`src/exporter.c:897`); a request carries up to twice
`batch_size` items (`PendingCap`); an item that joins a batch during a backoff is
dropped with it (`record_outcome`); with two signals a failed retry start lets
another signal's success reset the shared retry counter
(`clear_in_flight_batch`), so a batch may be POSTed more than `max_retries + 1`
times, and `AttemptCounts` bounds the number only while every start succeeds; 1xx
and 3xx are counted as 4xx (`CounterOf`); the response buffer grows to twice
`OTLP_HTTP_RESP_MAX` (`TypeOK` of `HttpRequest` states the real bound); the last
of several `Connection` lines decides, and one `Transfer-Encoding: chunked` line
outweighs another coding (`ScanLine`); a `Retry-After` of more than ten digits with
leading zeros is read short (`retry_after_ms`); a base delay of 0 ignores the floor,
which the exporter avoids by never passing 0 (`otlp_retry_delay_ms`).

Objects and encoders: the writer's comments call its functions atomic on failure,
but a failed `otlp_pb_bytes` leaves tag and length behind (harmless, since the
callers throw the buffer away); they speak of 64 inline octets, the size is 192;
the field numbers in the comment of `emit_exemplar` are
not those of the table; exemplars of exponential histograms are never encoded; an
event or log record without any content vanishes from the wire. A clone drops the
only bucket of a histogram without bounds, which is not encoded either.
`set_exp_histogram` and `set_severity_text` free the old value before they have
the new one, the second even returns `OTLP_OK` without memory, and a record into a
histogram without bounds counts before it fails: the three exceptions in
`FailureAtomic`. `set_trace_context` of an exemplar keeps the trace identifier when
it refuses the span identifier. The setters of event and link attributes read the
span before they test it for NULL (`src/span.c:501`). A key that is cut off at the
end of a PartialSuccess counts as its end (`decode_partial_success_sub`).

Tracing: the generator keeps the scrambled word as its state (`tracer_prng_next`),
where xorshift64* keeps the one before the multiplication, so the period of 2^64 - 1
that the shifts alone have is not known of the code (the 16-bit one of the instance
repeats after 19822 words); the child of a parent with zero identifiers gets a zero
trace identifier and no parent (`StartChild`).

## 4. Proofs

TLAPS checks the theorems below for every value of the constants that the named
assumptions of the modules allow: any number of threads, signals, items, clients,
requests and retries, any capacities and deadlines. 33 of the 40 properties of
the passing runs are theorems. A hypothesis beyond those assumptions is part of a
theorem's statement and explained here.

Each module follows one pattern: an inductive invariant `IInv`, a conjunction of
named parts; `Init => IInv`; one lemma or step per action of `Next` that it keeps
each part it can disturb; and the properties as consequences. TLC checked the
invariants of `HttpRequestProofs` (`IInv`, `FInv`) on the instance of the run
`http_request` and the one of `ObjectProofs` (`CInv`) on that of `objects`, too.

### MpscQueueProofs

`TypeCorrect` holds for every power-of-two capacity; the others for a capacity of
at least 2 (with one slot `WithinCapacity` fails, so the hypothesis cannot be
dropped): `Inductive`, `CapacityRespected`, `FirstInFirstOut`, `RaceFree`,
`NullIsHonest` (`pop` returns NULL only if the oldest item is not published),
`FullIsHonest` (the action property `FullOnlyAtCapacity`) and
`RingImplementsFifo`.

The argument. The live indices are those from `tail` (or the one after it, while
the consumer is between release and advance) up to `head`; there are at most
`Capacity` of them. `IInv` says what the sequence number of each slot is: for a
live index, the index itself while its producer owns it and index + 1 once it is
published, with the pushed item in `data`; for the free slots, the index the next
lap will use. It also says that each producer between claim and publication owns a
distinct live index, that nobody works with an index beyond `head`, and where the
consumer stands. `WithinCapacity` alone is not inductive: that a producer which
finds `seq = h` and wins the compare-and-swap claims a *free* slot needs the whole
window. The arithmetic is in a few lemmas on `%`: distinct indices less than
`Capacity` apart have distinct slots (`SlotDistinct`), an index and its successor
of the next lap share one (`SlotNextLap`), and a window of `Capacity` indices
covers all slots (`SlotCovered`).

The refinement maps the live window to a sequence of cells, ready once published.
A successful compare-and-swap is a reservation at the end, the release store of
the sequence number makes that cell ready, the consumer's release takes the first
one, which `IInv` knows to be ready; every other step stutters. Beyond `IInv` it
needs that no two calls push the same item (`FreshItems`), since the buffer
identifies cells by their items.

### ExporterProofs

`ExporterInvariant` gives `TypeOKHolds`, `OwnershipHolds`, `BatchKeptHolds`,
`OutcomeIsFinalHolds`, `StatsExactHolds`, `FlushOkSettlesHolds` without hypotheses.
The actions move items in a handful of ways only: a call takes a new item, drops it
or puts it into a queue, `tick` drains a cell into a batch, an outcome clears a
batch, `free` frees everything. Every action is shown to be one of these moves,
and each part of the invariant about items (`Places`, `DistinctPlaces`,
`Acceptance`, `Flushed`) is shown to survive each *move*, not each action.
`Requests` ties the request body to the front of the pending array, however many
items are drained behind it; `Settled` and `Tallied` count the items of a batch
for the signal that accepted them; that is exact because an item belongs to one
signal and the batch is cleared in the step that counts it. (Items drained behind
the batch are cleared uncounted, which `Accounting` is about.)

* `SocketsAccountedHolds` has no hypothesis either. A start that fails before the
  donated socket has changed hands leaves it open without an owner; `lost` counts
  these, the invariant (`SocketInv`) bounds them by the failed starts, and every
  other open socket is the request's or the kept one.
* `AttemptCountsHolds` is about HTTP (`~NullTransport`). The extra invariant says
  that the oldest item of the current batch has been POSTed exactly as often as
  the shared counter says, and the others of it no more often, those of other
  signals not at all. The null transport answers the first batch it finds after a
  backoff, whichever the backoff was for, so the counter does pass to another
  batch there; nothing is POSTed then.
* `AccountingHolds` is about the null transport, since over HTTP the property is
  violated (`exporter_loss`). The invariant counts the calls between push and the
  increment of `emitted` on one side, queue and batch on the other.

### SyncFlushProofs

`CallInvariant` gives `SyncAccountingHolds`, `AnswerIsFinalHolds` and
`BlocksBoundedHolds`. For the last, the invariant bounds the time at each place of
the loop by the deadlines of the attempts made, `ResolveMax` for each of them, and
the sum of the first backoffs (`Allowed`), for whatever `ResolveMax` is; and lemmas
bound each drawn delay by its attempt's ceiling.

`RetryDelaySoundHolds` is about the policy for words of any width, for `Retry-After`
texts of which enough digits are read (`ReadEnough`: all of them, or enough to
reach the saturation). A text of more than ten digits that begins with zeros is
not such a text, and the parser does read it short (section 3).

### SlabProofs

`SlabExactHolds` is unconditional: free stack and marks are complementary, marks
are the slots that clients hold, no two clients hold one block.
So is `BlocksIntactHolds`, over libc and over an allocator of the application's:
clients find what they wrote (`Contents` of the invariant), and every block goes back
to the allocator it came from. The statement itself makes the one exception, the
blocks that a full slab takes from libc over another allocator (section 3).

### HttpRequestProofs

No theorem has a hypothesis on the answers: they may be longer or shorter than
announced, chunked, contradictory, endless or unsolicited.

`HttpInvariant` gives `TypeOKHolds`, which bounds the growth of the buffer by doubling
at `2 * RespMax`; `SocketOwnedHolds`; `AcceptedHolds`, that only unambiguously framed
answers are accepted; `PlainSplitIndependentHolds`; and `TimeoutOnlyIfSilentHolds`, an
action property: the invariant ties the timer that the code resets to `quiet`, the
time since an octet went either way, and says that what was read so far is no
answer, so neither is what is timed out. The lemmas under them say what the header
scan returns for any number of lines (the last length, which is that of all of them;
a coding if there is one) and that the parser leaves the buffer alone unless the
body is chunked.

`StreamInvariant` gives `DetachedCleanHolds` and `DoneFaithfulHolds`. On a connection
that is not stale the invariant sees what was read, is under way and is still to be
sent as one stream whose k-th unit is known (`Stream`, `Whole`), for answers without
transfer coding; when a request is released with its connection kept, what is left of
the stream is behind the announced end, which is `DetachedClean`; and a request that
finds something left begins on a stale connection. For chunked answers
`DoneFaithful` claims the status and the unambiguous framing only, since decoding in
place loses data between reads (`http_chunked_split`, `ChunkedBodyFaithful`).

### ObjectProofs

`CallsInductive` (the invariant `CInv`), `CallsTypeCorrect`, `VecsHold`,
`HeapExactHolds` and `FailureAtomicHolds`: whatever sequence of calls is made on a
span, metric or log record, and whichever allocations fail in them, vectors stay
within capacity and limit with no key twice, the blocks in use are exactly those
that freeing the object and its clone gives back, and a call that fails leaves the
object as it was, with the three exceptions of section 3. The theorems hold for
any texts, attributes and identifiers a caller passes, any limits and any number
of calls.

The blocks of an object are a sum over its parts (`AttrBlocks`, `VecBlocks`,
`SpanBlocks`, `MetricBlocks`, `LogBlocks`), and `CInv` says that object and clone
are whole (`SpanGood`, `MetricGood`, `LogGood`: the types of the fields, `GoodVec`
for each vector, counts within capacities) and that `live` is the sum of their
blocks. `HeapExact` follows because each `free` gives back the blocks of
what it frees; by itself it is not inductive, since it does not say that the
vectors are such that the next call can keep it. The proof has one contract for
each function of the code, from the bottom up: a function that allocates changes
the heap by the blocks of what it returns (`Uses`, `Makes`), a setter by what the
object has gained or lost and leaves it alone if it fails (`Changed`,
`SpanChanged`, `MetricChanged`, `LogChanged`), a clone or a constructor gives a
whole object or none (`Cloned`, `Built`, `WholeOrNone`). The loops of the code
(copy the elements of a value, the attributes, the events, until one fails) are
recursive functions over a number; `EachMade` shows their contract for any
constructor of elements. Each call is then one step of `CInv`.

The theorems are about `CallsSpec`, the calls without the export. An export makes
no change to the objects, so it can only disturb `HeapExact`, through the
request's buffers; that it does not is checked by TLC (run `objects`), because the
encoder is recursive.

### TracerProofs

`IdsUniqueHolds` says that threads which interleave in the compare-and-swap loop
get different words. Its hypothesis `NoRepeat(p)`, that the first `p` states of
the generator are different, is a property of three shifts and a factor, not of the
program, and without it the statement is false: a generator that repeats itself
repeats identifiers. The theorem is for as many words (`draws < p`). It is not
vacuous: `NoRepeat(19822)` holds of the instance's generator. The
invariant `UInv` says that the first word of every identifier, complete or in the
making, is a state the generator has passed through, and that no two begin
with the same state. That needs that the state is the `draws`-th of the orbit
(a compare-and-swap that fails changes nothing, one that succeeds goes on by one
state), and that the octets of a word determine it (`Octets` is injective).

`TracesAreTreesHolds` has the same hypothesis: whatever the samplers drop and however
the threads interleave, a trace has at most one recorded root, and the parent that
any other span names is one recorded span of the same trace. Two roots of one trace
would need two equal trace identifiers, and two candidates for a parent two equal
span identifiers; the invariant (`Trees`) carries this over identifiers that are
still being drawn.

`ContextIntactHolds` is the round trip of a context: what
`otlp_traceparent_format_raw` writes says the identifiers and the flag (`Says`),
what is parsed from a header that says them is them (`ParseSays`), and an altered
header is parsed to the same or refused, as the W3C format demands (`AlteredParsed`).
The flag is that of the span, which is unset when the sampler only records it;
tracestate and baggage are cut or left out but never exchanged (`TextTaken`).

### NatRecursion

Helper lemmas only, about numbers and not about the code. The library's induction
theorems take an operator, which the provers cannot instantiate. `SetInduction` and
`LeastElement` state induction for a *set* of naturals, and `Recursion` that a step
function defines a function by recursion; so recursive functions (`Pow2`, the series
of backoffs, the header scan, the decimal number of a header, the orbit of the
generator, sums of blocks, loops that make elements) can be unfolded and reasoned
about. `RecursionUpTo` is the same for a function on the first numbers only, as the
loops are.

### Only model-checked

* Liveness (`EveryClaimDelivered`, `SettledIfStarted`, `ShutdownDrains`,
  `RequestEnds`, `FlushReturns`): fairness and `ENABLED` are outside the prover's
  reach.
* `WireFaithful`, and `HeapExact` over the step that exports: the encoder and the
  reader are `RECURSIVE` operators.
* `CloneFaithful`: that a clone has the contents of its original, element by
  element through nested values, is induction over data.
* The octets of chunked bodies: TLC runs the decoder over those of the instance, and
  what it does not keep is in section 3.

## 5. Not modelled

* Wrap-around of 64-bit indices and counters.
* Memory orders other than what section 2 says of the queue; the statistics are
  relaxed counters and are only compared at rest.
* Environment variables (`src/env_config.c`): strings parsed once at start-up; an
  error leaves the options that were set before it in place. Status names and
  version: constant strings.
* URLs, the text of requests, logging and event callbacks, platform differences.
* `set_null_transport` during operation, `poll_fds` and `get_stats`, which do not
  change state.
* Where the seed of a generator comes from; a zero one is replaced, as in the code.

## 6. Plan

Done: every component of section 1 but the environment; the theorems of section 4.
What is left, in this order:

1. Chunked answers: that a chunked answer which arrives in one piece is decoded to
   its payload, as an invariant of the rounds of `decode_chunked_in_place`, so that
   `DoneFaithful` and `DetachedClean` hold of it when no read splits it.
2. `ObjectCalls`: `CloneFaithful`, by adding to the contracts of the cloning functions
   what they copy; values are two levels deep, so each level is a lemma of its own.
3. `Protobuf`: the writer with folds in place of recursion, so that the balance of
   the buffers of an export can be proved as well.
