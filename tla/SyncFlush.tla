----------------------------- MODULE SyncFlush -----------------------------
(***************************************************************************)
(* src/exporter_sync.c: otlp_exporter_flush_metric and _flush_log encode   *)
(* one item, POST it on a connection of its own and block until it is      *)
(* answered, retrying what failed before an answer came.  The two calls    *)
(* are the same code over two sets of counters; this is one of them.       *)
(*                                                                         *)
(* A request is its start and its outcome (HttpRequest has the rest).      *)
(* Time is counted in units of the polling interval.                       *)
(***************************************************************************)
EXTENDS RetryPolicy

CONSTANTS MaxRetries, FlushTimeout,
          BackoffInitial, BackoffMax,
          SyncDelayCap,    \* longest delay of a synchronous retry (100 ms)
          ResolveMax,      \* external: longest time getaddrinfo may block
          RetryAfters,     \* values of the Retry-After header
          MaxCalls         \* bound: number of calls

ASSUME SyncAssumption ==
  /\ {MaxRetries, FlushTimeout, BackoffInitial, BackoffMax} \subseteq Nat \ {0}
  /\ {SyncDelayCap, ResolveMax, MaxCalls} \subseteq Nat
  /\ RetryAfters \subseteq Seq(Nat)

\* The configuration of the synchronous retries.
cfg == [initial_ms |-> BackoffInitial, max_ms |-> Lesser(BackoffMax, SyncDelayCap)]

VARIABLES
  pc,                      \* "idle", "post", "wait", "retry" or "sleep"
  attempt, got_response, st,
  polled,                  \* time since this attempt's deadline was set
  delay,                   \* time left to sleep
  emitted, sent, droppedErr,
  \* history
  calls, elapsed, posts, answers

locals   == <<attempt, got_response, st, polled, delay>>
counters == <<emitted, sent, droppedErr>>
history  == <<calls, elapsed, posts, answers>>
vars     == <<pc, locals, counters, history>>

Init ==
  /\ pc = "idle" /\ attempt = 0 /\ got_response = FALSE /\ st = "OK"
  /\ polled = 0 /\ delay = 0
  /\ emitted = 0 /\ sent = 0 /\ droppedErr = 0
  /\ calls = 0 /\ elapsed = 0 /\ posts = 0 /\ answers = 0

\* The call returns: the item counts as sent or as dropped.  Mutant: a
\* failure is not counted.
CountSuccess(ok) ==
  \/ ok /\ sent' = sent + 1 /\ UNCHANGED droppedErr
  \/ ~ok /\ UNCHANGED <<sent, droppedErr>>

Count(ok) ==
  \/ ok /\ sent' = sent + 1 /\ UNCHANGED droppedErr
  \/ ~ok /\ droppedErr' = droppedErr + 1 /\ UNCHANGED sent

\* otlp_exporter_flush_metric is called; the item is encoded, or there is no
\* memory for it, or the null transport (which the caller may switch on and
\* off) takes it.
FlushCall ==
  /\ pc = "idle" /\ calls < MaxCalls
  /\ calls' = calls + 1 /\ emitted' = emitted + 1
  /\ attempt' = 0 /\ got_response' = FALSE /\ st' = "NETWORK"
  /\ \/ pc' = "post" /\ UNCHANGED <<sent, droppedErr>>
     \/ pc' = "idle" /\ Count(FALSE)
     \/ pc' = "idle" /\ Count(TRUE)
  /\ elapsed' = 0 /\ posts' = 0 /\ answers' = 0
  /\ UNCHANGED <<polled, delay>>

\* flush_post_once: the name is resolved, which blocks; then the request starts
\* and its deadline is set, or it cannot be started.
PostStart ==
  /\ pc = "post"
  /\ elapsed' \in elapsed..(elapsed + ResolveMax)
  /\ \/ pc' = "wait" /\ polled' = 0 /\ posts' = posts + 1 /\ UNCHANGED st
     \/ pc' = "retry" /\ st' \in {"NOMEM", "DNS", "CONNECT"} /\ UNCHANGED <<polled, posts>>
  /\ UNCHANGED <<attempt, got_response, delay, counters, calls, answers>>

\* The request is answered, with 2xx or with something else.
PostAnswered ==
  /\ pc = "wait" /\ got_response' = TRUE /\ answers' = answers + 1
  /\ st' \in {"OK", "NETWORK"} /\ pc' = "retry"
  /\ UNCHANGED <<attempt, polled, delay, counters, calls, elapsed, posts>>

\* The request fails before an answer.
PostFails ==
  /\ pc = "wait" /\ st' = "NETWORK" /\ pc' = "retry"
  /\ UNCHANGED <<attempt, got_response, polled, delay, counters, history>>

\* Mutant: the deadline is not looked at.
PollsOn ==
  /\ pc = "wait" /\ polled < FlushTimeout
  /\ polled' = polled + 1 /\ elapsed' = elapsed + 1
  /\ UNCHANGED <<pc, st, attempt, got_response, delay, counters, calls, posts,
                 answers>>

\* Mutant: the deadline is looked at after one more poll.
PollsPast ==
  /\ pc = "wait"
  /\ \/ /\ polled > FlushTimeout
        /\ st' = "TIMEOUT" /\ pc' = "retry"
        /\ UNCHANGED <<polled, elapsed>>
     \/ /\ polled <= FlushTimeout
        /\ polled' = polled + 1 /\ elapsed' = elapsed + 1
        /\ UNCHANGED <<st, pc>>
  /\ UNCHANGED <<attempt, got_response, delay, counters, calls, posts, answers>>

\* Nothing yet: give up if the deadline has passed, poll again otherwise.
PostPolls ==
  /\ pc = "wait"
  /\ \/ /\ polled >= FlushTimeout
        /\ st' = "TIMEOUT" /\ pc' = "retry"
        /\ UNCHANGED <<polled, elapsed>>
     \/ /\ polled < FlushTimeout
        /\ polled' = polled + 1 /\ elapsed' = elapsed + 1
        /\ UNCHANGED <<st, pc>>
  /\ UNCHANGED <<attempt, got_response, delay, counters, calls, posts, answers>>

\* flush_sync after an attempt is done when it succeeded, was answered, or was
\* the last one; mutant: an answer is not final.
IgnoresAnswer == st = "OK" \/ attempt = MaxRetries
Final == st = "OK" \/ got_response \/ attempt = MaxRetries

Return ==
  /\ pc = "retry" /\ Final
  /\ Count(st = "OK") /\ pc' = "idle"
  /\ UNCHANGED <<locals, emitted, history>>

Backoff ==
  /\ pc = "retry" /\ ~Final
  /\ delay' \in otlp_retry_delay_ms(attempt + 1, 0, cfg) /\ pc' = "sleep"
  /\ UNCHANGED <<attempt, got_response, st, polled, counters, history>>

Sleep ==
  /\ pc = "sleep"
  /\ \/ delay > 0 /\ delay' = delay - 1 /\ elapsed' = elapsed + 1 /\ UNCHANGED <<pc, attempt>>
     \/ delay = 0 /\ pc' = "post" /\ attempt' = attempt + 1 /\ UNCHANGED <<delay, elapsed>>
  /\ UNCHANGED <<got_response, st, polled, counters, calls, posts, answers>>

Next == \/ FlushCall \/ PostStart \/ PostAnswered \/ PostFails \/ PostPolls
        \/ Return \/ Backoff \/ Sleep

Spec == Init /\ [][Next]_vars

\* The calling thread runs; nothing is assumed of the collector.
FairSpec ==
  Spec /\ WF_vars(PostStart \/ PostPolls \/ Return \/ Backoff \/ Sleep)
-----------------------------------------------------------------------------
\* Whatever way a call ends, its item is counted as sent or as dropped
\* ("Accounting invariant: emitted == sent + dropped_err").
SyncAccounting == pc = "idle" => emitted = sent + droppedErr

\* An answer is final: the item is not POSTed again after the collector has
\* answered, with success or with an error; nor is it POSTed more often than
\* once plus max_retries times.  An attempt that ran into its deadline is no
\* answer and is repeated, although the collector may have taken the item.
AnswerIsFinal ==
  /\ answers <= 1 /\ (answers = 1 => pc \in {"retry", "idle"})
  /\ posts <= MaxRetries + 1

\* The call returns, whatever the collector does.
FlushReturns == pc # "idle" ~> pc = "idle"

\* The ceiling that attempt number n should have.
Ceiling(n, initial, max) == Lesser(initial * Pow2[n - 1], max)

\* The longest that the first n backoffs can take.
Backoffs[n \in Nat] ==
  IF n = 0 THEN 0 ELSE Backoffs[n - 1] + Ceiling(n, cfg.initial_ms, cfg.max_ms)

\* The call blocks for a bounded time: each attempt for the resolution of the
\* name and flush_timeout_ms after it, and the backoffs in between for the
\* exponential series.
BlocksBounded ==
  elapsed <= (MaxRetries + 1) * (ResolveMax + FlushTimeout) + Backoffs[MaxRetries]

\* What exporter_sync.c says of flush_sync: "Non-2xx responses and timeouts are
\* permanent (no retry)".  Refuted: after an attempt that ran into its deadline
\* the item is POSTed again.
TimeoutIsFinal == [][posts' > posts => st # "TIMEOUT"]_vars

\* What exporter.h says of flush_timeout_ms: "Max wall-clock milliseconds for
\* [...] the synchronous metric/log flush paths before they give up and return".
\* Refuted: each attempt takes as long, and BlocksBounded is what holds.
GivesUpInTime == elapsed <= FlushTimeout

\* A retry is never scheduled above backoff_max_ms, nor sooner than the server
\* asked for (as far as the maximum allows), nor later than both the jitter's
\* ceiling and the server's wish; also at the edges of the word, where the
\* exponent wraps or is clamped.  (A fact about the policy alone, so it is
\* looked at once, before the first call.)
RetryDelaySound ==
  calls = 0 =>
  \A n \in 0..Pow2[WordBits] - 1, initial, max \in 1..Pow2[WordBits] - 1, text \in RetryAfters :
    LET asked == Second * Lesser(Number(text, Leading(text)), RetryAfterMax)
        top   == IF n = 0 THEN max ELSE Ceiling(n, initial, max)
    IN  \A d \in otlp_retry_delay_ms(n, retry_after_ms(text),
                                     [initial_ms |-> initial, max_ms |-> max]) :
          /\ d <= max /\ d >= Lesser(asked, max)
          /\ d <= Greater(top, asked)
=============================================================================
