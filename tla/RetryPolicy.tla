----------------------------- MODULE RetryPolicy -----------------------------
(***************************************************************************)
(* When to try again: src/retry_policy.c, and the Retry-After header of    *)
(* src/http_response_parser.c that it takes as a floor.  Numbers have      *)
(* WordBits bits (32 in the code).                                         *)
(***************************************************************************)
EXTENDS Powers, Sequences

CONSTANTS
  WordBits,
  RetryAfterDigits,      \* digits of Retry-After that are read (10)
  RetryAfterMax,         \* OTLP_RETRY_AFTER_MAX_S
  Second                 \* milliseconds in a second (1000)

ASSUME PolicyAssumption ==
  {WordBits, RetryAfterDigits, RetryAfterMax, Second} \subseteq Nat \ {0}

Lesser(a, b) == IF a < b THEN a ELSE b
Greater(a, b) == IF a < b THEN b ELSE a

\* attempt - 1 wraps for attempt 0; the shift is clamped; the product has
\* twice as many bits and does not wrap.
otlp_retry_base_delay_ms(attempt, cfg) ==
  LET shift == (attempt - 1) % Pow2[WordBits] IN
  Lesser(cfg.initial_ms * Pow2[Lesser(shift, WordBits - 1)], cfg.max_ms)

\* Mutant: the floor is put above the cap.
DelayAboveCap(attempt, floor, cfg) ==
  {Greater(drawn, floor) : drawn \in 0..otlp_retry_base_delay_ms(attempt, cfg)}

\* The delays that may be drawn: any up to the base, raised to the floor,
\* lowered to the maximum; no delay at all if the base is 0.
otlp_retry_delay_ms(attempt, floor, cfg) ==
  LET base == otlp_retry_base_delay_ms(attempt, cfg) IN
  IF base = 0 THEN {0}
  ELSE {Lesser(Greater(drawn, floor), cfg.max_ms) : drawn \in 0..base}

Digit == 0..9          \* any other number stands for a character that is none

\* How many digits the value of the header starts with.
Leading(text) == CHOOSE n \in 0..Len(text) :
  /\ \A i \in 1..n : text[i] \in Digit
  /\ n < Len(text) => text[n + 1] \notin Digit

\* The number that the first n digits spell.
Number(text, n) ==
  LET value[k \in 0..n] == IF k = 0 THEN 0 ELSE 10 * value[k - 1] + text[k]
  IN  value[n]

\* The delay asked for: a bounded number of digits, and saturated.  A date
\* does not start with a digit and counts as absent.
retry_after_ms(text) ==
  Second * Lesser(Number(text, Lesser(Leading(text), RetryAfterDigits)), RetryAfterMax)
=============================================================================
