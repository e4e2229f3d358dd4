-------------------------- MODULE SyncFlushProofs --------------------------
(***************************************************************************)
(* Proofs about the blocking flush calls of src/exporter_sync.c and the    *)
(* delays of src/retry_policy.c, for every configuration and any number of *)
(* calls.                                                                  *)
(***************************************************************************)
EXTENDS SyncFlush, NatRecursion

(***************************************************************************)
(* The retry policy                                                        *)
(***************************************************************************)
\* A remainder is a natural number below the divisor, and not above a
\* dividend that is one.
LEMMA Remainder ==
  ASSUME NEW p \in Nat \ {0}, NEW i \in Int
  PROVE  i % p \in Nat /\ (i >= 0 => i % p <= i)
<1>1. i % p \in 0..(p - 1) /\ i = p * (i \div p) + (i % p) /\ i \div p \in Int
  OBVIOUS
<1> DEFINE q == i \div p
<1> DEFINE r == i % p
<1>2. r \in 0..(p - 1) /\ i = p * q + r /\ q \in Int
  BY <1>1
<1> HIDE DEF q, r
<1>3. ASSUME i >= 0 PROVE r <= i
  <2>1. q >= 0
    <3>1. ASSUME q <= -1 PROVE p * q <= -p
      BY <1>2, <3>1
    <3> QED BY <1>2, <1>3, <3>1
  <2>2. p * q >= 0
    BY <1>2, <2>1
  <2> QED BY <1>2, <2>2
<1> QED BY <1>2, <1>3 DEF r

\* Products grow with their factors.
LEMMA ProductMonotonic ==
  ASSUME NEW a \in Nat, NEW b \in Nat, NEW c \in Nat, b <= c
  PROVE  a * b \in Nat /\ a * b <= a * c
OBVIOUS

\* The base delay stays within max_ms and within the ceiling of its attempt.
LEMMA BaseDelay ==
  ASSUME NEW n \in Nat, NEW initial \in Nat, NEW max \in Nat
  PROVE  LET base == otlp_retry_base_delay_ms(n, [initial_ms |-> initial, max_ms |-> max])
         IN  /\ base \in 0..max
             /\ n >= 1 => base <= Ceiling(n, initial, max)
             /\ initial > 0 /\ max > 0 => base > 0
<1> DEFINE p == Pow2[WordBits]
<1> DEFINE shift == (n - 1) % p
<1> DEFINE e == Lesser(shift, WordBits - 1)
<1>1. WordBits \in Nat \ {0}
  BY PolicyAssumption
<1>2. p \in Nat \ {0}
  BY <1>1, Pow2Positive
<1>3. shift \in Nat /\ (n >= 1 => shift <= n - 1)
  <2> HIDE DEF p
  <2> QED BY <1>2, Remainder
<1>4. e \in Nat /\ (n >= 1 => e <= n - 1)
  <2> HIDE DEF shift
  <2> QED BY <1>1, <1>3 DEF Lesser
<1> DEFINE base == Lesser(initial * Pow2[e], max)
<1> HIDE DEF e
<1>5. Pow2[e] \in Nat /\ Pow2[e] >= 1
  BY <1>4, Pow2Positive
<1>6. initial * Pow2[e] \in Nat /\ initial * Pow2[e] >= initial
  <2>1. initial * 1 <= initial * Pow2[e]
    BY <1>5, ProductMonotonic
  <2> QED BY <1>5, <2>1
<1>7. base \in 0..max /\ (initial > 0 /\ max > 0 => base > 0)
  BY <1>6 DEF Lesser
<1>8. ASSUME n >= 1 PROVE base <= Ceiling(n, initial, max)
  <2>1. n - 1 \in Nat /\ e \in Nat /\ e <= n - 1
    BY <1>4, <1>8
  <2>2. Pow2[n - 1] \in Nat /\ Pow2[e] <= Pow2[n - 1]
    BY <2>1, Pow2Positive, Pow2Monotonic
  <2>3. initial * Pow2[e] <= initial * Pow2[n - 1] /\ initial * Pow2[n - 1] \in Nat
    BY <1>5, <2>2, ProductMonotonic
  <2> QED BY <1>6, <2>3 DEF Lesser, Ceiling
<1>9. otlp_retry_base_delay_ms(n, [initial_ms |-> initial, max_ms |-> max]) = base
  BY DEF otlp_retry_base_delay_ms, e
<1> QED BY <1>7, <1>8, <1>9

\* Every delay the policy may draw lies within max_ms, not below the floor (as
\* far as max_ms allows), and not above both the base and the floor.
LEMMA DelayRange ==
  ASSUME NEW n \in Nat, NEW floor \in Nat, NEW initial \in Nat \ {0}, NEW max \in Nat,
         NEW d \in otlp_retry_delay_ms(n, floor, [initial_ms |-> initial, max_ms |-> max])
  PROVE  /\ d \in 0..max /\ d >= Lesser(floor, max)
         /\ n >= 1 => d <= Greater(Ceiling(n, initial, max), floor)
<1> DEFINE base == otlp_retry_base_delay_ms(n, [initial_ms |-> initial, max_ms |-> max])
<1>1. /\ base \in 0..max
      /\ n >= 1 => base <= Ceiling(n, initial, max)
      /\ max > 0 => base > 0
  BY BaseDelay
<1>2. n >= 1 => Ceiling(n, initial, max) \in Nat
  <2>1. ASSUME n >= 1 PROVE Pow2[n - 1] \in Nat
    BY <2>1, Pow2Positive
  <2>2. ASSUME n >= 1 PROVE initial * Pow2[n - 1] \in Nat
    BY <2>1, <2>2
  <2> QED BY <2>2 DEF Ceiling, Lesser
<1>3. \/ base = 0 /\ d = 0
      \/ base # 0 /\ \E drawn \in 0..base : d = Lesser(Greater(drawn, floor), max)
  BY DEF otlp_retry_delay_ms
<1> HIDE DEF base
<1>4. CASE base = 0
  BY <1>1, <1>2, <1>3, <1>4 DEF Lesser, Greater
<1>5. CASE base # 0
  <2>1. PICK drawn \in 0..base : d = Lesser(Greater(drawn, floor), max)
    BY <1>3, <1>5
  <2> QED BY <1>1, <1>2, <2>1 DEF Lesser, Greater
<1> QED BY <1>4, <1>5

(***************************************************************************)
(* The longest that n backoffs can take                                    *)
(***************************************************************************)
\* The ceiling of an attempt is a natural number.
LEMMA CeilingType ==
  ASSUME NEW n \in Nat, NEW initial \in Nat, NEW max \in Nat
  PROVE  Ceiling(n + 1, initial, max) \in Nat
<1>1. Pow2[n] \in Nat /\ (n + 1) - 1 = n
  BY Pow2Positive
<1>2. initial * Pow2[n] \in Nat
  BY <1>1
<1> QED BY <1>1, <1>2 DEF Ceiling, Lesser

\* The configuration of the synchronous retries: natural numbers, and a
\* positive initial delay.
LEMMA CfgType == cfg = [initial_ms |-> cfg.initial_ms, max_ms |-> cfg.max_ms]
                 /\ cfg.initial_ms \in Nat \ {0} /\ cfg.max_ms \in Nat
BY SyncAssumption DEF cfg, Lesser

\* What Backoffs computes.
LEMMA BackoffsUnfold ==
  /\ \A n \in Nat : Backoffs[n] \in Nat
  /\ Backoffs[0] = 0
  /\ \A n \in Nat : Backoffs[n + 1] = Backoffs[n] + Ceiling(n + 1, cfg.initial_ms, cfg.max_ms)
<1> DEFINE C(n) == Ceiling(n, cfg.initial_ms, cfg.max_ms)
<1> DEFINE D == [x \in Nat \X Nat |-> x[2] + C(x[1] + 1)]
<1> DEFINE F(g) == [n \in Nat |-> IF n = 0 THEN 0 ELSE g[n - 1] + C(n)]
<1>0. ASSUME NEW n \in Nat PROVE C(n + 1) \in Nat
  BY CeilingType, CfgType
<1>c. Backoffs = CHOOSE h : h = F(h)
  BY DEF Backoffs
<1> HIDE DEF C
<1>1. D \in Steps(Nat) /\ 0 \in Nat
  BY <1>0 DEF Steps
<1>2. PICK g : Follows(g, Nat, 0, D)
  <2> HIDE DEF D
  <2> QED BY <1>1, Recursion
<1>3. g \in [Nat -> Nat] /\ g[0] = 0 /\ \A n \in Nat : g[n + 1] = g[n] + C(n + 1)
  BY <1>2 DEF Follows
<1>4. g = F(g)
  <2>1. ASSUME NEW n \in Nat PROVE g[n] = IF n = 0 THEN 0 ELSE g[n - 1] + C(n)
    <3>1. CASE n = 0
      BY <1>3, <3>1
    <3>2. CASE n # 0
      <4>1. n - 1 \in Nat /\ (n - 1) + 1 = n
        BY <3>2
      <4> QED BY <1>3, <3>2, <4>1
    <3> QED BY <3>1, <3>2
  <2> QED BY <1>3, <2>1
<1>5. Backoffs = F(Backoffs)
  <2> HIDE DEF F
  <2> QED BY <1>4, <1>c
<1>6. ASSUME NEW n \in Nat PROVE Backoffs[n] = IF n = 0 THEN 0 ELSE Backoffs[n - 1] + C(n)
  BY <1>5, Zenon
<1>7. Backoffs[0] = 0
  BY <1>6
<1>8. ASSUME NEW n \in Nat PROVE Backoffs[n + 1] = Backoffs[n] + C(n + 1)
  <2>1. n + 1 \in Nat /\ n + 1 # 0 /\ (n + 1) - 1 = n
    OBVIOUS
  <2> QED BY <1>6, <2>1
<1>9. \A n \in Nat : Backoffs[n] \in Nat
  <2> DEFINE S == {n \in Nat : Backoffs[n] \in Nat}
  <2>1. 0 \in S
    BY <1>7
  <2>2. \A n \in Nat : n \in S => n + 1 \in S
    BY <1>0, <1>8
  <2>3. Nat \subseteq S
    <3> HIDE DEF S
    <3> QED BY <2>1, <2>2, SetInduction
  <2> QED BY <2>3
<1> QED BY <1>7, <1>8, <1>9 DEF C

\* The longest that one attempt, and n attempts with their backoffs, can take.
AttemptTime == ResolveMax + FlushTimeout
Allowed(n) == n * AttemptTime + Backoffs[n]

\* One more attempt may take its own time and the backoff before it.
LEMMA AllowedStep ==
  ASSUME NEW n \in Nat
  PROVE  /\ Allowed(n) \in Nat /\ Allowed(n + 1) \in Nat
         /\ Allowed(n + 1) = Allowed(n) + AttemptTime
                               + Ceiling(n + 1, cfg.initial_ms, cfg.max_ms)
         /\ Allowed(0) = 0
<1>1. AttemptTime \in Nat
  BY SyncAssumption DEF AttemptTime
<1>2. Ceiling(n + 1, cfg.initial_ms, cfg.max_ms) \in Nat
  BY CeilingType, CfgType
<1>3. (n + 1) * AttemptTime = n * AttemptTime + AttemptTime /\ n * AttemptTime \in Nat
  BY <1>1
<1> QED BY <1>1, <1>2, <1>3, BackoffsUnfold DEF Allowed

\* More attempts may take longer.
LEMMA AllowedMonotonic == \A m, n \in Nat : m <= n => Allowed(m) <= Allowed(n)
<1> DEFINE S == {k \in Nat : \A m \in Nat : Allowed(m) <= Allowed(m + k)}
<1>0. \A n \in Nat : Allowed(n) \in Nat
  BY AllowedStep
<1>1. 0 \in S
  BY <1>0
<1>2. ASSUME NEW k \in Nat, k \in S PROVE k + 1 \in S
  <2> SUFFICES ASSUME NEW m \in Nat PROVE Allowed(m) <= Allowed(m + (k + 1))
    OBVIOUS
  <2>1. AttemptTime \in Nat /\ Ceiling((m + k) + 1, cfg.initial_ms, cfg.max_ms) \in Nat
    <3>1. m + k \in Nat /\ cfg.initial_ms \in Nat /\ cfg.max_ms \in Nat
      BY CfgType
    <3>2. Ceiling((m + k) + 1, cfg.initial_ms, cfg.max_ms) \in Nat
      BY <3>1, CeilingType
    <3> QED BY <3>2, SyncAssumption DEF AttemptTime
  <2>2. Allowed((m + k) + 1) = Allowed(m + k) + AttemptTime
                                 + Ceiling((m + k) + 1, cfg.initial_ms, cfg.max_ms)
    BY AllowedStep
  <2>3. Allowed(m) <= Allowed(m + k) /\ m + (k + 1) = (m + k) + 1
    BY <1>2
  <2> QED BY <1>0, <2>1, <2>2, <2>3
<1>3. Nat \subseteq S
  <2> HIDE DEF S
  <2> QED BY <1>1, <1>2, SetInduction
<1>4. ASSUME NEW m \in Nat, NEW n \in Nat, m <= n PROVE Allowed(m) <= Allowed(n)
  <2>1. n - m \in Nat /\ m + (n - m) = n
    BY <1>4
  <2>2. n - m \in S
    <3> HIDE DEF S
    <3> QED BY <1>3, <2>1
  <2> QED BY <2>1, <2>2
<1> QED BY <1>4

(***************************************************************************)
(* The inductive invariant of the call                                     *)
(***************************************************************************)
Types ==
  /\ pc \in {"idle", "post", "wait", "retry", "sleep"}
  /\ attempt \in 0..MaxRetries /\ got_response \in BOOLEAN
  /\ polled \in 0..FlushTimeout /\ delay \in Nat
  /\ emitted \in Nat /\ sent \in Nat /\ droppedErr \in Nat
  /\ elapsed \in Nat /\ posts \in Nat /\ answers \in Nat

\* The item of a call that has not returned is the only one not yet counted.
Counted == emitted = sent + droppedErr + (IF pc = "idle" THEN 0 ELSE 1)

\* got_response remembers the answer, and stops the attempts.
Answered ==
  /\ answers = 0 \/ (answers = 1 /\ got_response)
  /\ got_response => pc \in {"retry", "idle"}

\* One POST per attempt, and a backoff only before another attempt.
Posted ==
  /\ posts <= (IF pc = "post" THEN attempt ELSE attempt + 1)
  /\ pc = "sleep" => attempt < MaxRetries

\* The time the call has taken so far, with what it is about to sleep.
Blocked ==
  /\ pc = "post" => elapsed <= Allowed(attempt)
  /\ pc = "wait" => elapsed <= Allowed(attempt) + ResolveMax + polled
  /\ pc \in {"retry", "idle"} => elapsed <= Allowed(attempt) + ResolveMax + FlushTimeout
  /\ pc = "sleep" => elapsed + delay <= Allowed(attempt + 1)

IInv == Types /\ Counted /\ Answered /\ Posted /\ Blocked

\* The constants of the call are natural numbers.
LEMMA Constants ==
  /\ MaxRetries \in Nat \ {0} /\ FlushTimeout \in Nat \ {0} /\ ResolveMax \in Nat
  /\ \A n \in Nat : Allowed(n) \in Nat
BY SyncAssumption, AllowedStep

\* The invariant holds before the first call.
LEMMA InitInv == Init => IInv
<1> SUFFICES ASSUME Init PROVE IInv
  OBVIOUS
<1>1. ~got_response /\ got_response \in BOOLEAN
  BY Zenon DEF Init
<1>2. Types
  BY <1>1, Constants DEF Init, Types
<1>3. Counted /\ Posted
  BY Constants DEF Init, Counted, Posted
<1>4. Answered
  BY <1>1 DEF Init, Answered
<1>5. Blocked
  <2>1. Allowed(0) \in Nat /\ FlushTimeout \in Nat /\ ResolveMax \in Nat
    BY Constants
  <2> QED BY <2>1 DEF Init, Blocked
<1> QED BY <1>2, <1>3, <1>4, <1>5 DEF IInv

\* Every step of a call preserves it.
LEMMA NextInv == IInv /\ [Next]_vars => IInv'
<1> SUFFICES ASSUME IInv, [Next]_vars PROVE IInv'
  OBVIOUS
<1> USE Constants DEF IInv
<1>1. CASE FlushCall
  <2>0. got_response' \in BOOLEAN /\ ~got_response'
    BY <1>1, Zenon DEF FlushCall
  <2>1. Types' /\ Counted'
    BY <1>1, <2>0 DEF FlushCall, Count, Types, Counted
  <2>2. Answered' /\ Posted'
    BY <1>1, <2>0 DEF FlushCall, Types, Answered, Posted
  <2>3. Blocked'
    <3>1. Allowed(0) \in Nat /\ attempt' = 0 /\ elapsed' = 0 /\ pc' \in {"post", "idle"}
      BY <1>1 DEF FlushCall
    <3> QED BY <3>1 DEF Blocked
  <2> QED BY <2>1, <2>2, <2>3
<1>2. CASE PostStart
  <2>1. Types' /\ Counted'
    BY <1>2 DEF PostStart, counters, Types, Counted
  <2>2. Answered' /\ Posted'
    BY <1>2 DEF PostStart, counters, Types, Answered, Posted
  <2>3. Blocked'
    BY <1>2 DEF PostStart, Types, Blocked
  <2> QED BY <2>1, <2>2, <2>3
<1>3. CASE PostAnswered
  <2>1. Types' /\ Counted'
    BY <1>3 DEF PostAnswered, counters, Types, Counted, Answered
  <2>2. Answered' /\ Posted'
    BY <1>3 DEF PostAnswered, Types, Answered, Posted
  <2>3. Blocked'
    BY <1>3 DEF PostAnswered, Types, Blocked
  <2> QED BY <2>1, <2>2, <2>3
<1>4. CASE PostFails
  <2>1. Types' /\ Counted'
    BY <1>4 DEF PostFails, counters, history, Types, Counted
  <2>2. Answered' /\ Posted'
    BY <1>4 DEF PostFails, history, Types, Answered, Posted
  <2>3. Blocked'
    BY <1>4 DEF PostFails, history, Types, Blocked
  <2> QED BY <2>1, <2>2, <2>3
<1>5. CASE PostPolls
  <2>1. Types' /\ Counted'
    BY <1>5 DEF PostPolls, counters, Types, Counted
  <2>2. Answered' /\ Posted'
    BY <1>5 DEF PostPolls, Types, Answered, Posted
  <2>3. Blocked'
    BY <1>5 DEF PostPolls, Types, Blocked
  <2> QED BY <2>1, <2>2, <2>3
<1>6. CASE Return
  <2>1. Types' /\ Counted'
    BY <1>6 DEF Return, Count, locals, history, Types, Counted
  <2>2. Answered' /\ Posted'
    BY <1>6 DEF Return, locals, history, Types, Answered, Posted
  <2>3. Blocked'
    BY <1>6 DEF Return, locals, history, Types, Blocked
  <2> QED BY <2>1, <2>2, <2>3
<1>7. CASE Backoff
  <2>1. attempt \in Nat /\ attempt < MaxRetries /\ pc = "retry"
    BY <1>7 DEF Backoff, Final, Types
  <2>2. delay' \in Nat /\ delay' <= Ceiling(attempt + 1, cfg.initial_ms, cfg.max_ms)
    <3>1. delay' \in otlp_retry_delay_ms(attempt + 1, 0, cfg)
      BY <1>7 DEF Backoff
    <3>2. Ceiling(attempt + 1, cfg.initial_ms, cfg.max_ms) \in Nat
      BY <2>1, CeilingType, CfgType
    <3>3. /\ delay' \in 0..cfg.max_ms
          /\ delay' <= Greater(Ceiling(attempt + 1, cfg.initial_ms, cfg.max_ms), 0)
      <4>1. attempt + 1 \in Nat /\ attempt + 1 >= 1 /\ 0 \in Nat
        BY <2>1
      <4>2. delay' \in otlp_retry_delay_ms(attempt + 1, 0,
                         [initial_ms |-> cfg.initial_ms, max_ms |-> cfg.max_ms])
        BY <3>1, CfgType
      <4> QED BY <4>1, <4>2, DelayRange, CfgType
    <3> QED BY <3>2, <3>3 DEF Greater
  <2>3. Types' /\ Counted'
    BY <1>7, <2>2 DEF Backoff, counters, history, Types, Counted
  <2>4. Answered' /\ Posted'
    BY <1>7, <2>1 DEF Backoff, Final, history, Types, Answered, Posted
  <2>5. Blocked'
    <3>1. /\ Allowed(attempt + 1) = Allowed(attempt) + ResolveMax + FlushTimeout
                                      + Ceiling(attempt + 1, cfg.initial_ms, cfg.max_ms)
          /\ Ceiling(attempt + 1, cfg.initial_ms, cfg.max_ms) \in Nat
      BY <2>1, AllowedStep, CeilingType, CfgType DEF AttemptTime
    <3>2. elapsed' = elapsed /\ attempt' = attempt /\ pc' = "sleep" /\ elapsed \in Nat
      BY <1>7 DEF Backoff, history, Types
    <3>3. elapsed <= Allowed(attempt) + ResolveMax + FlushTimeout
      BY <2>1 DEF Blocked
    <3> QED BY <2>1, <2>2, <3>1, <3>2, <3>3 DEF Blocked
  <2> QED BY <2>3, <2>4, <2>5
<1>8. CASE Sleep
  <2>1. Types' /\ Counted'
    BY <1>8 DEF Sleep, counters, Types, Counted, Posted
  <2>2. Answered' /\ Posted'
    BY <1>8 DEF Sleep, Types, Answered, Posted
  <2>3. Blocked'
    BY <1>8 DEF Sleep, Types, Blocked
  <2> QED BY <2>1, <2>2, <2>3
<1>9. CASE UNCHANGED vars
  BY <1>9 DEF vars, locals, counters, history, Types, Counted, Answered, Posted, Blocked
<1> QED BY <1>1, <1>2, <1>3, <1>4, <1>5, <1>6, <1>7, <1>8, <1>9 DEF Next

\* The invariant holds in every reachable state.
THEOREM CallInvariant == Spec => []IInv
BY InitInv, NextInv, PTL DEF Spec

\* However a call of otlp_exporter_flush_metric or _flush_log ends, its item
\* has been counted, as sent or as dropped, and once.
THEOREM SyncAccountingHolds == Spec => []SyncAccounting
<1>1. IInv => SyncAccounting
  BY DEF IInv, Types, Counted, SyncAccounting
<1> QED BY <1>1, CallInvariant, PTL

\* flush_sync never POSTs an item again after an answer, nor more often than
\* once plus max_retries times.
THEOREM AnswerIsFinalHolds == Spec => []AnswerIsFinal
<1>1. IInv => AnswerIsFinal
  BY Constants DEF IInv, Types, Answered, Posted, AnswerIsFinal
<1> QED BY <1>1, CallInvariant, PTL

\* A call of flush_sync blocks, per attempt, for the resolution of the name and
\* flush_timeout_ms after it, and for the exponential series of backoffs in
\* between; no longer, however long the resolver takes.
THEOREM BlocksBoundedHolds == Spec => []BlocksBounded
<1>1. IInv => BlocksBounded
  <2> SUFFICES ASSUME IInv PROVE BlocksBounded
    OBVIOUS
  <2>1. /\ attempt \in 0..MaxRetries /\ elapsed \in Nat /\ polled \in 0..FlushTimeout
        /\ delay \in Nat /\ pc \in {"idle", "post", "wait", "retry", "sleep"}
    BY DEF IInv, Types
  <2>2. Allowed(attempt) <= Allowed(MaxRetries) /\ Allowed(attempt) \in Nat
    BY <2>1, Constants, AllowedMonotonic
  <2>3. Allowed(MaxRetries) + AttemptTime = (MaxRetries + 1) * AttemptTime + Backoffs[MaxRetries]
        /\ AttemptTime = ResolveMax + FlushTimeout
    <3>1. (MaxRetries + 1) * AttemptTime = MaxRetries * AttemptTime + AttemptTime
          /\ MaxRetries * AttemptTime \in Nat /\ AttemptTime \in Nat
      <4>1. AttemptTime \in Nat
        BY Constants DEF AttemptTime
      <4> QED BY <4>1, Constants
    <3> QED BY <3>1, Constants, BackoffsUnfold DEF Allowed, AttemptTime
  <2>4. elapsed <= Allowed(MaxRetries) + ResolveMax + FlushTimeout
    <3>1. CASE pc # "sleep"
      BY <2>1, <2>2, <3>1, Constants DEF IInv, Blocked
    <3>2. CASE pc = "sleep"
      <4>1. attempt + 1 \in Nat /\ attempt + 1 <= MaxRetries
        BY <2>1, <3>2, Constants DEF IInv, Posted
      <4>2. Allowed(attempt + 1) <= Allowed(MaxRetries)
        BY <4>1, Constants, AllowedMonotonic
      <4>3. elapsed + delay <= Allowed(attempt + 1) /\ Allowed(attempt + 1) \in Nat
        BY <3>2, <4>1, Constants DEF IInv, Blocked
      <4> QED BY <2>1, <4>2, <4>3, Constants
    <3> QED BY <3>1, <3>2
  <2> QED BY <2>1, <2>3, <2>4, Constants DEF BlocksBounded, AttemptTime
<1> QED BY <1>1, CallInvariant, PTL

(***************************************************************************)
(* The Retry-After header                                                  *)
(***************************************************************************)
\* How many digits a header's value starts with is well defined.
LEMMA LeadingType == ASSUME NEW text \in Seq(Nat) PROVE Leading(text) \in 0..Len(text)
<1> DEFINE L == Len(text)
<1> DEFINE Good(n) == /\ \A i \in 1..n : text[i] \in Digit
                      /\ n < L => text[n + 1] \notin Digit
<1> DEFINE Ends == {n \in 0..L : n = L \/ text[n + 1] \notin Digit}
<1>1. L \in Nat
  OBVIOUS
<1>2. PICK m \in Ends : \A k \in Ends : m <= k
  <2>1. L \in Ends /\ Ends \subseteq Nat
    BY <1>1
  <2> HIDE DEF Ends
  <2> QED BY <2>1, LeastElement
<1>3. m \in 0..L /\ (m < L => text[m + 1] \notin Digit)
  BY <1>1, <1>2
<1>4. ASSUME NEW i \in 1..m PROVE text[i] \in Digit
  <2>1. i - 1 \in 0..L /\ i - 1 < m /\ i - 1 # L /\ (i - 1) + 1 = i
    BY <1>1, <1>3
  <2>2. i - 1 \notin Ends
    BY <1>2, <2>1
  <2> QED BY <2>1, <2>2
<1>5. Good(m)
  BY <1>3, <1>4
<1>6. \E n \in 0..L : Good(n)
  BY <1>3, <1>5
<1>7. Leading(text) = CHOOSE n \in 0..L : Good(n)
  BY DEF Leading
<1> HIDE DEF L, Good
<1>8. Leading(text) \in 0..L
  BY <1>6, <1>7
<1> QED BY <1>8 DEF L

\* The number that the digits of a header spell: a natural number that only
\* grows with the digits that are read.
LEMMA NumberGrows ==
  ASSUME NEW text \in Seq(Nat)
  PROVE  /\ \A n \in 0..Len(text) : Number(text, n) \in Nat
         /\ \A m, n \in 0..Len(text) : m <= n => Number(text, m) <= Number(text, n)
<1> DEFINE L == Len(text)
<1> DEFINE digit(k) == IF k \in 1..L THEN text[k] ELSE 0
<1> DEFINE D == [x \in Nat \X Nat |-> 10 * x[2] + digit(x[1] + 1)]
<1>0. L \in Nat /\ \A k \in Nat : digit(k) \in Nat
  OBVIOUS
<1>1. D \in Steps(Nat) /\ 0 \in Nat
  <2> HIDE DEF digit
  <2>1. ASSUME NEW x \in Nat \X Nat PROVE 10 * x[2] + digit(x[1] + 1) \in Nat
    <3>1. x[1] + 1 \in Nat /\ 10 * x[2] \in Nat
      OBVIOUS
    <3>2. digit(x[1] + 1) \in Nat
      BY <1>0, <3>1
    <3> QED BY <3>1, <3>2
  <2> QED BY <2>1 DEF Steps
<1>2. PICK g : Follows(g, Nat, 0, D)
  <2> HIDE DEF D
  <2> QED BY <1>1, Recursion
<1>3. g \in [Nat -> Nat] /\ g[0] = 0 /\ \A n \in Nat : g[n + 1] = 10 * g[n] + digit(n + 1)
  <2> HIDE DEF digit
  <2> QED BY <1>2 DEF Follows
<1>4. ASSUME NEW n \in 0..L PROVE Number(text, n) = g[n]
  <2> DEFINE F(h) == [k \in 0..n |-> IF k = 0 THEN 0 ELSE 10 * h[k - 1] + text[k]]
  <2> DEFINE r == [k \in 0..n |-> g[k]]
  <2> DEFINE v == CHOOSE h : h = F(h)
  <2>1. r = F(r)
    <3>1. ASSUME NEW k \in 0..n PROVE g[k] = IF k = 0 THEN 0 ELSE 10 * r[k - 1] + text[k]
      <4>1. CASE k = 0
        BY <1>3, <4>1
      <4>2. CASE k # 0
        <5>1. k - 1 \in Nat /\ k - 1 \in 0..n /\ (k - 1) + 1 = k /\ k \in 1..L
          BY <1>0, <4>2
        <5>2. digit(k) = text[k]
          BY <5>1
        <5>3. g[k] = 10 * g[k - 1] + digit(k)
          <6> HIDE DEF digit
          <6> QED BY <1>3, <5>1
        <5> QED BY <4>2, <5>1, <5>2, <5>3
      <4> QED BY <4>1, <4>2
    <3> QED BY <3>1
  <2>2. v = F(v)
    <3> HIDE DEF F, r
    <3> QED BY <2>1
  <2>3. Number(text, n) = v[n]
    BY Zenon DEF Number
  <2> HIDE DEF v
  <2>4. ASSUME NEW k \in 0..n PROVE v[k] = IF k = 0 THEN 0 ELSE 10 * v[k - 1] + text[k]
    BY <2>2, Zenon
  <2> DEFINE S == {k \in Nat : k <= n => v[k] = g[k]}
  <2>5. 0 \in S
    <3>1. 0 \in 0..n
      BY <1>0
    <3>2. v[0] = 0
      BY <2>4, <3>1
    <3> QED BY <1>3, <3>2
  <2>6. ASSUME NEW k \in Nat, k \in S PROVE k + 1 \in S
    <3> SUFFICES ASSUME k + 1 <= n PROVE v[k + 1] = g[k + 1]
      OBVIOUS
    <3>1. k + 1 \in 0..n /\ k + 1 # 0 /\ (k + 1) - 1 = k /\ k + 1 \in 1..L /\ k <= n
      BY <1>0
    <3>2. digit(k + 1) = text[k + 1] /\ v[k] = g[k]
      BY <2>6, <3>1
    <3>3. v[k + 1] = 10 * v[k] + text[k + 1]
      BY <2>4, <3>1
    <3>4. g[k + 1] = 10 * g[k] + digit(k + 1)
      <4> HIDE DEF digit
      <4> QED BY <1>3
    <3> QED BY <3>2, <3>3, <3>4
  <2>7. Nat \subseteq S
    <3> HIDE DEF S
    <3> QED BY <2>5, <2>6, SetInduction
  <2> QED BY <1>0, <2>3, <2>7
<1> HIDE DEF digit, D
<1>5. ASSUME NEW m \in Nat, NEW n \in Nat, m <= n PROVE g[m] <= g[n]
  <2> DEFINE S == {k \in Nat : g[m] <= g[m + k]}
  <2>1. 0 \in S
    BY <1>3
  <2>2. ASSUME NEW k \in Nat, k \in S PROVE k + 1 \in S
    <3>1. g[(m + k) + 1] = 10 * g[m + k] + digit((m + k) + 1)
      BY <1>3
    <3>2. digit((m + k) + 1) \in Nat /\ m + (k + 1) = (m + k) + 1
      BY <1>0
    <3>3. g[m] <= g[m + k] /\ g[m] \in Nat /\ g[m + k] \in Nat
      BY <1>3, <2>2
    <3>4. g[m] <= g[(m + k) + 1]
      BY <3>1, <3>2, <3>3
    <3> QED BY <3>2, <3>4
  <2>3. Nat \subseteq S
    <3> HIDE DEF S
    <3> QED BY <2>1, <2>2, SetInduction
  <2>4. n - m \in Nat /\ m + (n - m) = n
    BY <1>5
  <2>5. n - m \in S
    <3> HIDE DEF S
    <3> QED BY <2>3, <2>4
  <2> QED BY <2>4, <2>5
<1> HIDE DEF L
<1>6. /\ \A n \in 0..L : Number(text, n) \in Nat
      /\ \A m, n \in 0..L : m <= n => Number(text, m) <= Number(text, n)
  <2>1. ASSUME NEW n \in 0..L PROVE n \in Nat /\ g[n] \in Nat
    <3>1. n \in Nat
      BY <1>0
    <3> QED BY <1>3, <3>1
  <2> QED BY <1>4, <1>5, <2>1
<1> QED BY <1>6 DEF L

\* The digits of a header that are read say enough: they are all of them, or
\* they already reach the saturation.
ReadEnough(text) == \/ Leading(text) <= RetryAfterDigits
                    \/ Number(text, RetryAfterDigits) >= RetryAfterMax

\* Of such a header the parser gets the saturated number that the server sent.
LEMMA RetryAfterRead ==
  ASSUME NEW text \in Seq(Nat), ReadEnough(text)
  PROVE  /\ Number(text, Leading(text)) \in Nat
         /\ retry_after_ms(text) \in Nat
         /\ retry_after_ms(text) = Second * Lesser(Number(text, Leading(text)), RetryAfterMax)
<1> DEFINE all == Number(text, Leading(text))
<1> DEFINE some == Number(text, RetryAfterDigits)
<1>1. /\ RetryAfterDigits \in Nat \ {0} /\ RetryAfterMax \in Nat \ {0} /\ Second \in Nat \ {0}
      /\ Leading(text) \in 0..Len(text) /\ Len(text) \in Nat
  BY PolicyAssumption, LeadingType
<1>2. all \in Nat
  BY <1>1, NumberGrows
<1>3. CASE Leading(text) <= RetryAfterDigits
  <2>1. Lesser(Leading(text), RetryAfterDigits) = Leading(text)
    BY <1>1, <1>3 DEF Lesser
  <2>2. Lesser(all, RetryAfterMax) \in Nat
    BY <1>1, <1>2 DEF Lesser
  <2>3. Second * Lesser(all, RetryAfterMax) \in Nat
    BY <1>1, <2>2
  <2> QED BY <1>2, <2>1, <2>3 DEF retry_after_ms
<1>4. CASE Leading(text) > RetryAfterDigits
  <2>1. Lesser(Leading(text), RetryAfterDigits) = RetryAfterDigits
        /\ RetryAfterDigits \in 0..Len(text) /\ RetryAfterDigits <= Leading(text)
    BY <1>1, <1>4 DEF Lesser
  <2>2. some \in Nat /\ some <= all
    BY <1>1, <2>1, NumberGrows
  <2>3. some >= RetryAfterMax
    BY <1>1, <1>4 DEF ReadEnough
  <2> HIDE DEF all, some
  <2>4. Lesser(some, RetryAfterMax) = RetryAfterMax /\ Lesser(all, RetryAfterMax) = RetryAfterMax
    BY <1>1, <1>2, <2>2, <2>3 DEF Lesser
  <2>5. Second * RetryAfterMax \in Nat
    BY <1>1
  <2> QED BY <1>2, <2>1, <2>4, <2>5 DEF retry_after_ms, all, some
<1> QED BY <1>1, <1>3, <1>4

\* Delays of src/retry_policy.c stay between what the server asked for and
\* backoff_max_ms, and within the ceiling of their attempt, for words of every
\* width and for every header whose digits are read far enough.
THEOREM RetryDelaySoundHolds ==
  ASSUME \A text \in RetryAfters : ReadEnough(text)
  PROVE  Spec => []RetryDelaySound
<1> DEFINE W == 1..Pow2[WordBits] - 1
<1>1. ASSUME NEW n \in 0..Pow2[WordBits] - 1, NEW initial \in W, NEW max \in W,
             NEW text \in RetryAfters,
             NEW d \in otlp_retry_delay_ms(n, retry_after_ms(text),
                                           [initial_ms |-> initial, max_ms |-> max])
      PROVE  LET asked == Second * Lesser(Number(text, Leading(text)), RetryAfterMax)
                 top   == IF n = 0 THEN max ELSE Ceiling(n, initial, max)
             IN  /\ d <= max /\ d >= Lesser(asked, max)
                 /\ d <= Greater(top, asked)
  <2>1. WordBits \in Nat /\ Pow2[WordBits] \in Nat
    BY PolicyAssumption, Pow2Positive
  <2>2. n \in Nat /\ initial \in Nat \ {0} /\ max \in Nat
    BY <2>1
  <2> DEFINE asked == retry_after_ms(text)
  <2>3. asked \in Nat /\ asked = Second * Lesser(Number(text, Leading(text)), RetryAfterMax)
    BY SyncAssumption, RetryAfterRead
  <2> HIDE DEF asked
  <2>4. /\ d \in 0..max /\ d >= Lesser(asked, max)
        /\ n >= 1 => d <= Greater(Ceiling(n, initial, max), asked)
    <3>1. d \in otlp_retry_delay_ms(n, asked, [initial_ms |-> initial, max_ms |-> max])
      BY DEF asked
    <3> QED BY <2>2, <2>3, <3>1, DelayRange
  <2>5. n = 0 => d <= Greater(max, asked)
    BY <2>2, <2>3, <2>4 DEF Greater
  <2>6. n # 0 => n >= 1
    BY <2>2
  <2> QED BY <2>2, <2>3, <2>4, <2>5, <2>6
<1>2. RetryDelaySound
  BY <1>1 DEF RetryDelaySound
<1> QED BY <1>2, PTL
=============================================================================
