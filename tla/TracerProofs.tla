---------------------------- MODULE TracerProofs ----------------------------
(***************************************************************************)
(* Proofs about the tracer of src/tracer.c and the context that travels    *)
(* (src/w3c.c, src/context.c), for any number of threads, any samplers,    *)
(* words and identifiers of any length, and any texts.                     *)
(***************************************************************************)
EXTENDS Tracer, NatRecursion, SequenceTheorems, TLAPS

\* A value with the fields of a span.
IsSpan(s) == s = [trace_id |-> s.trace_id, span_id |-> s.span_id, parent |-> s.parent,
                  sampled |-> s.sampled]

\* The spans of the model are spans, and stay so when a field is set.
LEMMA SpanFields ==
    /\ IsSpan(NoIds)
    /\ \A s, v : IsSpan(s) => /\ IsSpan([s EXCEPT !.trace_id = v])
                              /\ IsSpan([s EXCEPT !.span_id = v])
    /\ \A v, w : IsSpan([NoIds EXCEPT !.trace_id = v, !.parent = w])
<1>1. IsSpan(NoIds)
  BY DEF IsSpan, NoIds
<1>2. ASSUME NEW s, NEW v, IsSpan(s)
      PROVE  IsSpan([s EXCEPT !.trace_id = v]) /\ IsSpan([s EXCEPT !.span_id = v])
  BY <1>2 DEF IsSpan
<1>3. ASSUME NEW v, NEW w PROVE IsSpan([NoIds EXCEPT !.trace_id = v, !.parent = w])
  <2> DEFINE s == [NoIds EXCEPT !.trace_id = v]
  <2>1. IsSpan(s)
    BY <1>1, <1>2
  <2>2. [NoIds EXCEPT !.trace_id = v, !.parent = w] = [s EXCEPT !.parent = w]
    OBVIOUS
  <2> HIDE DEF s
  <2>3. IsSpan([s EXCEPT !.parent = w])
    BY <2>1 DEF IsSpan
  <2> QED BY <2>2, <2>3
<1> QED BY <1>1, <1>2, <1>3

\* The span handed to the caller keeps the identifiers it was given.
LEMMA SampledFields ==
    ASSUME NEW s, IsSpan(s), NEW v, NEW r, r = [s EXCEPT !.sampled = v]
    PROVE  r.trace_id = s.trace_id /\ r.span_id = s.span_id /\ r.parent = s.parent
BY DEF IsSpan

(***************************************************************************)
(* The words of the generator                                              *)
(***************************************************************************)
\* What the assumptions on the constants come to: words, octets and lengths.
LEMMA Sizes ==
    /\ Word \in Nat \ {0} /\ WordOctets \in Nat \ {0} /\ WordBits = 8 * WordOctets
    /\ TraceIdLen \in Nat \ {0} /\ SpanIdLen \in Nat \ {0}
    /\ TraceIdLen % WordOctets = 0 /\ SpanIdLen % WordOctets = 0
<1>1. WordBits \in Nat \ {0} /\ WordBits % 8 = 0
  BY TracerAssumption
<1>2. WordOctets \in Nat \ {0} /\ WordBits = 8 * WordOctets
  BY <1>1 DEF WordOctets
<1>3. Word \in Nat \ {0}
  BY <1>1, Pow2Positive DEF Word
<1> QED BY <1>2, <1>3, TracerAssumption, ContextAssumption

\* Xor of two numbers is a number.
LEMMA XorType == ASSUME NEW a \in Nat, NEW b \in Nat PROVE Xor(a, b) \in Nat
<1> DEFINE Bit(i) == Pow2[i] * (((a \div Pow2[i]) + (b \div Pow2[i])) % 2)
<1> DEFINE D == [x \in Nat \X Nat |-> x[2] + Bit(x[1])]
<1> DEFINE F(g) == [i \in 0..WordBits |-> IF i = 0 THEN 0 ELSE g[i - 1] + Bit(i - 1)]
<1>0. WordBits \in Nat
  BY TracerAssumption
<1>1. ASSUME NEW i \in Nat PROVE Bit(i) \in Nat
  <2>1. Pow2[i] \in Nat \ {0}
    BY Pow2Positive
  <2>2. ((a \div Pow2[i]) + (b \div Pow2[i])) % 2 \in Nat
    BY <2>1
  <2> QED BY <2>1, <2>2
<1>2. D \in Steps(Nat)
  BY <1>1 DEF Steps
<1>3a. PICK h : FollowsUpTo(h, Nat, 0, D, WordBits)
  <2>1. D \in Steps(Nat) /\ 0 \in Nat /\ WordBits \in Nat
    BY <1>0, <1>2
  <2> HIDE DEF D
  <2> QED BY <2>1, RecursionUpTo
<1>3. /\ h \in [0..WordBits -> Nat] /\ h[0] = 0
      /\ \A i \in 0..(WordBits - 1) : h[i + 1] = D[<<i, h[i]>>]
  <2> HIDE DEF D
  <2> QED BY <1>3a DEF FollowsUpTo
<1> HIDE DEF Bit
<1>4. h = F(h)
  <2>1. ASSUME NEW i \in 0..WordBits PROVE h[i] = IF i = 0 THEN 0 ELSE h[i - 1] + Bit(i - 1)
    <3>1. CASE i = 0
      BY <1>3, <3>1
    <3>2. CASE i # 0
      <4> DEFINE j == i - 1
      <4>1. j \in 0..(WordBits - 1) /\ j \in 0..WordBits /\ j \in Nat /\ j + 1 = i
        BY <1>0, <3>2
      <4> HIDE DEF j
      <4>2. h[j + 1] = D[<<j, h[j]>>] /\ h[j] \in Nat
        <5> HIDE DEF D
        <5> QED BY <1>3, <4>1
      <4>3. h[i] = h[j] + Bit(j)
        BY <4>1, <4>2
      <4> QED BY <3>2, <4>3 DEF j
    <3> QED BY <3>1, <3>2
  <2> QED BY <1>3, <2>1
<1> DEFINE low == CHOOSE g : g = F(g)
<1>5. low = F(low)
  <2> HIDE DEF F
  <2> QED BY <1>4
<1>6. ASSUME NEW i \in 0..WordBits PROVE low[i] = IF i = 0 THEN 0 ELSE low[i - 1] + Bit(i - 1)
  <2> HIDE DEF low
  <2> QED BY <1>5, Zenon
<1>7. Xor(a, b) = low[WordBits]
  BY DEF Xor, Bit
<1> DEFINE S == {i \in Nat : i <= WordBits => low[i] \in Nat}
<1> HIDE DEF low
<1>8. 0 \in S
  BY <1>0, <1>6
<1>9. ASSUME NEW i \in Nat, i \in S PROVE i + 1 \in S
  <2> SUFFICES ASSUME i + 1 <= WordBits PROVE low[i + 1] \in Nat
    OBVIOUS
  <2>1. i + 1 \in 0..WordBits /\ i + 1 # 0 /\ (i + 1) - 1 = i /\ low[i] \in Nat
    BY <1>0, <1>9
  <2>2. low[i + 1] = low[i] + Bit(i)
    BY <1>6, <2>1, Zenon
  <2>3. Bit(i) \in Nat
    BY <1>1
  <2> QED BY <2>1, <2>2, <2>3
<1>10. Nat \subseteq S
  <2> HIDE DEF S
  <2> QED BY <1>8, <1>9, SetInduction
<1>11. low[WordBits] \in Nat
  BY <1>0, <1>10
<1> QED BY <1>7, <1>11

\* The generator makes a word of a word.
LEMMA GeneratorType == ASSUME NEW s \in Nat PROVE xorshift64s(s) \in 0..(Word - 1)
<1> DEFINE a == Xor(s, (s * Pow2[ShiftA]) % Word)
<1> DEFINE b == Xor(a, a \div Pow2[ShiftB])
<1> DEFINE c == Xor(b, (b * Pow2[ShiftC]) % Word)
<1>0. /\ Pow2[ShiftA] \in Nat /\ Pow2[ShiftB] \in Nat \ {0} /\ Pow2[ShiftC] \in Nat
      /\ Multiplier \in Nat /\ Word \in Nat \ {0}
  <2>1. ShiftA \in Nat /\ ShiftB \in Nat /\ ShiftC \in Nat /\ Multiplier \in Nat
    BY TracerAssumption
  <2>2. \A n \in Nat : Pow2[n] \in Nat \ {0}
    BY Pow2Positive
  <2> QED BY <2>1, <2>2, Sizes
<1>1. a \in Nat
  <2>1. (s * Pow2[ShiftA]) % Word \in Nat
    BY <1>0
  <2> QED BY <2>1, XorType
<1>2. b \in Nat
  <2> HIDE DEF a
  <2>1. a \div Pow2[ShiftB] \in Nat
    BY <1>0, <1>1
  <2> QED BY <1>1, <2>1, XorType
<1>3. c \in Nat
  <2> HIDE DEF b
  <2>1. (b * Pow2[ShiftC]) % Word \in Nat
    BY <1>0, <1>2
  <2> QED BY <1>2, <2>1, XorType
<1>4. xorshift64s(s) = (c * Multiplier) % Word
  BY DEF xorshift64s
<1> HIDE DEF c
<1>5. (c * Multiplier) % Word \in 0..(Word - 1)
  <2>1. c * Multiplier \in Nat
    BY <1>0, <1>3
  <2> QED BY <1>0, <2>1
<1> QED BY <1>4, <1>5

\* Octet values.
Octet == 0..255

\* put_u64_be writes octets, and different words differently.
LEMMA OctetsType ==
    ASSUME NEW v \in Nat
    PROVE  Octets(v) \in [1..WordOctets -> Octet] /\ Octets(v) \in Seq(Octet)
           /\ Len(Octets(v)) = WordOctets
<1>1. ASSUME NEW i \in 1..WordOctets PROVE (v \div Pow2[8 * (WordOctets - i)]) % 256 \in 0..255
  <2>1. 8 * (WordOctets - i) \in Nat
    BY Sizes
  <2>2. Pow2[8 * (WordOctets - i)] \in Nat \ {0}
    BY <2>1, Pow2Positive
  <2>3. v \div Pow2[8 * (WordOctets - i)] \in Nat
    BY <2>2
  <2> QED BY <2>3
<1> QED BY <1>1, Sizes DEF Octets, Octet

\* Eight more places are a factor of 256.
LEMMA Pow2Octet == \A k \in Nat : Pow2[8 * (k + 1)] = 256 * Pow2[8 * k]
<1> SUFFICES ASSUME NEW k \in Nat PROVE Pow2[8 * (k + 1)] = 256 * Pow2[8 * k]
  OBVIOUS
<1> DEFINE n == 8 * k
<1>1. n \in Nat /\ 8 * (k + 1) = ((((((((n + 1) + 1) + 1) + 1) + 1) + 1) + 1) + 1)
  OBVIOUS
<1> HIDE DEF n
<1>2. \A m \in Nat : Pow2[m] \in Nat /\ Pow2[m + 1] = 2 * Pow2[m]
  BY Pow2Unfold
<1>3. Pow2[(n + 1) + 1] = 4 * Pow2[n]
  BY <1>1, <1>2
<1>4. Pow2[(((n + 1) + 1) + 1) + 1] = 16 * Pow2[n]
  BY <1>1, <1>2, <1>3
<1>5. Pow2[(((((n + 1) + 1) + 1) + 1) + 1) + 1] = 64 * Pow2[n]
  BY <1>1, <1>2, <1>4
<1>6. Pow2[(((((((n + 1) + 1) + 1) + 1) + 1) + 1) + 1) + 1] = 256 * Pow2[n]
  BY <1>1, <1>2, <1>5
<1> QED BY <1>1, <1>6 DEF n

\* Different words have different octets.
LEMMA OctetsInjective ==
    ASSUME NEW u \in 0..(Word - 1), NEW v \in 0..(Word - 1), Octets(u) = Octets(v)
    PROVE  u = v
<1> DEFINE Same(k) == u \div Pow2[8 * k] = v \div Pow2[8 * k]
<1> DEFINE S == {j \in Nat : j <= WordOctets => Same(WordOctets - j)}
<1>0. WordOctets \in Nat /\ Word \in Nat /\ Word = Pow2[8 * WordOctets] /\ u \in Nat /\ v \in Nat
  BY Sizes DEF Word
<1>1. 0 \in S
  <2>1. ASSUME NEW w \in 0..(Word - 1) PROVE w \div Word = 0
    BY <1>0
  <2> QED BY <1>0, <2>1
<1>2. ASSUME NEW j \in Nat, j \in S PROVE j + 1 \in S
  <2> SUFFICES ASSUME j + 1 <= WordOctets PROVE Same(WordOctets - (j + 1))
    OBVIOUS
  <2> DEFINE k == WordOctets - (j + 1)
  <2>1. k \in Nat /\ WordOctets - j = k + 1 /\ Same(k + 1) /\ j + 1 \in 1..WordOctets
    BY <1>0, <1>2
  <2> DEFINE d == Pow2[8 * k]
  <2>2. d \in Nat \ {0} /\ Pow2[8 * (k + 1)] = 256 * d
    BY <2>1, Pow2Positive, Pow2Octet
  <2>3. Octets(u)[j + 1] = (u \div d) % 256 /\ Octets(v)[j + 1] = (v \div d) % 256
    BY <2>1 DEF Octets
  <2> HIDE DEF k, d
  <2> DEFINE c == 256
  <2>4. d \in Nat \ {0} /\ c \in Nat \ {0} /\ u \in Nat /\ v \in Nat
    BY <1>0, <2>2
  <2>5. u \div (c * d) = v \div (c * d) /\ (u \div d) % c = (v \div d) % c
    BY <2>1, <2>2, <2>3
  <2> HIDE DEF c
  <2>7. u \div d = v \div d
    BY <2>4, <2>5, SameDigits, Zenon
  <2> QED BY <2>7 DEF d, k
<1>3. Nat \subseteq S
  <2> HIDE DEF S
  <2> QED BY <1>1, <1>2, SetInduction
<1>4. Same(0)
  <2>1. WordOctets \in S /\ WordOctets - WordOctets = 0
    BY <1>0, <1>3
  <2> QED BY <1>0, <2>1
<1>5. Pow2[8 * 0] = 1
  BY Pow2Unfold
<1> QED BY <1>0, <1>4, <1>5

(***************************************************************************)
(* Where the identifiers come from                                         *)
(***************************************************************************)
\* The states of the generator, one after the other.
Orbit[n \in Nat] ==
    IF n = 0 THEN (IF Seed = 0 THEN FallbackSeed ELSE Seed) ELSE xorshift64s(Orbit[n - 1])

\* What Orbit computes.
LEMMA OrbitUnfold ==
    /\ Orbit[0] = IF Seed = 0 THEN FallbackSeed ELSE Seed
    /\ \A n \in Nat : Orbit[n] \in 0..(Word - 1) /\ Orbit[n + 1] = xorshift64s(Orbit[n])
<1> DEFINE c == IF Seed = 0 THEN FallbackSeed ELSE Seed
<1> DEFINE D == [x \in Nat \X (0..(Word - 1)) |-> xorshift64s(x[2])]
<1> DEFINE F(g) == [n \in Nat |-> IF n = 0 THEN c ELSE xorshift64s(g[n - 1])]
<1>1. c \in 0..(Word - 1)
  BY TracerAssumption
<1>2. D \in Steps(0..(Word - 1))
  BY GeneratorType DEF Steps
<1>3. PICK g : Follows(g, 0..(Word - 1), c, D)
  <2> HIDE DEF c, D
  <2> QED BY <1>1, <1>2, Recursion
<1> HIDE DEF c
<1>4. /\ g \in [Nat -> 0..(Word - 1)] /\ g[0] = c
      /\ \A n \in Nat : g[n + 1] = xorshift64s(g[n])
  BY <1>3 DEF Follows
<1>5. g = F(g)
  <2>1. ASSUME NEW n \in Nat PROVE g[n] = IF n = 0 THEN c ELSE xorshift64s(g[n - 1])
    <3>1. CASE n = 0
      BY <1>4, <3>1
    <3>2. CASE n # 0
      <4>1. n - 1 \in Nat /\ (n - 1) + 1 = n
        BY <3>2
      <4> QED BY <1>4, <3>2, <4>1
    <3> QED BY <3>1, <3>2
  <2> QED BY <1>4, <2>1
<1>6. Orbit = F(Orbit)
  <2>1. Orbit = CHOOSE h : h = F(h)
    BY DEF Orbit, c
  <2> HIDE DEF F
  <2> QED BY <1>5, <2>1
<1>7. ASSUME NEW n \in Nat PROVE Orbit[n] = IF n = 0 THEN c ELSE xorshift64s(Orbit[n - 1])
  BY <1>6, Zenon
<1>8. Orbit[0] = c
  BY <1>7
<1>9. ASSUME NEW n \in Nat PROVE Orbit[n + 1] = xorshift64s(Orbit[n])
  <2>1. n + 1 \in Nat /\ n + 1 # 0 /\ (n + 1) - 1 = n
    OBVIOUS
  <2> QED BY <1>7, <2>1
<1> DEFINE S == {n \in Nat : Orbit[n] \in 0..(Word - 1)}
<1>10. 0 \in S
  BY <1>1, <1>8
<1>11. \A n \in Nat : n \in S => n + 1 \in S
  BY <1>9, GeneratorType
<1>12. Nat \subseteq S
  <2> HIDE DEF S
  <2> QED BY <1>10, <1>11, SetInduction
<1> QED BY <1>8, <1>9, <1>12 DEF c

\* Identifiers of the right lengths.
TraceIds == [1..TraceIdLen -> Octet]
SpanIds  == [1..SpanIdLen -> Octet]

\* A span has identifiers of the right lengths and a flag.
SpanOK(s) == IsSpan(s) /\ s.trace_id \in TraceIds /\ s.span_id \in SpanIds /\ s.sampled \in BOOLEAN

\* The length of the identifier that a thread is drawing.
Needed(t) == IF pc[t] = "trace" THEN TraceIdLen ELSE SpanIdLen

\* A thread that draws holds whole words, too few for the identifier; one that
\* does not draw holds none.
WordsOK ==
    /\ words \in [Threads -> Seq(Octet)]
    /\ \A t \in Threads :
          /\ Len(words[t]) % WordOctets = 0 /\ Len(words[t]) < Needed(t)
          /\ pc[t] \notin {"trace", "span"} => words[t] = <<>>

\* The types of the generator, the threads and the spans.
TInv ==
    /\ draws \in Nat /\ prng = Orbit[draws]
    /\ pc \in [Threads -> {"idle", "trace", "span", "sample"}]
    /\ WordsOK
    /\ span = [t \in Threads |-> span[t]] /\ \A t \in Threads : SpanOK(span[t])
    /\ \A s \in spans : SpanOK(s)

\* What a thread has after the word v: too little, zero, or an identifier of
\* the right length.
LEMMA DrewCases ==
    ASSUME TInv, NEW t \in Threads, pc[t] \in {"trace", "span"}, NEW v \in 0..(Word - 1), Drew(t, v),
           NEW id, id = words[t] \o Octets(v)
    PROVE  /\ id \in Seq(Octet) /\ Len(id) >= WordOctets /\ Len(id) % WordOctets = 0
           /\ \/ /\ Len(id) < Needed(t) /\ words' = [words EXCEPT ![t] = id]
                 /\ UNCHANGED <<pc, span, drawn>>
              \/ /\ IsZero(id) /\ words' = [words EXCEPT ![t] = <<>>]
                 /\ UNCHANGED <<pc, span, drawn>>
              \/ /\ Len(id) = Needed(t) /\ ~IsZero(id) /\ words' = [words EXCEPT ![t] = <<>>]
                 /\ pc' = [pc EXCEPT ![t] = IF @ = "trace" THEN "span" ELSE "sample"]
                 /\ span' = [span EXCEPT ![t] = IF pc[t] = "trace" THEN [@ EXCEPT !.trace_id = id]
                                                ELSE [@ EXCEPT !.span_id = id]]
                 /\ drawn' = Append(drawn, id)
<1>1. /\ words[t] \in Seq(Octet) /\ Len(words[t]) \in Nat /\ Len(words[t]) % WordOctets = 0
      /\ Len(words[t]) < Needed(t)
  BY DEF TInv, WordsOK
<1>2. Octets(v) \in Seq(Octet) /\ Len(Octets(v)) = WordOctets
  BY OctetsType, Sizes
<1>3. id \in Seq(Octet) /\ Len(id) = Len(words[t]) + WordOctets /\ Len(id) \in Nat
  <2>1. id \in Seq(Octet) /\ Len(id) = Len(words[t]) + WordOctets
    BY <1>1, <1>2, ConcatProperties, Zenon
  <2> QED BY <1>1, <2>1, Sizes
<1>4. Needed(t) \in Nat /\ Needed(t) % WordOctets = 0 /\ WordOctets \in Nat \ {0}
  BY Sizes DEF Needed
<1>5. Len(words[t]) + WordOctets <= Needed(t) /\ (Len(words[t]) + WordOctets) % WordOctets = 0
  BY <1>1, <1>4, NextMultiple
<1>6. Len(id) >= WordOctets /\ Len(id) % WordOctets = 0 /\ Len(id) <= Needed(t)
  <2> DEFINE n == Len(words[t])
  <2>1. Len(id) = n + WordOctets /\ n + WordOctets <= Needed(t) /\ n \in Nat
    BY <1>1, <1>3, <1>5
  <2>2. Len(id) % WordOctets = 0
    BY <1>3, <1>5, Zenon
  <2> HIDE DEF n
  <2>3. Len(id) >= WordOctets /\ Len(id) <= Needed(t)
    BY <1>4, <2>1
  <2> QED BY <2>2, <2>3
<1>7. CASE Len(id) < Needed(t) \/ IsZero(id)
  BY <1>3, <1>6, <1>7 DEF Drew, Needed
<1>8. CASE ~(Len(id) < Needed(t) \/ IsZero(id))
  <2>1. Len(id) = Needed(t) /\ ~IsZero(id)
    <3>1. ~(Len(id) < Needed(t)) /\ Len(id) <= Needed(t) /\ Len(id) \in Nat /\ Needed(t) \in Nat
      BY <1>3, <1>4, <1>6, <1>8, Zenon
    <3> QED BY <1>8, <3>1
  <2>2. /\ words' = [words EXCEPT ![t] = <<>>]
        /\ pc' = [pc EXCEPT ![t] = IF @ = "trace" THEN "span" ELSE "sample"]
        /\ span' = [span EXCEPT ![t] = IF pc[t] = "trace" THEN [@ EXCEPT !.trace_id = id]
                                       ELSE [@ EXCEPT !.span_id = id]]
        /\ drawn' = Append(drawn, id)
    BY <1>8, Zenon DEF Drew, Needed
  <2> QED BY <1>3, <1>6, <2>1, <2>2
<1> QED BY <1>7, <1>8

\* The spans of the model have the right types, and keep them when a field is
\* set.
LEMMA SpansOK ==
    /\ SpanOK(NoIds)
    /\ \A s : SpanOK(s) => /\ \A v \in TraceIds : SpanOK([s EXCEPT !.trace_id = v])
                           /\ \A v \in SpanIds : SpanOK([s EXCEPT !.span_id = v])
                           /\ \A v \in BOOLEAN : SpanOK([s EXCEPT !.sampled = v])
                           /\ \A v : SpanOK([s EXCEPT !.parent = v])
<1>1. SpanOK(NoIds)
  <2>1. Zeros(TraceIdLen) \in TraceIds /\ Zeros(SpanIdLen) \in SpanIds
    BY Sizes DEF Zeros, TraceIds, SpanIds, Octet
  <2> QED BY <2>1, SpanFields DEF SpanOK, NoIds
<1>2. ASSUME NEW s, SpanOK(s), NEW v \in TraceIds PROVE SpanOK([s EXCEPT !.trace_id = v])
  BY <1>2 DEF SpanOK, IsSpan
<1>3. ASSUME NEW s, SpanOK(s), NEW v \in SpanIds PROVE SpanOK([s EXCEPT !.span_id = v])
  BY <1>3 DEF SpanOK, IsSpan
<1>4. ASSUME NEW s, SpanOK(s), NEW v PROVE SpanOK([s EXCEPT !.parent = v])
  BY <1>4 DEF SpanOK, IsSpan
<1>5. ASSUME NEW s, SpanOK(s), NEW v \in BOOLEAN PROVE SpanOK([s EXCEPT !.sampled = v])
  BY <1>5 DEF SpanOK, IsSpan
<1> QED BY <1>1, <1>2, <1>3, <1>4, <1>5

\* The generator and the tracer start in order.
LEMMA TypeInit == Init => TInv
<1> SUFFICES ASSUME Init PROVE TInv
  OBVIOUS
<1>1. draws \in Nat /\ prng = Orbit[draws]
  BY OrbitUnfold DEF Init
<1>2. pc = [t \in Threads |-> "idle"] /\ words = [t \in Threads |-> <<>>]
  BY DEF Init
<1>3. WordsOK
  <2>1. <<>> \in Seq(Octet) /\ Len(<<>>) = 0
    OBVIOUS
  <2>2. 0 % WordOctets = 0
    BY Sizes
  <2> QED BY <1>2, <2>1, <2>2, Sizes DEF WordsOK, Needed
<1>4. span = [t \in Threads |-> NoIds] /\ spans = {}
  BY DEF Init
<1> QED BY <1>1, <1>2, <1>3, <1>4, SpansOK DEF TInv

\* A successful compare-and-swap keeps the types.
LEMMA TypeDraw ==
    ASSUME TInv, NEW t \in Threads, pc[t] \in {"trace", "span"}, draws' = draws + 1,
           prng' = xorshift64s(prng), Drew(t, prng'), UNCHANGED spans
    PROVE  TInv' /\ prng' \in 0..(Word - 1)
<1>1. draws' \in Nat /\ prng' = Orbit[draws'] /\ prng' \in 0..(Word - 1)
  BY OrbitUnfold DEF TInv
<1>0. (Orbit[draws])' = Orbit[draws']
  OBVIOUS
<1> DEFINE id == words[t] \o Octets(prng')
<1>2. /\ id \in Seq(Octet) /\ Len(id) >= WordOctets /\ Len(id) % WordOctets = 0
      /\ \/ /\ Len(id) < Needed(t) /\ words' = [words EXCEPT ![t] = id]
            /\ UNCHANGED <<pc, span, drawn>>
         \/ /\ IsZero(id) /\ words' = [words EXCEPT ![t] = <<>>]
            /\ UNCHANGED <<pc, span, drawn>>
         \/ /\ Len(id) = Needed(t) /\ ~IsZero(id) /\ words' = [words EXCEPT ![t] = <<>>]
            /\ pc' = [pc EXCEPT ![t] = IF @ = "trace" THEN "span" ELSE "sample"]
            /\ span' = [span EXCEPT ![t] = IF pc[t] = "trace" THEN [@ EXCEPT !.trace_id = id]
                                           ELSE [@ EXCEPT !.span_id = id]]
            /\ drawn' = Append(drawn, id)
  BY <1>1, DrewCases
<1> HIDE DEF id
<1>3. Needed(t) \in Nat \ {0} /\ \A u \in Threads : (Needed(u))' \in Nat \ {0}
  BY Sizes DEF Needed
<1>4. <<>> \in Seq(Octet) /\ Len(<<>>) = 0 /\ 0 % WordOctets = 0
  BY Sizes
<1>5. CASE Len(id) < Needed(t) /\ words' = [words EXCEPT ![t] = id] /\ UNCHANGED <<pc, span, drawn>>
  <2>1. WordsOK'
    BY <1>2, <1>5 DEF TInv, WordsOK, Needed
  <2> QED BY <1>0, <1>1, <1>5, <2>1 DEF TInv
<1>6. CASE words' = [words EXCEPT ![t] = <<>>] /\ UNCHANGED <<pc, span, drawn>>
  <2>1. WordsOK'
    BY <1>3, <1>4, <1>6 DEF TInv, WordsOK, Needed
  <2> QED BY <1>0, <1>1, <1>6, <2>1 DEF TInv
<1>7. CASE /\ Len(id) = Needed(t) /\ words' = [words EXCEPT ![t] = <<>>]
           /\ pc' = [pc EXCEPT ![t] = IF @ = "trace" THEN "span" ELSE "sample"]
           /\ span' = [span EXCEPT ![t] = IF pc[t] = "trace" THEN [@ EXCEPT !.trace_id = id]
                                          ELSE [@ EXCEPT !.span_id = id]]
  <2>1. pc' \in [Threads -> {"idle", "trace", "span", "sample"}]
    BY <1>7 DEF TInv
  <2>2. \A u \in Threads \ {t} : pc'[u] = pc[u] /\ words'[u] = words[u]
    BY <1>7 DEF TInv, WordsOK
  <2>3. words' \in [Threads -> Seq(Octet)] /\ words'[t] = <<>>
    BY <1>4, <1>7 DEF TInv, WordsOK
  <2>4. WordsOK'
    <3>1. ASSUME NEW u \in Threads
          PROVE  (/\ Len(words[u]) % WordOctets = 0 /\ Len(words[u]) < Needed(u)
                  /\ pc[u] \notin {"trace", "span"} => words[u] = <<>>)'
      <4>1. CASE u = t
        <5>1. (Needed(t))' \in Nat \ {0}
          BY <1>3
        <5> QED BY <1>4, <2>3, <4>1, <5>1
      <4>2. CASE u # t
        BY <2>2, <4>2 DEF TInv, WordsOK, Needed
      <4> QED BY <4>1, <4>2
    <3> QED BY <2>3, <3>1 DEF WordsOK
  <2>5. id \in [1..Len(id) -> Octet]
    BY <1>2, LenProperties, Zenon
  <2>6. \E s : SpanOK(s) /\ span' = [span EXCEPT ![t] = s]
    <3>0. SpanOK(span[t])
      BY DEF TInv
    <3>1. CASE pc[t] = "trace"
      <4>1. id \in TraceIds
        BY <1>7, <2>5, <3>1 DEF Needed, TraceIds
      <4>2. SpanOK([span[t] EXCEPT !.trace_id = id])
        BY <3>0, <4>1, SpansOK
      <4> QED BY <1>7, <3>1, <4>2
    <3>2. CASE pc[t] # "trace"
      <4>1. id \in SpanIds
        BY <1>7, <2>5, <3>2 DEF Needed, SpanIds
      <4>2. SpanOK([span[t] EXCEPT !.span_id = id])
        BY <3>0, <4>1, SpansOK
      <4> QED BY <1>7, <3>2, <4>2
    <3> QED BY <3>1, <3>2
  <2>7. span' = [u \in Threads |-> span'[u]] /\ \A u \in Threads : SpanOK(span'[u])
    BY <2>6 DEF TInv
  <2> QED BY <1>0, <1>1, <2>1, <2>4, <2>7 DEF TInv
<1>8. TInv'
  BY <1>2, <1>5, <1>6, <1>7
<1> QED BY <1>1, <1>8

\* Every step keeps the types.
LEMMA TypeStep == TInv /\ [Next]_vars => TInv'
<1> SUFFICES ASSUME TInv, [Next]_vars PROVE TInv'
  OBVIOUS
<1>1. UNCHANGED <<draws, prng, pc, words, span, spans>> => TInv'
  BY DEF TInv, WordsOK, Needed
<1>2. ASSUME NEW t \in Threads, NEW s, SpanOK(s), span' = [span EXCEPT ![t] = s]
      PROVE  span' = [u \in Threads |-> span'[u]] /\ \A u \in Threads : SpanOK(span'[u])
  BY <1>2 DEF TInv
<1>3. ASSUME NEW t \in Threads, NEW p \in {"idle", "trace", "span"}, words[t] = <<>>,
             pc' = [pc EXCEPT ![t] = p], UNCHANGED words
      PROVE  pc' \in [Threads -> {"idle", "trace", "span", "sample"}] /\ WordsOK'
  <2>1. pc' \in [Threads -> {"idle", "trace", "span", "sample"}]
    BY <1>3 DEF TInv
  <2>2. Len(<<>>) = 0 /\ 0 % WordOctets = 0
    BY Sizes
  <2> QED BY <1>3, <2>1, <2>2, Sizes DEF TInv, WordsOK, Needed
<1>4. ASSUME NEW t \in Threads, Sample(t) PROVE TInv'
  <2>1. words[t] = <<>>
    BY <1>4 DEF Sample, TInv, WordsOK
  <2>2. pc' \in [Threads -> {"idle", "trace", "span", "sample"}] /\ WordsOK'
    BY <1>3, <1>4, <2>1 DEF Sample
  <2>3. span' = [u \in Threads |-> span'[u]] /\ \A u \in Threads : SpanOK(span'[u])
    BY <1>2, <1>4, SpansOK DEF Sample
  <2>4. \A v \in BOOLEAN : SpanOK([span[t] EXCEPT !.sampled = v])
    BY SpansOK DEF TInv
  <2>5. spans' = spans \/ \E v \in BOOLEAN : spans' = spans \cup {[span[t] EXCEPT !.sampled = v]}
    BY <1>4, Zenon DEF Sample
  <2>6. \A r \in spans' : SpanOK(r)
    BY <2>4, <2>5 DEF TInv
  <2>7. UNCHANGED <<draws, prng>>
    BY <1>4 DEF Sample
  <2> QED BY <2>2, <2>3, <2>6, <2>7 DEF TInv
<1>5. ASSUME NEW t \in Threads, StartRoot(t) PROVE TInv'
  <2>1. words[t] = <<>>
    BY <1>5 DEF StartRoot, TInv, WordsOK
  <2>2. pc' \in [Threads -> {"idle", "trace", "span", "sample"}] /\ WordsOK'
    BY <1>3, <1>5, <2>1 DEF StartRoot
  <2>3. span' = [u \in Threads |-> span'[u]] /\ \A u \in Threads : SpanOK(span'[u])
    BY <1>2, <1>5, SpansOK DEF StartRoot
  <2>4. UNCHANGED <<draws, prng, spans>>
    BY <1>5 DEF StartRoot
  <2> QED BY <2>2, <2>3, <2>4 DEF TInv
<1>6. ASSUME NEW t \in Threads, NEW parent \in spans \cup {NoIds}, StartChild(t, parent) PROVE TInv'
  <2>1. words[t] = <<>>
    BY <1>6 DEF StartChild, TInv, WordsOK
  <2>2. pc' \in [Threads -> {"idle", "trace", "span", "sample"}] /\ WordsOK'
    BY <1>3, <1>6, <2>1 DEF StartChild
  <2> DEFINE up == IF IsZero(parent.span_id) THEN NULL ELSE parent.span_id
  <2> DEFINE r == [NoIds EXCEPT !.trace_id = parent.trace_id]
  <2>3. SpanOK(parent)
    BY SpansOK DEF TInv
  <2>4. SpanOK(r)
    BY <2>3, SpansOK DEF SpanOK
  <2>5. SpanOK([r EXCEPT !.parent = up])
    <3> HIDE DEF r, up
    <3> QED BY <2>4, SpansOK
  <2>6. [NoIds EXCEPT !.trace_id = parent.trace_id, !.parent = up] = [r EXCEPT !.parent = up]
    OBVIOUS
  <2>7. span' = [span EXCEPT ![t] = [r EXCEPT !.parent = up]]
    BY <1>6, <2>6, Zenon DEF StartChild
  <2>8. span' = [u \in Threads |-> span'[u]] /\ \A u \in Threads : SpanOK(span'[u])
    <3> HIDE DEF r, up
    <3> QED BY <1>2, <2>5, <2>7
  <2>9. UNCHANGED <<draws, prng, spans>>
    BY <1>6 DEF StartChild
  <2> QED BY <2>2, <2>8, <2>9 DEF TInv
<1>7. ASSUME NEW t \in Threads, PrngCas(t) PROVE TInv'
  <2>1. CASE old[t] = prng /\ prng' = xorshift64s(old[t]) /\ draws' = draws + 1 /\ Drew(t, prng')
    BY <1>7, <2>1, TypeDraw DEF PrngCas
  <2>2. CASE UNCHANGED <<prng, pc, span, words, drawn, draws>>
    BY <1>1, <1>7, <2>2 DEF PrngCas
  <2> QED BY <1>7, <2>1, <2>2 DEF PrngCas
<1>8. ASSUME NEW t \in Threads, PrngLoad(t) PROVE TInv'
  BY <1>1, <1>8 DEF PrngLoad
<1>9. ASSUME NEW s, otlp_tracer_set_sampler(s) PROVE TInv'
  BY <1>1, <1>9 DEF otlp_tracer_set_sampler, threadvars
<1>10. ASSUME NEW s, NEW tracestate, NEW baggage, Inject(s, tracestate, baggage) PROVE TInv'
  BY <1>1, <1>10 DEF Inject, threadvars
<1>11. CASE Discard
  BY <1>1, <1>11 DEF Discard, threadvars
<1>12. CASE UNCHANGED vars
  BY <1>1, <1>12 DEF vars, threadvars
<1> QED BY <1>4, <1>5, <1>6, <1>7, <1>8, <1>9, <1>10, <1>11, <1>12 DEF Next

(***************************************************************************)
(* Identifiers are unique as long as the generator does not repeat itself  *)
(***************************************************************************)
\* The first word of an identifier, and the words that n draws give.
First(id) == [i \in 1..WordOctets |-> id[i]]
Given(n) == {Octets(Orbit[k]) : k \in 1..n}

\* Identifiers, complete or in the making, begin with words that were drawn.
Begun ==
    /\ drawn \in Seq(Seq(Octet))
    /\ \A i \in DOMAIN drawn : First(drawn[i]) \in Given(draws) /\ ~IsZero(drawn[i])
    /\ \A t \in Threads :
          words[t] # <<>> => Len(words[t]) >= WordOctets /\ First(words[t]) \in Given(draws)

\* No two of them begin with the same word.
Distinct ==
    /\ \A i, j \in DOMAIN drawn : First(drawn[i]) = First(drawn[j]) => i = j
    /\ \A t \in Threads, i \in DOMAIN drawn : words[t] # <<>> => First(words[t]) # First(drawn[i])
    /\ \A t, u \in Threads :
          words[t] # <<>> /\ words[u] # <<>> /\ First(words[t]) = First(words[u]) => t = u

\* The generator does not return to a state in its first p states.
NoRepeat(p) == \A m, n \in 0..(p - 1) : Orbit[m] = Orbit[n] => m = n

\* The invariant, for a generator that does not repeat itself in p states.
UInv(p) == Begun /\ (draws < p => Distinct)

\* The identifier that grows by a word begins with that word, if it is its
\* first, or as before.
LEMMA FirstGrown ==
    ASSUME NEW w \in Seq(Octet), NEW v \in 0..(Word - 1), w # <<>> => Len(w) >= WordOctets
    PROVE  First(w \o Octets(v)) = IF w = <<>> THEN Octets(v) ELSE First(w)
<1>1. Octets(v) \in Seq(Octet) /\ Len(Octets(v)) = WordOctets /\ Octets(v) \in [1..WordOctets -> Octet]
  <2>1. v \in Nat
    OBVIOUS
  <2> QED BY <2>1, OctetsType
<1>2. \A i \in 1..(Len(w) + WordOctets) :
         (w \o Octets(v))[i] = IF i <= Len(w) THEN w[i] ELSE Octets(v)[i - Len(w)]
  BY <1>1, ConcatProperties, Zenon
<1>3. CASE w = <<>>
  <2>1. \A i \in 1..WordOctets : (w \o Octets(v))[i] = Octets(v)[i]
    BY <1>2, <1>3, Sizes
  <2> QED BY <1>1, <1>3, <2>1 DEF First
<1>4. CASE w # <<>>
  <2>1. Len(w) \in Nat /\ Len(w) >= WordOctets
    BY <1>4
  <2>2. \A i \in 1..WordOctets : (w \o Octets(v))[i] = w[i]
    BY <1>2, <2>1, Sizes
  <2> QED BY <1>4, <2>2 DEF First
<1> QED BY <1>3, <1>4

\* A word that is drawn later differs from all words before it.
LEMMA NewWord ==
    ASSUME NEW p \in Nat, NoRepeat(p), NEW n \in Nat, n + 1 < p
    PROVE  Octets(Orbit[n + 1]) \notin Given(n)
<1> SUFFICES ASSUME NEW k \in 1..n, Octets(Orbit[n + 1]) = Octets(Orbit[k]) PROVE FALSE
  BY DEF Given
<1>1. Orbit[n + 1] \in 0..(Word - 1) /\ Orbit[k] \in 0..(Word - 1)
  BY OrbitUnfold
<1>2. Orbit[n + 1] = Orbit[k]
  BY <1>1, OctetsInjective
<1>3. n + 1 \in 0..(p - 1) /\ k \in 0..(p - 1) /\ n + 1 # k
  OBVIOUS
<1> QED BY <1>2, <1>3 DEF NoRepeat

\* A successful compare-and-swap keeps identifiers apart.
LEMMA UniqueDraw ==
    ASSUME TInv, NEW p \in Nat, NoRepeat(p), UInv(p), NEW t \in Threads, pc[t] \in {"trace", "span"},
           draws' = draws + 1, prng' = xorshift64s(prng), Drew(t, prng')
    PROVE  UInv(p)'
<1> DEFINE v == prng'
<1> DEFINE id == words[t] \o Octets(v)
<1>1. v = Orbit[draws + 1] /\ v \in 0..(Word - 1) /\ draws \in Nat
  BY OrbitUnfold DEF TInv
<1>2. /\ id \in Seq(Octet) /\ Len(id) >= WordOctets
      /\ \/ /\ words' = [words EXCEPT ![t] = id] /\ UNCHANGED drawn
         \/ /\ words' = [words EXCEPT ![t] = <<>>] /\ UNCHANGED drawn
         \/ /\ ~IsZero(id) /\ words' = [words EXCEPT ![t] = <<>>]
            /\ drawn' = Append(drawn, id)
  BY <1>1, DrewCases
<1>3. /\ words \in [Threads -> Seq(Octet)] /\ drawn \in Seq(Seq(Octet))
      /\ words[t] # <<>> => Len(words[t]) >= WordOctets
  BY DEF TInv, WordsOK, UInv, Begun
<1>4. First(id) = IF words[t] = <<>> THEN Octets(v) ELSE First(words[t])
  BY <1>1, <1>3, FirstGrown
<1> HIDE DEF id, v
<1>5. Given(draws) \subseteq Given(draws') /\ First(id) \in Given(draws')
  <2>1. draws' = draws + 1
    OBVIOUS
  <2>2. Given(draws) \subseteq Given(draws + 1)
    BY <1>1 DEF Given
  <2>3. Octets(v) \in Given(draws + 1)
    BY <1>1 DEF Given
  <2>4. words[t] # <<>> => First(words[t]) \in Given(draws)
    BY DEF UInv, Begun
  <2> QED BY <1>4, <2>1, <2>2, <2>3, <2>4
<1>6. draws + 1 < p =>
         /\ Distinct
         /\ \A i \in DOMAIN drawn : First(drawn[i]) # First(id)
         /\ \A u \in Threads \ {t} : words[u] # <<>> => First(words[u]) # First(id)
  <2> SUFFICES ASSUME draws + 1 < p
               PROVE  /\ Distinct
                      /\ \A i \in DOMAIN drawn : First(drawn[i]) # First(id)
                      /\ \A u \in Threads \ {t} : words[u] # <<>> => First(words[u]) # First(id)
    OBVIOUS
  <2>1. Distinct
    BY <1>1 DEF UInv
  <2>2. CASE words[t] = <<>>
    <3>1. First(id) \notin Given(draws)
      BY <1>1, <1>4, <2>2, NewWord
    <3> QED BY <2>1, <3>1 DEF UInv, Begun
  <2>3. CASE words[t] # <<>>
    BY <1>4, <2>1, <2>3 DEF Distinct
  <2> QED BY <2>2, <2>3
<1>7. CASE words' = [words EXCEPT ![t] = id] /\ UNCHANGED drawn
  <2>1. words'[t] = id /\ \A u \in Threads \ {t} : words'[u] = words[u]
    BY <1>3, <1>7
  <2>2. Begun'
    BY <1>2, <1>5, <1>7, <2>1 DEF UInv, Begun
  <2>3. draws' < p => Distinct'
    BY <1>6, <1>7, <2>1 DEF Distinct
  <2> QED BY <2>2, <2>3 DEF UInv
<1>8. CASE words' = [words EXCEPT ![t] = <<>>] /\ UNCHANGED drawn
  <2>1. words'[t] = <<>> /\ \A u \in Threads \ {t} : words'[u] = words[u]
    BY <1>3, <1>8
  <2>2. Begun'
    BY <1>5, <1>8, <2>1 DEF UInv, Begun
  <2>3. draws' < p => Distinct'
    BY <1>6, <1>8, <2>1 DEF Distinct
  <2> QED BY <2>2, <2>3 DEF UInv
<1>9. CASE /\ ~IsZero(id) /\ words' = [words EXCEPT ![t] = <<>>]
           /\ drawn' = Append(drawn, id)
  <2>1. words'[t] = <<>> /\ \A u \in Threads \ {t} : words'[u] = words[u]
    BY <1>3, <1>9
  <2>2. /\ drawn' \in Seq(Seq(Octet)) /\ DOMAIN drawn' = 1..(Len(drawn) + 1)
        /\ DOMAIN drawn = 1..Len(drawn) /\ Len(drawn) \in Nat
        /\ drawn'[Len(drawn) + 1] = id /\ \A i \in 1..Len(drawn) : drawn'[i] = drawn[i]
    BY <1>2, <1>3, <1>9
  <2>3. \A i \in DOMAIN drawn' : \/ i \in DOMAIN drawn /\ drawn'[i] = drawn[i]
                                 \/ i = Len(drawn) + 1 /\ drawn'[i] = id
    BY <2>2
  <2>4. Begun'
    BY <1>5, <1>9, <2>1, <2>2, <2>3 DEF UInv, Begun
  <2>5. draws' < p => Distinct'
    BY <1>6, <2>1, <2>3 DEF Distinct
  <2> QED BY <2>4, <2>5 DEF UInv
<1> QED BY <1>2, <1>7, <1>8, <1>9

\* Every step keeps identifiers apart.
LEMMA UniqueStep ==
    ASSUME NEW p \in Nat, NoRepeat(p)
    PROVE  TInv /\ UInv(p) /\ [Next]_vars => UInv(p)'
<1> SUFFICES ASSUME TInv, UInv(p), [Next]_vars PROVE UInv(p)'
  OBVIOUS
<1>1. UNCHANGED <<draws, words, drawn>> => UInv(p)'
  BY DEF UInv, Begun, Distinct
<1>2. ASSUME NEW t \in Threads, PrngCas(t) PROVE UInv(p)'
  <2>1. CASE old[t] = prng /\ prng' = xorshift64s(old[t]) /\ draws' = draws + 1 /\ Drew(t, prng')
    BY <1>2, <2>1, UniqueDraw DEF PrngCas
  <2>2. CASE UNCHANGED <<prng, pc, span, words, drawn, draws>>
    BY <1>1, <2>2
  <2> QED BY <1>2, <2>1, <2>2 DEF PrngCas
<1>3. ASSUME NEW t \in Threads, Sample(t) PROVE UInv(p)'
  BY <1>1, <1>3 DEF Sample
<1>4. ASSUME NEW t \in Threads, StartRoot(t) PROVE UInv(p)'
  BY <1>1, <1>4 DEF StartRoot
<1>5. ASSUME NEW t \in Threads, NEW parent, StartChild(t, parent) PROVE UInv(p)'
  BY <1>1, <1>5 DEF StartChild
<1>6. ASSUME NEW t \in Threads, PrngLoad(t) PROVE UInv(p)'
  BY <1>1, <1>6 DEF PrngLoad
<1>7. ASSUME NEW s, otlp_tracer_set_sampler(s) PROVE UInv(p)'
  BY <1>1, <1>7 DEF otlp_tracer_set_sampler, threadvars
<1>8. ASSUME NEW s, NEW tracestate, NEW baggage, Inject(s, tracestate, baggage) PROVE UInv(p)'
  BY <1>1, <1>8 DEF Inject, threadvars
<1>9. CASE Discard
  BY <1>1, <1>9 DEF Discard, threadvars
<1>10. CASE UNCHANGED vars
  BY <1>1, <1>10 DEF vars, threadvars
<1> QED BY <1>2, <1>3, <1>4, <1>5, <1>6, <1>7, <1>8, <1>9, <1>10 DEF Next

\* otlp_tracer_start_span never gives an identifier twice, and none that is
\* zero, from any number of threads that interleave in the compare-and-swap loop
\* of tracer_prng_next, as long as fewer words were drawn than the generator has
\* different states: no draw is lost or used by two threads.
THEOREM IdsUniqueHolds ==
    ASSUME NEW CONSTANT p \in Nat, NoRepeat(p)
    PROVE  Spec => [](draws < p => IdsUnique)
<1>1. Init => UInv(p)
  <2> SUFFICES ASSUME Init PROVE UInv(p)
    OBVIOUS
  <2>1. drawn = <<>> /\ words = [t \in Threads |-> <<>>]
    BY DEF Init
  <2>2. \A t \in Threads : words[t] = <<>>
    BY <2>1
  <2>3. DOMAIN drawn = {} /\ drawn \in Seq(Seq(Octet))
    BY <2>1
  <2> QED BY <2>2, <2>3 DEF UInv, Begun, Distinct
<1>2. UInv(p) => (draws < p => IdsUnique)
  <2> SUFFICES ASSUME Begun, Distinct PROVE IdsUnique
    BY DEF UInv, Begun, IdsUnique
  <2>1. \A i, j \in DOMAIN drawn : drawn[i] = drawn[j] => i = j
    BY DEF Distinct
  <2> QED BY <2>1 DEF Begun, IdsUnique
<1> QED BY <1>1, <1>2, TypeInit, TypeStep, UniqueStep, PTL DEF Spec

(***************************************************************************)
(* Traces are trees                                                        *)
(***************************************************************************)
Ids     == {drawn[i] : i \in DOMAIN drawn}
Root(s) == s.parent = NULL /\ ~IsZero(s.trace_id)

\* A thread whose span has its trace.
Placed(t) == pc[t] \in {"span", "sample"}

\* Spans have identifiers that were drawn, roots a trace that was drawn.
Named ==
    /\ \A s \in spans : s.span_id \in Ids /\ (Root(s) => s.trace_id \in Ids)
    /\ \A t \in Threads : /\ pc[t] = "sample" => span[t].span_id \in Ids
                          /\ Placed(t) /\ Root(span[t]) => span[t].trace_id \in Ids
                          /\ pc[t] = "trace" => span[t].parent = NULL

\* No two spans have the same identifier, no two roots the same trace, among
\* those that were recorded and those that are being made.
Apart ==
    /\ \A s, r \in spans :
          s.span_id = r.span_id \/ (Root(s) /\ Root(r) /\ s.trace_id = r.trace_id) => s = r
    /\ \A t \in Threads, s \in spans :
          /\ pc[t] = "sample" => span[t].span_id # s.span_id
          /\ Placed(t) /\ Root(span[t]) /\ Root(s) => span[t].trace_id # s.trace_id
    /\ \A t, u \in Threads : t # u =>
          /\ pc[t] = "sample" /\ pc[u] = "sample" => span[t].span_id # span[u].span_id
          /\ Placed(t) /\ Placed(u) /\ Root(span[t]) /\ Root(span[u]) =>
                span[t].trace_id # span[u].trace_id

\* The parent a span names was recorded, in the same trace.
HasParent(s) ==
    s.parent # NULL => \E p \in spans : p.span_id = s.parent /\ p.trace_id = s.trace_id

Rooted ==
    /\ \A s \in spans : HasParent(s) /\ (s.parent # NULL => s.parent # s.span_id)
    /\ \A t \in Threads : Placed(t) => HasParent(span[t])

Trees == Named /\ Apart /\ Rooted

\* Recorded spans that are named, apart and rooted form trees.
LEMMA TreesSuffice == Trees => TracesAreTrees
<1> SUFFICES ASSUME Trees, NEW s \in spans, ~IsZero(s.trace_id)
             PROVE  IF s.parent = NULL
                    THEN \A r \in spans : r.trace_id = s.trace_id /\ r.parent = NULL => r = s
                    ELSE \E p \in spans \ {s} :
                            /\ p.trace_id = s.trace_id
                            /\ \A r \in spans : r.span_id = s.parent <=> r = p
  BY DEF TracesAreTrees
<1>1. CASE s.parent = NULL
  BY <1>1 DEF Trees, Apart, Root
<1>2. CASE s.parent # NULL
  <2>1. PICK p \in spans : p.span_id = s.parent /\ p.trace_id = s.trace_id
    BY <1>2 DEF Trees, Rooted, HasParent
  <2>2. p # s
    BY <1>2, <2>1 DEF Trees, Rooted
  <2>3. \A a, b \in spans : a.span_id = b.span_id => a = b
    BY DEF Trees, Apart
  <2>4. \A r \in spans : r.span_id = s.parent <=> r = p
    BY <2>1, <2>3
  <2> QED BY <1>2, <2>1, <2>2, <2>4
<1> QED BY <1>1, <1>2

\* The span a thread has made is recorded, or dropped.
LEMMA TreesSample ==
    ASSUME TInv, Trees, NEW t \in Threads, Sample(t)
    PROVE  Trees'
<1> DEFINE s == span[t]
<1>1. pc[t] = "sample" /\ pc' = [pc EXCEPT ![t] = "idle"] /\ span' = [span EXCEPT ![t] = NoIds]
      /\ UNCHANGED drawn
  BY DEF Sample
<1>2. /\ pc'[t] = "idle"
      /\ \A u \in Threads \ {t} : pc'[u] = pc[u] /\ span'[u] = span[u]
  BY <1>1 DEF TInv
<1>3. Ids' = Ids
  BY <1>1 DEF Ids
<1>4. CASE UNCHANGED spans
  BY <1>2, <1>3, <1>4 DEF Trees, Named, Apart, Rooted, HasParent, Placed, Root
<1>5. ASSUME NEW v \in BOOLEAN, spans' = spans \cup {[s EXCEPT !.sampled = v]} PROVE Trees'
  <2>1. PICK r : r = [s EXCEPT !.sampled = v]
    OBVIOUS
  <2>2. r.trace_id = s.trace_id /\ r.span_id = s.span_id /\ r.parent = s.parent
    BY <2>1, SampledFields DEF TInv, SpanOK
  <2>3. spans' = spans \cup {r}
    BY <1>5, <2>1
  <2>4. Placed(t) /\ (Root(r) <=> Root(s))
    BY <1>1, <2>2 DEF Placed, Root
  <2> HIDE DEF s
  <2>5. Named'
    BY <1>1, <1>2, <1>3, <2>2, <2>3, <2>4 DEF Trees, Named, Placed, Root, s
  <2>6. Apart'
    <3>1. \A q \in spans : q.span_id # r.span_id /\ ~(Root(q) /\ Root(r) /\ q.trace_id = r.trace_id)
      BY <1>1, <2>2, <2>4 DEF Trees, Apart, s
    <3>2. \A a, b \in spans' :
             a.span_id = b.span_id \/ (Root(a) /\ Root(b) /\ a.trace_id = b.trace_id) => a = b
      BY <2>3, <3>1 DEF Trees, Apart
    <3>3. \A u \in Threads \ {t}, a \in spans' :
             /\ pc[u] = "sample" => span[u].span_id # a.span_id
             /\ Placed(u) /\ Root(span[u]) /\ Root(a) => span[u].trace_id # a.trace_id
      BY <1>1, <2>2, <2>3, <2>4 DEF Trees, Apart, s
    <3> QED BY <1>2, <3>2, <3>3 DEF Trees, Apart, Placed, Root
  <2>7. Rooted'
    <3>1. \A a : HasParent(a) => HasParent(a)'
      BY <2>3 DEF HasParent
    <3>2. HasParent(r) /\ (r.parent # NULL => r.parent # r.span_id)
      <4>1. HasParent(s)
        BY <2>4 DEF Trees, Rooted, s
      <4> QED BY <1>1, <2>2, <4>1 DEF HasParent, Trees, Apart, s
    <3>3. \A u \in Threads \ {t} : Placed(u) => HasParent(span[u])
      BY DEF Trees, Rooted
    <3>4. \A a \in spans' : HasParent(a)' /\ (a.parent # NULL => a.parent # a.span_id)
      BY <2>3, <3>1, <3>2 DEF Trees, Rooted
    <3>5. ASSUME NEW u \in Threads, Placed(u)' PROVE HasParent(span[u])'
      <4>1. u # t /\ Placed(u) /\ span'[u] = span[u]
        BY <1>2, <3>5 DEF Placed
      <4>2. HasParent(span[u])
        BY <3>3, <4>1
      <4> QED BY <2>3, <4>1, <4>2 DEF HasParent
    <3> QED BY <3>4, <3>5 DEF Rooted
  <2> QED BY <2>5, <2>6, <2>7 DEF Trees
<1> QED BY <1>4, <1>5 DEF Sample

\* A thread begins a span: a root, or the child of a recorded span.
LEMMA TreesStart ==
    ASSUME TInv, Trees, \A i \in DOMAIN drawn : ~IsZero(drawn[i]), NEW t \in Threads,
           StartRoot(t) \/ \E parent \in spans \cup {NoIds} : StartChild(t, parent)
    PROVE  Trees'
<1>0. pc[t] = "idle" /\ UNCHANGED <<drawn, spans>>
  BY DEF StartRoot, StartChild
<1>1. UNCHANGED spans /\ Ids' = Ids
  BY <1>0 DEF Ids
<1>2. CASE StartRoot(t)
  <2>1. /\ pc'[t] = "trace" /\ span'[t] = NoIds /\ NoIds.parent = NULL
        /\ \A u \in Threads \ {t} : pc'[u] = pc[u] /\ span'[u] = span[u]
    BY <1>2 DEF StartRoot, TInv, NoIds
  <2> QED BY <1>1, <2>1 DEF Trees, Named, Apart, Rooted, HasParent, Placed, Root
<1>3. ASSUME NEW parent \in spans \cup {NoIds}, StartChild(t, parent) PROVE Trees'
  <2> DEFINE up == IF IsZero(parent.span_id) THEN NULL ELSE parent.span_id
  <2>1. PICK s : s = [NoIds EXCEPT !.trace_id = parent.trace_id, !.parent = up]
    OBVIOUS
  <2>2. s.trace_id = parent.trace_id /\ s.parent = up
    BY <2>1 DEF NoIds
  <2>3. /\ pc'[t] = "span" /\ span'[t] = s
        /\ \A u \in Threads \ {t} : pc'[u] = pc[u] /\ span'[u] = span[u]
    BY <1>3, <2>1 DEF StartChild, TInv
  <2>4. ~Root(s)
    <3>1. CASE parent = NoIds
      <4>1. IsZero(NoIds.trace_id)
        BY DEF NoIds, IsZero, Zeros
      <4> QED BY <2>2, <3>1, <4>1 DEF Root
    <3>2. CASE parent \in spans
      <4>1. parent.span_id \in Ids
        BY <3>2 DEF Trees, Named
      <4>2. ~IsZero(parent.span_id)
        BY <4>1 DEF Ids
      <4>3. parent.span_id # NULL
        <5>1. parent.span_id \in [1..SpanIdLen -> 0..255]
          BY <3>2 DEF TInv, SpanOK, SpanIds, Octet
        <5>2. SpanIdLen \in Nat
          BY ContextAssumption
        <5>3. parent.span_id \in Seq(0..255)
          BY <5>1, <5>2, SeqDef
        <5> QED BY <5>3, ContextAssumption
      <4> QED BY <2>2, <4>2, <4>3 DEF Root
    <3> QED BY <3>1, <3>2
  <2>5. HasParent(s)
    <3>1. CASE parent = NoIds
      <4>1. IsZero(NoIds.span_id)
        BY DEF NoIds, IsZero, Zeros
      <4> QED BY <2>2, <3>1, <4>1 DEF HasParent
    <3>2. CASE parent \in spans
      BY <2>2, <3>2 DEF HasParent
    <3> QED BY <3>1, <3>2
  <2> HIDE DEF up
  <2>6. Named'
    BY <1>1, <2>3, <2>4 DEF Trees, Named, Placed, Root
  <2>7. Apart'
    BY <1>1, <2>3, <2>4 DEF Trees, Apart, Placed, Root
  <2>8. Rooted'
    BY <1>1, <2>3, <2>5 DEF Trees, Rooted, HasParent, Placed
  <2> QED BY <2>6, <2>7, <2>8 DEF Trees
<1> QED BY <1>2, <1>3

\* A new identifier, as a trace or as that of a span, leaves the trees trees.
LEMMA TreesGrow ==
    ASSUME Trees, NEW t \in Threads, NEW id, Ids' = Ids \cup {id}, id \notin Ids, spans' = spans,
           \A u \in Threads \ {t} : pc'[u] = pc[u] /\ span'[u] = span[u],
           \/ /\ pc[t] = "trace" /\ pc'[t] = "span"
              /\ span'[t].trace_id = id /\ span'[t].parent = NULL
           \/ /\ pc[t] = "span" /\ pc'[t] = "sample"
              /\ span'[t].trace_id = span[t].trace_id /\ span'[t].parent = span[t].parent
              /\ span'[t].span_id = id
    PROVE  Trees'
<1>1. ASSUME NEW u \in Threads
      PROVE  /\ pc'[u] = "sample" => \/ pc[u] = "sample" /\ span'[u].span_id = span[u].span_id
                                     \/ u = t /\ span'[u].span_id = id
             /\ pc'[u] \in {"span", "sample"} =>
                   /\ \/ /\ pc[u] \in {"span", "sample"} /\ span'[u].trace_id = span[u].trace_id
                         /\ span'[u].parent = span[u].parent
                      \/ u = t /\ span'[u].trace_id = id /\ span'[u].parent = NULL
             /\ pc'[u] = "trace" => pc[u] = "trace" /\ span'[u].parent = span[u].parent
  BY <1>1
<1>2. Named'
  BY <1>1 DEF Trees, Named, Placed, Root
<1>3. Apart'
  BY <1>1 DEF Trees, Named, Apart, Placed, Root
<1>4. Rooted'
  BY <1>1 DEF Trees, Rooted, HasParent, Placed
<1> QED BY <1>2, <1>3, <1>4 DEF Trees

\* A thread gets an identifier that nobody had.
LEMMA TreesDraw ==
    ASSUME TInv, Trees, NEW t \in Threads, pc[t] \in {"trace", "span"}, NEW v \in 0..(Word - 1),
           Drew(t, v), UNCHANGED spans, drawn \in Seq(Seq(Octet)),
           \A i, j \in DOMAIN drawn' : drawn'[i] = drawn'[j] => i = j
    PROVE  Trees'
<1> DEFINE id == words[t] \o Octets(v)
<1>1. /\ id \in Seq(Octet) /\ Len(id) >= WordOctets /\ Len(id) % WordOctets = 0
      /\ \/ /\ Len(id) < Needed(t) /\ words' = [words EXCEPT ![t] = id]
            /\ UNCHANGED <<pc, span, drawn>>
         \/ /\ IsZero(id) /\ words' = [words EXCEPT ![t] = <<>>]
            /\ UNCHANGED <<pc, span, drawn>>
         \/ /\ Len(id) = Needed(t) /\ ~IsZero(id) /\ words' = [words EXCEPT ![t] = <<>>]
            /\ pc' = [pc EXCEPT ![t] = IF @ = "trace" THEN "span" ELSE "sample"]
            /\ span' = [span EXCEPT ![t] = IF pc[t] = "trace" THEN [@ EXCEPT !.trace_id = id]
                                           ELSE [@ EXCEPT !.span_id = id]]
            /\ drawn' = Append(drawn, id)
  BY DrewCases
<1> HIDE DEF id
<1>2. CASE UNCHANGED <<pc, span, drawn>>
  BY <1>2 DEF Trees, Named, Apart, Rooted, HasParent, Placed, Root, Ids
<1>3. CASE /\ pc' = [pc EXCEPT ![t] = IF @ = "trace" THEN "span" ELSE "sample"]
           /\ span' = [span EXCEPT ![t] = IF pc[t] = "trace" THEN [@ EXCEPT !.trace_id = id]
                                          ELSE [@ EXCEPT !.span_id = id]]
           /\ drawn' = Append(drawn, id)
  <2>1. Ids' = Ids \cup {id} /\ id \notin Ids
    <3>1. /\ DOMAIN drawn' = 1..(Len(drawn) + 1) /\ DOMAIN drawn = 1..Len(drawn) /\ Len(drawn) \in Nat
          /\ drawn'[Len(drawn) + 1] = id /\ \A i \in 1..Len(drawn) : drawn'[i] = drawn[i]
      BY <1>1, <1>3
    <3>2. \A i \in DOMAIN drawn : drawn[i] # id
      BY <3>1
    <3>3. Ids' = {drawn'[i] : i \in 1..(Len(drawn) + 1)} /\ Ids = {drawn[i] : i \in 1..Len(drawn)}
      BY <3>1 DEF Ids
    <3>4. Ids' \subseteq Ids \cup {id}
      BY <3>1, <3>3
    <3>5. Ids \subseteq Ids' /\ id \in Ids'
      BY <3>1, <3>3
    <3>6. id \notin Ids
      BY <3>2 DEF Ids
    <3> HIDE DEF Ids
    <3> QED BY <3>4, <3>5, <3>6, Zenon
  <2>2. \A u \in Threads \ {t} : pc'[u] = pc[u] /\ span'[u] = span[u]
    BY <1>3 DEF TInv
  <2>3. IsSpan(span[t])
    BY DEF TInv, SpanOK
  <2>4. CASE pc[t] = "trace"
    <3>1. pc'[t] = "span" /\ span'[t] = [span[t] EXCEPT !.trace_id = id]
      BY <1>3, <2>4 DEF TInv
    <3>2. span'[t].trace_id = id /\ span'[t].parent = NULL
      BY <2>3, <2>4, <3>1 DEF IsSpan, Trees, Named
    <3> QED BY <2>1, <2>2, <2>4, <3>1, <3>2, TreesGrow
  <2>5. CASE pc[t] = "span"
    <3>1. pc'[t] = "sample" /\ span'[t] = [span[t] EXCEPT !.span_id = id]
      BY <1>3, <2>5 DEF TInv
    <3>2. /\ span'[t].trace_id = span[t].trace_id /\ span'[t].parent = span[t].parent
          /\ span'[t].span_id = id
      BY <2>3, <2>5, <3>1 DEF IsSpan
    <3> QED BY <2>1, <2>2, <2>5, <3>1, <3>2, TreesGrow
  <2> QED BY <2>4, <2>5
<1> QED BY <1>1, <1>2, <1>3

\* Every step keeps the trees as long as identifiers are not given twice.
LEMMA TreesStep ==
    ASSUME NEW p \in Nat
    PROVE  TInv /\ UInv(p) /\ UInv(p)' /\ (draws < p => Trees) /\ [Next]_vars => (draws < p => Trees)'
<1> SUFFICES ASSUME TInv, UInv(p), UInv(p)', draws < p => Trees, [Next]_vars, draws' < p PROVE Trees'
  OBVIOUS
<1>1. drawn \in Seq(Seq(Octet)) /\ \A i \in DOMAIN drawn : ~IsZero(drawn[i])
  BY DEF UInv, Begun
<1>2. \A i, j \in DOMAIN drawn' : drawn'[i] = drawn'[j] => i = j
  BY DEF UInv, Distinct
<1>3. UNCHANGED <<spans, pc, span, drawn, draws>> => Trees'
  BY DEF Trees, Named, Apart, Rooted, HasParent, Placed, Root, Ids
<1>4. ASSUME NEW t \in Threads, PrngCas(t) PROVE Trees'
  <2>1. CASE old[t] = prng /\ prng' = xorshift64s(old[t]) /\ draws' = draws + 1 /\ Drew(t, prng')
    <3>1. prng' \in 0..(Word - 1) /\ pc[t] \in {"trace", "span"} /\ UNCHANGED spans
      BY <1>4, <2>1, GeneratorType, OrbitUnfold DEF PrngCas, TInv
    <3>2. Trees
      BY <2>1 DEF TInv
    <3> QED BY <1>1, <1>2, <2>1, <3>1, <3>2, TreesDraw
  <2>2. CASE UNCHANGED <<prng, pc, span, words, drawn, draws>>
    BY <1>3, <1>4, <2>2 DEF PrngCas
  <2> QED BY <1>4, <2>1, <2>2 DEF PrngCas
<1>5. ASSUME NEW t \in Threads, Sample(t) PROVE Trees'
  BY <1>5, TreesSample DEF Sample
<1>6. ASSUME NEW t \in Threads, StartRoot(t) PROVE Trees'
  BY <1>1, <1>6, TreesStart DEF StartRoot
<1>7. ASSUME NEW t \in Threads, NEW parent \in spans \cup {NoIds}, StartChild(t, parent) PROVE Trees'
  BY <1>1, <1>7, TreesStart DEF StartChild
<1>8. ASSUME NEW t \in Threads, PrngLoad(t) PROVE Trees'
  BY <1>3, <1>8 DEF PrngLoad
<1>9. ASSUME NEW s, otlp_tracer_set_sampler(s) PROVE Trees'
  BY <1>3, <1>9 DEF otlp_tracer_set_sampler, threadvars
<1>10. ASSUME NEW s, NEW tracestate, NEW baggage, Inject(s, tracestate, baggage) PROVE Trees'
  BY <1>3, <1>10 DEF Inject, threadvars
<1>11. CASE Discard
  BY <1>3, <1>11 DEF Discard, threadvars
<1>12. CASE UNCHANGED vars
  BY <1>3, <1>12 DEF vars, threadvars
<1> QED BY <1>4, <1>5, <1>6, <1>7, <1>8, <1>9, <1>10, <1>11, <1>12 DEF Next

\* otlp_tracer_start_span and _start_child_span: whatever the samplers drop and
\* however the threads interleave, the recorded spans of a trace are one tree,
\* as long as the generator has not come back to an earlier state.
THEOREM TracesAreTreesHolds ==
    ASSUME NEW CONSTANT p \in Nat, NoRepeat(p)
    PROVE  Spec => [](draws < p => TracesAreTrees)
<1>1. Init => UInv(p) /\ Trees
  <2> SUFFICES ASSUME Init PROVE UInv(p) /\ Trees
    OBVIOUS
  <2>1. /\ drawn = <<>> /\ spans = {} /\ \A t \in Threads : words[t] = <<>> /\ pc[t] = "idle"
    BY DEF Init
  <2>2. DOMAIN drawn = {} /\ drawn \in Seq(Seq(Octet))
    BY <2>1
  <2> QED BY <2>1, <2>2 DEF UInv, Begun, Distinct, Trees, Named, Apart, Rooted, Placed
<1>2. (draws < p => Trees) => (draws < p => TracesAreTrees)
  BY TreesSuffice
<1> QED BY <1>1, <1>2, TypeInit, TypeStep, UniqueStep, TreesStep, PTL DEF Spec

(***************************************************************************)
(* traceparent: what is formatted is parsed                                *)
(***************************************************************************)
\* The digits, one by one.
LEMMA Digits ==
    /\ Lower[1] = "0" /\ Lower[2] = "1" /\ Lower[3] = "2" /\ Lower[4] = "3"
    /\ Lower[5] = "4" /\ Lower[6] = "5" /\ Lower[7] = "6" /\ Lower[8] = "7"
    /\ Lower[9] = "8" /\ Lower[10] = "9" /\ Lower[11] = "a" /\ Lower[12] = "b"
    /\ Lower[13] = "c" /\ Lower[14] = "d" /\ Lower[15] = "e" /\ Lower[16] = "f"
    /\ Upper[1] = "0" /\ Upper[2] = "1" /\ Upper[3] = "2" /\ Upper[4] = "3"
    /\ Upper[5] = "4" /\ Upper[6] = "5" /\ Upper[7] = "6" /\ Upper[8] = "7"
    /\ Upper[9] = "8" /\ Upper[10] = "9" /\ Upper[11] = "A" /\ Upper[12] = "B"
    /\ Upper[13] = "C" /\ Upper[14] = "D" /\ Upper[15] = "E" /\ Upper[16] = "F"
BY DEF Lower, Upper

\* No character is a digit of two values.
LEMMA DigitsDistinct ==
    ASSUME NEW i \in 1..16, NEW j \in 1..16, NEW c, c \in {Lower[i], Upper[i]}, c \in {Lower[j], Upper[j]}
    PROVE  i = j
<1>1. \/ i = 1 \/ i = 2 \/ i = 3 \/ i = 4 \/ i = 5 \/ i = 6 \/ i = 7 \/ i = 8
      \/ i = 9 \/ i = 10 \/ i = 11 \/ i = 12 \/ i = 13 \/ i = 14 \/ i = 15 \/ i = 16
  OBVIOUS
<1>2. \/ j = 1 \/ j = 2 \/ j = 3 \/ j = 4 \/ j = 5 \/ j = 6 \/ j = 7 \/ j = 8
      \/ j = 9 \/ j = 10 \/ j = 11 \/ j = 12 \/ j = 13 \/ j = 14 \/ j = 15 \/ j = 16
  OBVIOUS
<1> QED BY <1>1, <1>2, Digits

\* The value of a digit, of either case, is the nibble; - and NUL have none.
LEMMA HexValues ==
    /\ \A v \in 0..15 : /\ hex_value(hex_digit(v)) = v /\ hex_digit(v) \in HeaderChars
                        /\ hex_value(Upper[v + 1]) = v /\ Upper[v + 1] \in HeaderChars
    /\ hex_value("-") = -1 /\ hex_value("NUL") = -1
<1>1. ASSUME NEW i \in 1..16, NEW c, c \in {Lower[i], Upper[i]} PROVE hex_value(c) = i - 1
  <2> DEFINE j == CHOOSE k \in 1..16 : c \in {Lower[k], Upper[k]}
  <2>1. j \in 1..16 /\ c \in {Lower[j], Upper[j]}
    BY <1>1
  <2>2. hex_value(c) = j - 1
    BY <1>1 DEF hex_value
  <2> HIDE DEF j
  <2>3. j = i
    BY <1>1, <2>1, DigitsDistinct
  <2> QED BY <2>2, <2>3
<1>2. ASSUME NEW i \in 1..16
      PROVE  /\ "-" \notin {Lower[i], Upper[i]} /\ "NUL" \notin {Lower[i], Upper[i]}
             /\ Lower[i] \in HeaderChars /\ Upper[i] \in HeaderChars
  <2>0. i \in DOMAIN Lower /\ i \in DOMAIN Upper
    BY DEF Lower, Upper
  <2>1. \/ i = 1 \/ i = 2 \/ i = 3 \/ i = 4 \/ i = 5 \/ i = 6 \/ i = 7 \/ i = 8
        \/ i = 9 \/ i = 10 \/ i = 11 \/ i = 12 \/ i = 13 \/ i = 14 \/ i = 15 \/ i = 16
    OBVIOUS
  <2>2. "-" \notin {Lower[i], Upper[i]}
    BY <2>1, Digits
  <2>3. "NUL" \notin {Lower[i], Upper[i]}
    BY <2>1, Digits
  <2>4. Lower[i] \in HeaderChars /\ Upper[i] \in HeaderChars
    BY <2>0, Zenon DEF HeaderChars, Range
  <2> QED BY <2>2, <2>3, <2>4
<1>3. ASSUME NEW v \in 0..15
      PROVE  /\ hex_value(hex_digit(v)) = v /\ hex_digit(v) \in HeaderChars
             /\ hex_value(Upper[v + 1]) = v /\ Upper[v + 1] \in HeaderChars
  <2>1. v + 1 \in 1..16 /\ (v + 1) - 1 = v /\ hex_digit(v) = Lower[v + 1]
    BY DEF hex_digit
  <2>2. hex_value(Lower[v + 1]) = v /\ hex_value(Upper[v + 1]) = v
    BY <1>1, <2>1
  <2> QED BY <1>2, <2>1, <2>2
<1>4. hex_value("-") = -1 /\ hex_value("NUL") = -1
  BY <1>2 DEF hex_value
<1> QED BY <1>3, <1>4

\* Places of the header are numbers in this order.
LEMMA Places ==
    /\ TraceAt = 4 /\ SpanAt = 5 + 2 * TraceIdLen /\ FlagsAt = 6 + 2 * TraceIdLen + 2 * SpanIdLen
    /\ EndAt = 8 + 2 * TraceIdLen + 2 * SpanIdLen
BY Sizes DEF TraceAt, SpanAt, FlagsAt, EndAt

\* Two digits for every octet.
LEMMA HexType ==
    ASSUME NEW n \in Nat, NEW id \in [1..n -> Octet]
    PROVE  /\ Hex(id) \in Seq(HeaderChars) /\ Len(Hex(id)) = 2 * n
           /\ \A k \in 1..n : /\ Hex(id)[2 * (k - 1) + 1] = hex_digit(id[k] \div 16)
                              /\ Hex(id)[2 * (k - 1) + 2] = hex_digit(id[k] % 16)
<1>1. Len(id) = n
  OBVIOUS
<1> DEFINE d(j) == hex_digit(IF j % 2 = 1 THEN id[(j + 1) \div 2] \div 16 ELSE id[(j + 1) \div 2] % 16)
<1>2. Hex(id) = [j \in 1..(2 * n) |-> d(j)]
  BY <1>1 DEF Hex
<1>3. \A k \in 1..n : id[k] \div 16 \in 0..15 /\ id[k] % 16 \in 0..15
  <2>1. \A o \in Octet : o \div 16 \in 0..15 /\ o % 16 \in 0..15
    BY DEF Octet
  <2>2. \A k \in 1..n : id[k] \in Octet
    OBVIOUS
  <2> QED BY <2>1, <2>2, Zenon
<1>4. ASSUME NEW j \in 1..(2 * n) PROVE d(j) \in HeaderChars
  <2>1. (j + 1) \div 2 \in 1..n
    OBVIOUS
  <2>2. (IF j % 2 = 1 THEN id[(j + 1) \div 2] \div 16 ELSE id[(j + 1) \div 2] % 16) \in 0..15
    BY <1>3, <2>1
  <2> QED BY <2>2, HexValues
<1>5. ASSUME NEW k \in 1..n
      PROVE  /\ 2 * (k - 1) + 1 \in 1..(2 * n) /\ d(2 * (k - 1) + 1) = hex_digit(id[k] \div 16)
             /\ 2 * (k - 1) + 2 \in 1..(2 * n) /\ d(2 * (k - 1) + 2) = hex_digit(id[k] % 16)
  <2>1. /\ (2 * (k - 1) + 1) % 2 = 1 /\ ((2 * (k - 1) + 1) + 1) \div 2 = k
        /\ (2 * (k - 1) + 2) % 2 = 0 /\ ((2 * (k - 1) + 2) + 1) \div 2 = k
    OBVIOUS
  <2> QED BY <2>1
<1> HIDE DEF d
<1> QED BY <1>2, <1>4, <1>5

\* The sequence h over S consists of a and b.
Parts(S, h, a, b) ==
    /\ h \in Seq(S) /\ Len(h) = Len(a) + Len(b) /\ Len(a) \in Nat /\ Len(b) \in Nat
    /\ \A i \in 1..Len(a) : h[i] = a[i]
    /\ \A i \in 1..Len(b) : h[Len(a) + i] = b[i]

\* Where the parts of two sequences are in their concatenation.
LEMMA TwoParts == ASSUME NEW S, NEW a \in Seq(S), NEW b \in Seq(S) PROVE Parts(S, a \o b, a, b)
<1> DEFINE h == a \o b
<1>1. /\ h \in Seq(S) /\ Len(h) = Len(a) + Len(b)
      /\ \A i \in 1..(Len(a) + Len(b)) : h[i] = IF i <= Len(a) THEN a[i] ELSE b[i - Len(a)]
  BY ConcatProperties
<1>2. Len(a) \in Nat /\ Len(b) \in Nat
  BY LenProperties, Zenon
<1> HIDE DEF h
<1>3. \A i \in 1..Len(a) : h[i] = a[i]
  BY <1>1, <1>2
<1>4. ASSUME NEW i \in 1..Len(b) PROVE h[Len(a) + i] = b[i]
  <2>1. Len(a) + i \in 1..(Len(a) + Len(b)) /\ ~(Len(a) + i <= Len(a)) /\ (Len(a) + i) - Len(a) = i
    BY <1>2
  <2> QED BY <1>1, <2>1
<1> QED BY <1>1, <1>2, <1>3, <1>4 DEF Parts, h

\* What the header h says at its places: these identifiers and this flag.
Says(h, trace_id, span_id, sampled) ==
    /\ \A k \in 1..TraceIdLen :
          /\ hex_value(At(h, TraceAt + 2 * (k - 1))) = trace_id[k] \div 16
          /\ hex_value(At(h, TraceAt + 2 * (k - 1) + 1)) = trace_id[k] % 16
    /\ \A k \in 1..SpanIdLen :
          /\ hex_value(At(h, SpanAt + 2 * (k - 1))) = span_id[k] \div 16
          /\ hex_value(At(h, SpanAt + 2 * (k - 1) + 1)) = span_id[k] % 16
    /\ \A p \in {TraceAt - 1, SpanAt - 1, FlagsAt - 1} : At(h, p) = "-"
    /\ hex_value(At(h, FlagsAt)) = 0
    /\ hex_value(At(h, FlagsAt + 1)) = IF sampled THEN 1 ELSE 0

\* The header that is formatted says what it was made of, in version 00.
LEMMA FormatSays ==
    ASSUME NEW trace_id \in TraceIds, NEW span_id \in SpanIds, NEW sampled \in BOOLEAN,
           NEW h, h = otlp_traceparent_format_raw(trace_id, span_id, sampled)
    PROVE  /\ h \in Seq(HeaderChars) /\ Len(h) = EndAt - 1 /\ Says(h, trace_id, span_id, sampled)
           /\ h[1] = "0" /\ h[2] = "0"
<1> DEFINE x == Hex(trace_id)
<1> DEFINE y == Hex(span_id)
<1> DEFINE f == IF sampled THEN "1" ELSE "0"
<1> DEFINE h1 == <<"0", "0", "-">>
<1> DEFINE h2 == h1 \o x
<1> DEFINE h3 == h2 \o <<"-">>
<1> DEFINE h4 == h3 \o y
<1> DEFINE c == <<"-", "0", f>>
<1>1. /\ x \in Seq(HeaderChars) /\ Len(x) = 2 * TraceIdLen
      /\ \A k \in 1..TraceIdLen : /\ x[2 * (k - 1) + 1] = hex_digit(trace_id[k] \div 16)
                                  /\ x[2 * (k - 1) + 2] = hex_digit(trace_id[k] % 16)
  <2>1. TraceIdLen \in Nat /\ trace_id \in [1..TraceIdLen -> Octet]
    BY Sizes DEF TraceIds
  <2> QED BY <2>1, HexType, Zenon
<1>2. /\ y \in Seq(HeaderChars) /\ Len(y) = 2 * SpanIdLen
      /\ \A k \in 1..SpanIdLen : /\ y[2 * (k - 1) + 1] = hex_digit(span_id[k] \div 16)
                                 /\ y[2 * (k - 1) + 2] = hex_digit(span_id[k] % 16)
  <2>1. SpanIdLen \in Nat /\ span_id \in [1..SpanIdLen -> Octet]
    BY Sizes DEF SpanIds
  <2> QED BY <2>1, HexType, Zenon
<1>3. h = h4 \o c
  BY DEF otlp_traceparent_format_raw
<1>4. hex_digit(0) = "0" /\ hex_digit(1) = "1"
  BY Digits DEF hex_digit
<1>5. "-" \in HeaderChars /\ "0" \in HeaderChars /\ f \in HeaderChars
  <2>1. "0" \in HeaderChars /\ "1" \in HeaderChars
    BY <1>4, HexValues
  <2>2. "-" \in HeaderChars
    BY DEF HeaderChars
  <2> QED BY <2>1, <2>2
<1> HIDE DEF x, y, f
<1>6. h1 \in Seq(HeaderChars) /\ Len(h1) = 3 /\ h1[1] = "0" /\ h1[2] = "0" /\ h1[3] = "-"
  BY <1>5
<1>7. c \in Seq(HeaderChars) /\ Len(c) = 3 /\ c[1] = "-" /\ c[2] = "0" /\ c[3] = f
  BY <1>5
<1>8. <<"-">> \in Seq(HeaderChars) /\ Len(<<"-">>) = 1 /\ <<"-">>[1] = "-"
  BY <1>5
<1> HIDE DEF h1, h2, h3, h4, c
<1>9. /\ h2 \in Seq(HeaderChars) /\ Len(h2) = 3 + 2 * TraceIdLen
      /\ h2[1] = "0" /\ h2[2] = "0" /\ h2[3] = "-"
      /\ \A i \in 1..(2 * TraceIdLen) : h2[3 + i] = x[i]
  <2>1. Parts(HeaderChars, h2, h1, x)
    BY <1>1, <1>6, TwoParts DEF h2
  <2> QED BY <1>1, <1>6, <2>1 DEF Parts
<1>10. /\ h3 \in Seq(HeaderChars) /\ Len(h3) = 4 + 2 * TraceIdLen
       /\ \A i \in 1..(3 + 2 * TraceIdLen) : h3[i] = h2[i]
       /\ h3[4 + 2 * TraceIdLen] = "-"
  <2> DEFINE d == <<"-">>
  <2>0. d \in Seq(HeaderChars) /\ Len(d) = 1 /\ d[1] = "-" /\ h3 = h2 \o d
    BY <1>8 DEF h3
  <2> HIDE DEF d
  <2>1. Parts(HeaderChars, h3, h2, d)
    BY <1>9, <2>0, TwoParts
  <2> QED BY <1>9, <2>0, <2>1, Sizes DEF Parts
<1>11. /\ h4 \in Seq(HeaderChars) /\ Len(h4) = 4 + 2 * TraceIdLen + 2 * SpanIdLen
       /\ \A i \in 1..(4 + 2 * TraceIdLen) : h4[i] = h3[i]
       /\ \A i \in 1..(2 * SpanIdLen) : h4[4 + 2 * TraceIdLen + i] = y[i]
  <2>1. Parts(HeaderChars, h4, h3, y)
    BY <1>2, <1>10, TwoParts DEF h4
  <2> QED BY <1>2, <1>10, <2>1 DEF Parts
<1>12. /\ h \in Seq(HeaderChars) /\ Len(h) = 7 + 2 * TraceIdLen + 2 * SpanIdLen
       /\ \A i \in 1..(4 + 2 * TraceIdLen + 2 * SpanIdLen) : h[i] = h4[i]
       /\ h[5 + 2 * TraceIdLen + 2 * SpanIdLen] = "-" /\ h[6 + 2 * TraceIdLen + 2 * SpanIdLen] = "0"
       /\ h[7 + 2 * TraceIdLen + 2 * SpanIdLen] = f
  <2>1. Parts(HeaderChars, h, h4, c)
    BY <1>3, <1>7, <1>11, TwoParts
  <2> DEFINE n == 4 + 2 * TraceIdLen + 2 * SpanIdLen
  <2>2. n \in Nat /\ Len(h4) = n
    BY <1>11, Sizes
  <2>3. h[n + 1] = c[1] /\ h[n + 2] = c[2] /\ h[n + 3] = c[3]
    BY <1>7, <2>1, <2>2 DEF Parts
  <2>4. /\ n + 1 = 5 + 2 * TraceIdLen + 2 * SpanIdLen /\ n + 2 = 6 + 2 * TraceIdLen + 2 * SpanIdLen
        /\ n + 3 = 7 + 2 * TraceIdLen + 2 * SpanIdLen
    BY Sizes
  <2> HIDE DEF n
  <2>5. Len(h) = n + 3
    BY <1>7, <2>1, <2>2 DEF Parts
  <2> QED BY <1>7, <2>1, <2>2, <2>3, <2>4, <2>5 DEF n, Parts
<1>13. TraceIdLen \in Nat /\ SpanIdLen \in Nat
  BY Sizes
<1>14. \A i \in 1..(7 + 2 * TraceIdLen + 2 * SpanIdLen) : At(h, i) = h[i]
  BY <1>12 DEF At
<1>15. ASSUME NEW k \in 1..TraceIdLen
       PROVE  /\ hex_value(At(h, TraceAt + 2 * (k - 1))) = trace_id[k] \div 16
              /\ hex_value(At(h, TraceAt + 2 * (k - 1) + 1)) = trace_id[k] % 16
  <2>1. trace_id[k] \div 16 \in 0..15 /\ trace_id[k] % 16 \in 0..15
    <3>1. trace_id[k] \in 0..255
      BY DEF TraceIds, Octet
    <3> QED BY <3>1
  <2> DEFINE i == 2 * (k - 1)
  <2>2. i \in 0..(2 * TraceIdLen - 2)
    BY <1>13
  <2>3. x[i + 1] = hex_digit(trace_id[k] \div 16) /\ x[i + 2] = hex_digit(trace_id[k] % 16)
    BY <1>1
  <2>4. TraceAt + 2 * (k - 1) = 3 + (i + 1) /\ TraceAt + 2 * (k - 1) + 1 = 3 + (i + 2)
    BY <2>2, Places
  <2> HIDE DEF i
  <2>5. h[3 + (i + 1)] = x[i + 1] /\ h[3 + (i + 2)] = x[i + 2]
    BY <1>9, <1>10, <1>11, <1>12, <1>13, <2>2
  <2>6. At(h, 3 + (i + 1)) = h[3 + (i + 1)] /\ At(h, 3 + (i + 2)) = h[3 + (i + 2)]
    BY <1>13, <1>14, <2>2
  <2> QED BY <2>1, <2>3, <2>4, <2>5, <2>6, HexValues
<1>16. ASSUME NEW k \in 1..SpanIdLen
       PROVE  /\ hex_value(At(h, SpanAt + 2 * (k - 1))) = span_id[k] \div 16
              /\ hex_value(At(h, SpanAt + 2 * (k - 1) + 1)) = span_id[k] % 16
  <2>1. span_id[k] \div 16 \in 0..15 /\ span_id[k] % 16 \in 0..15
    <3>1. span_id[k] \in 0..255
      BY DEF SpanIds, Octet
    <3> QED BY <3>1
  <2> DEFINE i == 2 * (k - 1)
  <2> DEFINE n == 4 + 2 * TraceIdLen
  <2>2. i \in 0..(2 * SpanIdLen - 2) /\ n \in Nat
    BY <1>13
  <2>3. y[i + 1] = hex_digit(span_id[k] \div 16) /\ y[i + 2] = hex_digit(span_id[k] % 16)
    BY <1>2
  <2>4. SpanAt + 2 * (k - 1) = n + (i + 1) /\ SpanAt + 2 * (k - 1) + 1 = n + (i + 2)
    BY <1>13, <2>2, Places
  <2>5. /\ n + (i + 1) \in 1..(n + 2 * SpanIdLen) /\ n + (i + 2) \in 1..(n + 2 * SpanIdLen)
        /\ i + 1 \in 1..(2 * SpanIdLen) /\ i + 2 \in 1..(2 * SpanIdLen)
        /\ n + (i + 1) \in 1..(7 + 2 * TraceIdLen + 2 * SpanIdLen)
        /\ n + (i + 2) \in 1..(7 + 2 * TraceIdLen + 2 * SpanIdLen)
    BY <1>13, <2>2
  <2>6. h[n + (i + 1)] = h4[n + (i + 1)] /\ h[n + (i + 2)] = h4[n + (i + 2)]
    BY <1>12, <2>5
  <2>7. h4[n + (i + 1)] = y[i + 1] /\ h4[n + (i + 2)] = y[i + 2]
    BY <1>11, <2>5
  <2>8. At(h, n + (i + 1)) = h[n + (i + 1)] /\ At(h, n + (i + 2)) = h[n + (i + 2)]
    BY <1>14, <2>5
  <2> HIDE DEF i, n
  <2> QED BY <2>1, <2>3, <2>4, <2>6, <2>7, <2>8, HexValues
<1>17. \A p \in {TraceAt - 1, SpanAt - 1, FlagsAt - 1} : At(h, p) = "-"
  <2>1. h[3] = "-" /\ h[4 + 2 * TraceIdLen] = "-"
    BY <1>9, <1>10, <1>11, <1>12, <1>13
  <2> QED BY <1>12, <1>13, <1>14, <2>1, Places
<1>18. hex_value("0") = 0 /\ hex_value("1") = 1
  BY <1>4, HexValues
<1>19. hex_value(At(h, FlagsAt)) = 0 /\ hex_value(At(h, FlagsAt + 1)) = IF sampled THEN 1 ELSE 0
  BY <1>12, <1>13, <1>14, <1>18, Places DEF f
<1>20. Len(h) = EndAt - 1 /\ h[1] = "0" /\ h[2] = "0"
  BY <1>9, <1>10, <1>11, <1>12, <1>13, Places
<1> QED BY <1>12, <1>15, <1>16, <1>17, <1>19, <1>20 DEF Says

\* A header is parsed as what it says, unless its version or a zero identifier
\* forbids it.
LEMMA ParseSays ==
    ASSUME NEW trace_id \in TraceIds, NEW span_id \in SpanIds, NEW sampled \in BOOLEAN,
           NEW h, Says(h, trace_id, span_id, sampled)
    PROVE  /\ otlp_traceparent_parse(h).trace_id = trace_id
           /\ otlp_traceparent_parse(h).span_id = span_id
           /\ otlp_traceparent_parse(h).flags = IF sampled THEN 1 ELSE 0
           /\ otlp_traceparent_parse(h).ok = (VersionOK(h) /\ ~IsZero(trace_id) /\ ~IsZero(span_id))
<1>1. ASSUME NEW i, NEW o \in 0..255, hex_value(At(h, i)) = o \div 16, hex_value(At(h, i + 1)) = o % 16
      PROVE  OctetAt(h, i) = o
  <2>1. o \div 16 \in 0..15 /\ o % 16 \in 0..15 /\ 16 * (o \div 16) + (o % 16) = o
    OBVIOUS
  <2>2. ~(o \div 16 < 0 \/ o % 16 < 0)
    BY <2>1
  <2> QED BY <1>1, <2>1, <2>2 DEF OctetAt
<1>2. OctetsAt(h, TraceAt, TraceIdLen) = trace_id
  <2>1. ASSUME NEW k \in 1..TraceIdLen PROVE OctetAt(h, TraceAt + 2 * (k - 1)) = trace_id[k]
    <3>1. trace_id[k] \in 0..255
      BY DEF TraceIds, Octet
    <3> DEFINE i == TraceAt + 2 * (k - 1)
    <3>2. hex_value(At(h, i)) = trace_id[k] \div 16 /\ hex_value(At(h, i + 1)) = trace_id[k] % 16
      BY DEF Says
    <3> HIDE DEF i
    <3>3. OctetAt(h, i) = trace_id[k]
      BY <1>1, <3>1, <3>2
    <3> QED BY <3>3 DEF i
  <2> QED BY <2>1 DEF OctetsAt, TraceIds
<1>3. OctetsAt(h, SpanAt, SpanIdLen) = span_id
  <2>1. ASSUME NEW k \in 1..SpanIdLen PROVE OctetAt(h, SpanAt + 2 * (k - 1)) = span_id[k]
    <3>1. span_id[k] \in 0..255
      BY DEF SpanIds, Octet
    <3> DEFINE i == SpanAt + 2 * (k - 1)
    <3>2. hex_value(At(h, i)) = span_id[k] \div 16 /\ hex_value(At(h, i + 1)) = span_id[k] % 16
      BY DEF Says
    <3> HIDE DEF i
    <3>3. OctetAt(h, i) = span_id[k]
      BY <1>1, <3>1, <3>2
    <3> QED BY <3>3 DEF i
  <2> QED BY <2>1 DEF OctetsAt, SpanIds
<1>4. OctetAt(h, FlagsAt) = IF sampled THEN 1 ELSE 0
  BY DEF Says, OctetAt
<1>5. /\ \A i \in DOMAIN trace_id : trace_id[i] >= 0
      /\ \A i \in DOMAIN span_id : span_id[i] >= 0
  <2>1. \A o \in Octet : o >= 0
    BY DEF Octet
  <2>2. /\ \A i \in DOMAIN trace_id : trace_id[i] \in Octet
        /\ \A i \in DOMAIN span_id : span_id[i] \in Octet
    BY DEF TraceIds, SpanIds
  <2> QED BY <2>1, <2>2
<1>6. \A q \in {TraceAt - 1, SpanAt - 1, FlagsAt - 1} : At(h, q) = "-"
  BY DEF Says
<1>7. (IF sampled THEN 1 ELSE 0) >= 0
  OBVIOUS
<1> QED BY <1>2, <1>3, <1>4, <1>5, <1>6, <1>7 DEF otlp_traceparent_parse

\* A header with the same digits and hyphens behind the version says the same.
LEMMA SaysSame ==
    ASSUME NEW trace_id, NEW span_id, NEW sampled, NEW h, NEW g, Says(h, trace_id, span_id, sampled),
           \A i \in 3..(EndAt - 1) : /\ hex_value(At(g, i)) = hex_value(At(h, i))
                                     /\ At(h, i) = "-" => At(g, i) = "-"
    PROVE  Says(g, trace_id, span_id, sampled)
<1>0. TraceIdLen \in Nat \ {0} /\ SpanIdLen \in Nat \ {0}
  BY Sizes
<1>1. \A k \in 1..TraceIdLen : /\ TraceAt + 2 * (k - 1) \in 3..(EndAt - 1)
                               /\ TraceAt + 2 * (k - 1) + 1 \in 3..(EndAt - 1)
  BY <1>0, Places
<1>2. \A k \in 1..SpanIdLen : /\ SpanAt + 2 * (k - 1) \in 3..(EndAt - 1)
                              /\ SpanAt + 2 * (k - 1) + 1 \in 3..(EndAt - 1)
  BY <1>0, Places
<1>3. /\ \A p \in {TraceAt - 1, SpanAt - 1, FlagsAt - 1} : p \in 3..(EndAt - 1)
      /\ FlagsAt \in 3..(EndAt - 1) /\ FlagsAt + 1 \in 3..(EndAt - 1)
  BY <1>0, Places
<1> DEFINE P == 3..(EndAt - 1)
<1> HIDE DEF P
<1>4. \A i \in P : hex_value(At(g, i)) = hex_value(At(h, i)) /\ (At(h, i) = "-" => At(g, i) = "-")
  BY DEF P
<1>5. /\ \A k \in 1..TraceIdLen :
            /\ hex_value(At(g, TraceAt + 2 * (k - 1))) = trace_id[k] \div 16
            /\ hex_value(At(g, TraceAt + 2 * (k - 1) + 1)) = trace_id[k] % 16
      /\ \A k \in 1..SpanIdLen :
            /\ hex_value(At(g, SpanAt + 2 * (k - 1))) = span_id[k] \div 16
            /\ hex_value(At(g, SpanAt + 2 * (k - 1) + 1)) = span_id[k] % 16
  <2>1. \A k \in 1..TraceIdLen : TraceAt + 2 * (k - 1) \in P /\ TraceAt + 2 * (k - 1) + 1 \in P
    BY <1>1 DEF P
  <2>2. \A k \in 1..SpanIdLen : SpanAt + 2 * (k - 1) \in P /\ SpanAt + 2 * (k - 1) + 1 \in P
    BY <1>2 DEF P
  <2> QED BY <1>4, <2>1, <2>2, Zenon DEF Says
<1>6. /\ \A p \in {TraceAt - 1, SpanAt - 1, FlagsAt - 1} : At(g, p) = "-"
      /\ hex_value(At(g, FlagsAt)) = 0
      /\ hex_value(At(g, FlagsAt + 1)) = IF sampled THEN 1 ELSE 0
  <2>1. /\ \A p \in {TraceAt - 1, SpanAt - 1, FlagsAt - 1} : p \in P
        /\ FlagsAt \in P /\ FlagsAt + 1 \in P
    BY <1>3 DEF P
  <2>2. /\ \A p \in {TraceAt - 1, SpanAt - 1, FlagsAt - 1} : At(h, p) = "-"
        /\ hex_value(At(h, FlagsAt)) = 0
        /\ hex_value(At(h, FlagsAt + 1)) = IF sampled THEN 1 ELSE 0
    BY DEF Says
  <2> QED BY <1>4, <2>1, <2>2
<1> QED BY <1>5, <1>6 DEF Says

\* What is parsed of the altered header g: nothing, or what was formatted.
ParsedAs(how, g, trace_id, span_id, sampled) ==
    LET p == otlp_traceparent_parse(g)
    IN  /\ how \in {"none", "upper", "version"} =>
              /\ g \in Seq(HeaderChars)
              /\ p.ok = (~IsZero(trace_id) /\ ~IsZero(span_id))
              /\ p.trace_id = trace_id /\ p.span_id = span_id
              /\ p.flags = IF sampled THEN 1 ELSE 0
        /\ how \notin {"none", "upper", "version"} => p.ok = FALSE

\* Every alteration of a header that is formatted is parsed like that.
LEMMA AlteredParsed ==
    ASSUME NEW trace_id \in TraceIds, NEW span_id \in SpanIds, NEW sampled \in BOOLEAN,
           NEW h, h = otlp_traceparent_format_raw(trace_id, span_id, sampled),
           NEW how, how \in {"none", "upper", "version", "invalid", "trailing", "cut"}
    PROVE  ParsedAs(how, Altered(h, how), trace_id, span_id, sampled)
<1> USE DEF ParsedAs
<1> DEFINE n == EndAt - 1
<1>1. /\ h \in Seq(HeaderChars) /\ Len(h) = n /\ Says(h, trace_id, span_id, sampled)
      /\ h[1] = "0" /\ h[2] = "0"
  BY FormatSays
<1>2. n \in Nat /\ n > 7 /\ n = FlagsAt + 1 /\ EndAt = n + 1
  BY Places, Sizes
<1>3. /\ hex_value("0") = 0 /\ hex_value("1") = 1 /\ hex_value("f") = 15
      /\ hex_value("-") = -1 /\ hex_value("NUL") = -1
  BY HexValues, Digits DEF hex_digit
<1>4. {"0", "1", "f", "-", "x"} \subseteq HeaderChars
  <2>1. "0" \in HeaderChars /\ "1" \in HeaderChars /\ "f" \in HeaderChars
    BY HexValues, Digits DEF hex_digit
  <2> QED BY <2>1 DEF HeaderChars
<1> DEFINE tail == <<"-", "x">>
<1>5. tail \in Seq(HeaderChars) /\ Len(tail) = 2 /\ tail[1] = "-"
  BY <1>4
<1> HIDE DEF n, tail
<1>6. CASE how = "none"
  <2>1. Altered(h, how) = h
    BY <1>6 DEF Altered
  <2>2. At(h, 1) = "0" /\ At(h, 2) = "0" /\ At(h, EndAt) = "NUL"
    BY <1>1, <1>2 DEF At
  <2>3. OctetAt(h, 1) = 0
    BY <1>3, <2>2 DEF OctetAt
  <2>4. VersionOK(h)
    BY <2>2, <2>3 DEF VersionOK
  <2> QED BY <1>1, <1>6, <2>1, <2>4, ParseSays
<1>7. CASE how = "upper"
  <2> DEFINE u(i) == IF hex_value(h[i]) < 0 THEN h[i] ELSE Upper[hex_value(h[i]) + 1]
  <2> DEFINE g == Altered(h, how)
  <2>1. g = [i \in 1..n |-> u(i)]
    BY <1>1, <1>7 DEF Altered
  <2>2. ASSUME NEW i \in 1..n
        PROVE  /\ u(i) \in HeaderChars /\ hex_value(u(i)) = hex_value(h[i])
               /\ h[i] = "-" => u(i) = "-"
    <3>1. h[i] \in HeaderChars
      BY <1>1
    <3>2. hex_value(h[i]) \in 0..15 \cup {-1}
      BY DEF hex_value
    <3>3. CASE hex_value(h[i]) < 0
      BY <3>1, <3>3
    <3>4. CASE ~(hex_value(h[i]) < 0)
      <4>1. hex_value(h[i]) \in 0..15
        BY <3>2, <3>4
      <4>2. h[i] # "-"
        BY <1>3, <4>1
      <4> QED BY <3>4, <4>1, <4>2, HexValues
    <3> QED BY <3>3, <3>4
  <2> HIDE DEF u
  <2>3. g \in Seq(HeaderChars) /\ Len(g) = n
    <3>1. g \in [1..n -> HeaderChars]
      BY <2>1, <2>2
    <3> HIDE DEF g
    <3> QED BY <1>2, <3>1
  <2>4. \A i \in 1..n : At(h, i) = h[i] /\ At(g, i) = u(i)
    <3>1. \A i \in 1..n : g[i] = u(i)
      BY <2>1
    <3> HIDE DEF g
    <3> QED BY <1>1, <1>2, <2>3, <3>1 DEF At
  <2> HIDE DEF g
  <2>5. Says(g, trace_id, span_id, sampled)
    <3>1. \A i \in 3..(EndAt - 1) : /\ hex_value(At(g, i)) = hex_value(At(h, i))
                                    /\ At(h, i) = "-" => At(g, i) = "-"
      BY <1>2, <2>2, <2>4
    <3> QED BY <1>1, <3>1, SaysSame
  <2>6. VersionOK(g)
    <3>1. hex_value(At(g, 1)) = 0 /\ hex_value(At(g, 2)) = 0
      BY <1>1, <1>2, <1>3, <2>2, <2>4
    <3>2. OctetAt(g, 1) = 0
      BY <3>1 DEF OctetAt
    <3>3. At(g, EndAt) = "NUL"
      BY <1>2, <2>3 DEF At
    <3> QED BY <3>2, <3>3 DEF VersionOK
  <2> QED BY <1>7, <2>3, <2>5, <2>6, ParseSays DEF g
<1>8. CASE how = "version"
  <2> DEFINE e == [h EXCEPT ![2] = "1"]
  <2> DEFINE g == e \o tail
  <2>1. /\ e \in Seq(HeaderChars) /\ Len(e) = n /\ e[1] = "0" /\ e[2] = "1"
        /\ \A i \in 3..n : e[i] = h[i]
    BY <1>1, <1>2, <1>4
  <2>2. Altered(h, how) = g
    BY <1>8 DEF Altered, tail
  <2> HIDE DEF e
  <2>3. Parts(HeaderChars, g, e, tail)
    BY <1>5, <2>1, TwoParts
  <2> HIDE DEF g
  <2>4. g \in Seq(HeaderChars) /\ Len(g) = n + 2 /\ \A i \in 1..n : g[i] = e[i]
    BY <1>5, <2>1, <2>3 DEF Parts
  <2>5. \A i \in 1..n : At(g, i) = e[i] /\ At(h, i) = h[i]
    BY <1>1, <1>2, <2>4 DEF At
  <2>6. Says(g, trace_id, span_id, sampled)
    <3>1. \A i \in 3..(EndAt - 1) : At(g, i) = At(h, i)
      BY <1>2, <2>1, <2>5
    <3> QED BY <1>1, <3>1, SaysSame
  <2>7. VersionOK(g)
    <3>1. At(g, 1) = "0" /\ At(g, 2) = "1"
      BY <1>2, <2>1, <2>5
    <3>2. OctetAt(g, 1) = 1
      BY <1>3, <3>1 DEF OctetAt
    <3> QED BY <3>2 DEF VersionOK
  <2> QED BY <1>8, <2>2, <2>4, <2>6, <2>7, ParseSays
<1>9. CASE how = "invalid"
  <2> DEFINE g == [h EXCEPT ![1] = "f", ![2] = "f"]
  <2>1. g \in Seq(HeaderChars) /\ Len(g) = n /\ g[1] = "f" /\ g[2] = "f"
    <3> DEFINE e == [h EXCEPT ![1] = "f"]
    <3>1. e \in Seq(HeaderChars) /\ Len(e) = n /\ e[1] = "f"
      BY <1>1, <1>2, <1>4
    <3>2. g = [e EXCEPT ![2] = "f"]
      OBVIOUS
    <3> HIDE DEF e, g
    <3> QED BY <1>2, <1>4, <3>1, <3>2
  <2>2. Altered(h, how) = g
    BY <1>9 DEF Altered
  <2> HIDE DEF g
  <2>3. At(g, 1) = "f" /\ At(g, 2) = "f"
    BY <1>2, <2>1 DEF At
  <2>4. OctetAt(g, 1) = 255
    BY <1>3, <2>3 DEF OctetAt
  <2>5. ~VersionOK(g)
    BY <2>4 DEF VersionOK
  <2> QED BY <1>9, <2>2, <2>5 DEF otlp_traceparent_parse
<1>10. CASE how = "trailing"
  <2> DEFINE g == h \o tail
  <2>1. Altered(h, how) = g
    BY <1>10 DEF Altered, tail
  <2>2. Parts(HeaderChars, g, h, tail)
    BY <1>1, <1>5, TwoParts
  <2> HIDE DEF g
  <2>3. Len(g) = n + 2 /\ g[1] = "0" /\ g[2] = "0" /\ g[n + 1] = "-"
    <3>1. Len(g) = n + 2
      BY <1>1, <1>5, <2>2 DEF Parts
    <3>2. g[1] = "0" /\ g[2] = "0"
      BY <1>1, <1>2, <2>2 DEF Parts
    <3>3. g[Len(h) + 1] = tail[1]
      BY <1>5, <2>2 DEF Parts
    <3> QED BY <1>1, <1>5, <3>1, <3>2, <3>3
  <2>4. At(g, 1) = "0" /\ At(g, 2) = "0" /\ At(g, EndAt) = "-"
    BY <1>2, <2>3 DEF At
  <2>5. OctetAt(g, 1) = 0
    BY <1>3, <2>4 DEF OctetAt
  <2>6. ~VersionOK(g)
    BY <2>4, <2>5 DEF VersionOK
  <2> QED BY <1>10, <2>1, <2>6 DEF otlp_traceparent_parse
<1>11. CASE how = "cut"
  <2> DEFINE g == SubSeq(h, 1, Len(h) - 1)
  <2>1. Altered(h, how) = g
    BY <1>11 DEF Altered
  <2>2. Len(g) = n - 1
    BY <1>1, <1>2
  <2> HIDE DEF g
  <2>3. At(g, FlagsAt + 1) = "NUL"
    BY <1>2, <2>2 DEF At
  <2>4. OctetAt(g, FlagsAt) = -1
    BY <1>3, <2>3 DEF OctetAt
  <2> QED BY <1>11, <2>1, <2>4 DEF otlp_traceparent_parse
<1> QED BY <1>6, <1>7, <1>8, <1>9, <1>10, <1>11

(***************************************************************************)
(* The context arrives whole or not at all                                 *)
(***************************************************************************)
\* The context of a span, with the caller's texts.
ContextOf(s, tracestate, baggage) ==
    [otlp_context_from_span(s) EXCEPT !.tracestate = tracestate, !.baggage = baggage]

\* Its fields.
LEMMA ContextFields ==
    ASSUME NEW s, NEW tracestate, NEW baggage
    PROVE  LET ctx == ContextOf(s, tracestate, baggage)
           IN  /\ ctx.trace_id = s.trace_id /\ ctx.span_id = s.span_id /\ ctx.sampled = s.sampled
               /\ ctx.tracestate = tracestate /\ ctx.baggage = baggage
BY DEF ContextOf, otlp_context_from_span, NoContext

\* Concatenations of tuples.
LEMMA TwoOfThem == ASSUME NEW a, NEW b PROVE <<a>> \o <<b>> = <<a, b>>
<1> DEFINE S == {a, b}
<1> DEFINE s == <<a>>
<1> DEFINE t == <<b>>
<1> DEFINE u == <<a, b>>
<1>1. s \in Seq(S) /\ t \in Seq(S) /\ Len(s) = 1 /\ Len(t) = 1 /\ s[1] = a /\ t[1] = b
  OBVIOUS
<1>2. u \in Seq(S) /\ Len(u) = 2 /\ u[1] = a /\ u[2] = b
  OBVIOUS
<1> DEFINE h == s \o t
<1> HIDE DEF S, s, t, u
<1>3. h \in Seq(S) /\ Len(h) = Len(s) + Len(t) /\ \A i \in 1 .. Len(s) + Len(t) : h[i] = IF i <= Len(s) THEN s[i] ELSE t[i - Len(s)]
  BY <1>1, ConcatProperties
<1> HIDE DEF h
<1>4. Len(h) = 2 /\ h[1] = a /\ h[2] = b
  BY <1>1, <1>3
<1>5. h = u
  <2>1. \A i \in 1..Len(h) : h[i] = u[i]
    BY <1>2, <1>4
  <2> QED BY <1>2, <1>3, <1>4, <2>1, SeqEqual
<1> QED BY <1>5 DEF h, s, t, u

\* The same of a pair and another.
LEMMA ThreeOfThem == ASSUME NEW a, NEW b, NEW c PROVE <<a, b>> \o <<c>> = <<a, b, c>>
<1> DEFINE S == {a, b, c}
<1> DEFINE s == <<a, b>>
<1> DEFINE t == <<c>>
<1> DEFINE u == <<a, b, c>>
<1>1. s \in Seq(S) /\ t \in Seq(S) /\ Len(s) = 2 /\ Len(t) = 1 /\ s[1] = a /\ s[2] = b /\ t[1] = c
  OBVIOUS
<1>2. u \in Seq(S) /\ Len(u) = 3 /\ u[1] = a /\ u[2] = b /\ u[3] = c
  OBVIOUS
<1> DEFINE h == s \o t
<1> HIDE DEF S, s, t, u
<1>3. h \in Seq(S) /\ Len(h) = Len(s) + Len(t) /\ \A i \in 1 .. Len(s) + Len(t) : h[i] = IF i <= Len(s) THEN s[i] ELSE t[i - Len(s)]
  BY <1>1, ConcatProperties
<1> HIDE DEF h
<1>4. Len(h) = 3 /\ h[1] = a /\ h[2] = b /\ h[3] = c
  BY <1>1, <1>3
<1>5. h = u
  <2>1. \A i \in 1..Len(h) : h[i] = u[i]
    BY <1>2, <1>4
  <2> QED BY <1>2, <1>3, <1>4, <2>1, SeqEqual
<1> QED BY <1>5 DEF h, s, t, u

\* The traceparent is set last, so that it is there only if every call of set
\* succeeded; then the texts are there too, unless they are empty.
LEMMA Injected ==
    ASSUME NEW ctx, NEW n \in 0..Len(Sets(ctx)),
           NEW h, h = otlp_traceparent_format_raw(ctx.trace_id, ctx.span_id, ctx.sampled)
    PROVE  LET c == otlp_context_inject(ctx, EmptyCarrier, n)
           IN  /\ c = [name \in Headers |-> c[name]]
               /\ c.traceparent = IF n = Len(Sets(ctx)) THEN h ELSE NULL
               /\ n = Len(Sets(ctx)) =>
                     /\ c.tracestate = IF ctx.tracestate = <<>> THEN NULL ELSE ctx.tracestate
                     /\ c.baggage = IF ctx.baggage = <<>> THEN NULL ELSE ctx.baggage
<1> DEFINE ts == <<"tracestate", ctx.tracestate>>
<1> DEFINE bg == <<"baggage", ctx.baggage>>
<1> DEFINE tp == <<"traceparent", h>>
<1> DEFINE c == otlp_context_inject(ctx, EmptyCarrier, n)
<1>1. /\ ts[1] = "tracestate" /\ ts[2] = ctx.tracestate /\ bg[1] = "baggage" /\ bg[2] = ctx.baggage
      /\ tp[1] = "traceparent" /\ tp[2] = h
  OBVIOUS
<1>2. Sets(ctx) = (IF ctx.tracestate = <<>> THEN <<>> ELSE <<ts>>)
                  \o (IF ctx.baggage = <<>> THEN <<>> ELSE <<bg>>) \o <<tp>>
  BY DEF Sets
<1>3. c = [name \in Headers |->
             IF \E i \in 1..n : Sets(ctx)[i][1] = name
             THEN Sets(ctx)[CHOOSE i \in 1..n : Sets(ctx)[i][1] = name][2]
             ELSE NULL]
  BY DEF otlp_context_inject, EmptyCarrier
<1>4. "traceparent" \in Headers /\ "tracestate" \in Headers /\ "baggage" \in Headers
  BY DEF Headers
<1> HIDE DEF ts, bg, tp, c
<1>5. ASSUME NEW name \in Headers, NEW k \in 1..n, Sets(ctx)[k][1] = name,
             \A i \in 1..n : Sets(ctx)[i][1] = name => i = k
      PROVE  c[name] = Sets(ctx)[k][2]
  <2>1. (CHOOSE i \in 1..n : Sets(ctx)[i][1] = name) = k
    BY <1>5
  <2> QED BY <1>3, <1>5, <2>1
<1>6. ASSUME NEW name \in Headers, \A i \in 1..n : Sets(ctx)[i][1] # name
      PROVE  c[name] = NULL
  BY <1>3, <1>6
<1>7. CASE ctx.tracestate = <<>> /\ ctx.baggage = <<>>
  <2>1. Sets(ctx) = <<tp>>
    BY <1>2, <1>7
  <2>2. Len(Sets(ctx)) = 1 /\ Sets(ctx)[1] = tp
    BY <2>1
  <2>3. c["traceparent"] = IF n = 1 THEN h ELSE NULL
    BY <1>1, <1>4, <1>5, <1>6, <2>2
  <2>4. c["tracestate"] = NULL /\ c["baggage"] = NULL
    BY <1>1, <1>4, <1>6, <2>2
  <2> QED BY <1>3, <1>7, <2>2, <2>3, <2>4 DEF c
<1>8. CASE ctx.tracestate # <<>> /\ ctx.baggage = <<>>
  <2>1. Sets(ctx) = <<ts, tp>>
    <3>1. <<ts>> \o <<>> = <<ts>>
      OBVIOUS
    <3> QED BY <1>2, <1>8, <3>1, TwoOfThem
  <2>2. Len(Sets(ctx)) = 2 /\ Sets(ctx)[1] = ts /\ Sets(ctx)[2] = tp
    BY <2>1
  <2>3. c["traceparent"] = IF n = 2 THEN h ELSE NULL
    BY <1>1, <1>4, <1>5, <1>6, <2>2
  <2>4. n = 2 => c["tracestate"] = ctx.tracestate
    BY <1>1, <1>4, <1>5, <2>2
  <2>5. c["baggage"] = NULL
    BY <1>1, <1>4, <1>6, <2>2
  <2> QED BY <1>3, <1>8, <2>2, <2>3, <2>4, <2>5 DEF c
<1>9. CASE ctx.tracestate = <<>> /\ ctx.baggage # <<>>
  <2>1. Sets(ctx) = <<bg, tp>>
    <3>1. <<>> \o <<bg>> = <<bg>>
      OBVIOUS
    <3> QED BY <1>2, <1>9, <3>1, TwoOfThem
  <2>2. Len(Sets(ctx)) = 2 /\ Sets(ctx)[1] = bg /\ Sets(ctx)[2] = tp
    BY <2>1
  <2>3. c["traceparent"] = IF n = 2 THEN h ELSE NULL
    BY <1>1, <1>4, <1>5, <1>6, <2>2
  <2>4. n = 2 => c["baggage"] = ctx.baggage
    BY <1>1, <1>4, <1>5, <2>2
  <2>5. c["tracestate"] = NULL
    BY <1>1, <1>4, <1>6, <2>2
  <2> QED BY <1>3, <1>9, <2>2, <2>3, <2>4, <2>5 DEF c
<1>10. CASE ctx.tracestate # <<>> /\ ctx.baggage # <<>>
  <2>1. Sets(ctx) = <<ts, bg, tp>>
    <3>1. Sets(ctx) = (<<ts>> \o <<bg>>) \o <<tp>>
      BY <1>2, <1>10
    <3>2. <<ts>> \o <<bg>> = <<ts, bg>> /\ <<ts, bg>> \o <<tp>> = <<ts, bg, tp>>
      BY TwoOfThem, ThreeOfThem
    <3> QED BY <3>1, <3>2, Zenon
  <2>2. Len(Sets(ctx)) = 3 /\ Sets(ctx)[1] = ts /\ Sets(ctx)[2] = bg /\ Sets(ctx)[3] = tp
    BY <2>1
  <2>3. c["traceparent"] = IF n = 3 THEN h ELSE NULL
    BY <1>1, <1>4, <1>5, <1>6, <2>2
  <2>4. n = 3 => c["tracestate"] = ctx.tracestate
    BY <1>1, <1>4, <1>5, <2>2
  <2>5. n = 3 => c["baggage"] = ctx.baggage
    BY <1>1, <1>4, <1>5, <2>2
  <2> QED BY <1>3, <1>10, <2>2, <2>3, <2>4, <2>5 DEF c
<1> QED BY <1>7, <1>8, <1>9, <1>10

\* A text is taken as it was sent, or cut, or left out.
LEMMA TextTaken ==
    ASSUME NEW text \in Seq(STRING), NEW sent, sent = IF text = <<>> THEN NULL ELSE text
    PROVE  IF contains_control(text) THEN Taken(sent) = <<>>
           ELSE IsPrefix(Taken(sent), text) /\ (Len(text) < TextMax => Taken(sent) = text)
<1>1. TextMax \in Nat \ {0} /\ text # NULL
  BY ContextAssumption
<1>2. CASE text = <<>>
  <2>1. ~contains_control(text) /\ Taken(sent) = <<>>
    BY <1>2 DEF contains_control, Taken
  <2>2. IsPrefix(<<>>, <<>>)
    BY DEF IsPrefix
  <2> QED BY <1>2, <2>1, <2>2
<1>3. CASE text # <<>> /\ contains_control(text)
  BY <1>3 DEF Taken
<1>4. CASE text # <<>> /\ ~contains_control(text)
  <2> DEFINE n == IF Len(text) >= TextMax THEN TextMax - 1 ELSE Len(text)
  <2> DEFINE got == SubSeq(text, 1, n)
  <2>1. Taken(sent) = got
    BY <1>1, <1>4 DEF Taken
  <2>2. n \in 0..Len(text) /\ (Len(text) < TextMax => n = Len(text)) /\ Len(text) \in Nat
    BY <1>1
  <2> HIDE DEF n
  <2>3. got \in Seq(STRING) /\ Len(got) = n /\ \A i \in 1..n : got[i] = text[i]
    BY <2>2
  <2>4. Len(text) < TextMax => got = text
    <3>1. n = Len(text) => got = text
      <4> HIDE DEF got
      <4> QED BY <2>3, SeqEqual
    <3> QED BY <2>2, <3>1
  <2>5. SubSeq(got, 1, Len(got)) = SubSeq(text, 1, Len(got))
    <3>1. SubSeq(got, 1, n) = got
      <4> HIDE DEF got
      <4> QED BY <2>2, <2>3
    <3> QED BY <2>3, <3>1
  <2>6. IsPrefix(got, text)
    <3> HIDE DEF got
    <3> QED BY <2>2, <2>3, <2>5 DEF IsPrefix
  <2> QED BY <1>4, <2>1, <2>4, <2>6
<1> QED BY <1>2, <1>3, <1>4

\* A context that is injected is extracted again, or none is.
LEMMA InjectIntact ==
    ASSUME TInv, NEW s \in spans \cup {NoIds}, NEW x \in Texts, Inject(s, x[1], x[2])
    PROVE  ContextIntact'
<1> DEFINE ctx == ContextOf(s, x[1], x[2])
<1> DEFINE all == Len(Sets(ctx))
<1> DEFINE c(n) == otlp_context_inject(ctx, EmptyCarrier, n)
<1> DEFINE Hows(n) == IF n = all THEN Alterations ELSE {"none"}
<1> DEFINE Sent(n, how) == [ctx |-> ctx, complete |-> n = all, how |-> how,
                            headers |-> IF c(n).traceparent = NULL THEN c(n)
                                        ELSE [c(n) EXCEPT !.traceparent = Altered(@, how)]]
<1>0. \E n \in 0..all : \E how \in Hows(n) : carrier' = Sent(n, how)
  BY Zenon DEF Inject, ContextOf
<1>1. PICK n \in 0..all : \E how \in Hows(n) : carrier' = Sent(n, how)
  BY <1>0
<1>1a. PICK how \in Hows(n) : carrier' = Sent(n, how)
  BY <1>1
<1>2. SpanOK(s)
  BY SpansOK DEF TInv
<1>3. /\ ctx.trace_id = s.trace_id /\ ctx.span_id = s.span_id /\ ctx.sampled = s.sampled
      /\ ctx.tracestate = x[1] /\ ctx.baggage = x[2]
  BY ContextFields
<1>4. x[1] \in Seq(STRING) /\ x[2] \in Seq(STRING)
  BY TracerAssumption
<1>5. ctx.trace_id \in TraceIds /\ ctx.span_id \in SpanIds /\ ctx.sampled \in BOOLEAN
  BY <1>2, <1>3 DEF SpanOK
<1> DEFINE h == otlp_traceparent_format_raw(ctx.trace_id, ctx.span_id, ctx.sampled)
<1> DEFINE d == c(n)
<1> DEFINE got == otlp_context_extract(carrier'.headers)
<1> DEFINE good == /\ n = all /\ how \in {"none", "upper", "version"}
                   /\ ~IsZero(ctx.trace_id) /\ ~IsZero(ctx.span_id)
<1>6. h \in Seq(HeaderChars) /\ h # NULL
  <2>1. h \in Seq(HeaderChars)
    BY <1>5, FormatSays
  <2> QED BY <2>1, ContextAssumption
<1>7. /\ d = [name \in Headers |-> d[name]]
      /\ d.traceparent = IF n = all THEN h ELSE NULL
      /\ n = all => /\ d.tracestate = IF ctx.tracestate = <<>> THEN NULL ELSE ctx.tracestate
                    /\ d.baggage = IF ctx.baggage = <<>> THEN NULL ELSE ctx.baggage
  BY Injected, Zenon
<1>8. carrier' = [ctx |-> ctx, complete |-> n = all, how |-> how,
                  headers |-> IF d.traceparent = NULL THEN d
                              ELSE [d EXCEPT !.traceparent = Altered(@, how)]]
  BY <1>1a
<1>8a. how \in Hows(n)
  BY <1>1a
<1> HIDE DEF ctx, all, h, c, d, Sent
<1>9. /\ carrier'.ctx = ctx /\ carrier'.complete = (n = all) /\ carrier'.how = how
      /\ carrier'.headers = IF d.traceparent = NULL THEN d
                            ELSE [d EXCEPT !.traceparent = Altered(@, how)]
  BY <1>8
<1>10. /\ got.has_context = good
       /\ good => /\ got.trace_id = ctx.trace_id /\ got.span_id = ctx.span_id
                  /\ got.sampled = ctx.sampled
                  /\ got.tracestate = Taken(d.tracestate) /\ got.baggage = Taken(d.baggage)
  <2>1. CASE n # all
    <3>1. carrier'.headers.traceparent = NULL
      BY <1>7, <1>9, <2>1
    <3>2. got = NoContext
      BY <3>1 DEF otlp_context_extract
    <3>3. got.has_context = FALSE
      <4>1. NoContext.has_context = FALSE
        BY DEF NoContext
      <4> HIDE DEF got
      <4> QED BY <3>2, <4>1
    <3> QED BY <2>1, <3>3
  <2>2. CASE n = all
    <3> DEFINE g == Altered(h, how)
    <3> DEFINE p == otlp_traceparent_parse(g)
    <3>1. how \in {"none", "upper", "version", "invalid", "trailing", "cut"}
      BY <1>8a, <2>2, TracerAssumption
    <3>2. /\ how \in {"none", "upper", "version"} =>
                /\ g \in Seq(HeaderChars)
                /\ p.ok = (~IsZero(ctx.trace_id) /\ ~IsZero(ctx.span_id))
                /\ p.trace_id = ctx.trace_id /\ p.span_id = ctx.span_id
                /\ p.flags = IF ctx.sampled THEN 1 ELSE 0
          /\ how \notin {"none", "upper", "version"} => p.ok = FALSE
      <4>1. h = otlp_traceparent_format_raw(ctx.trace_id, ctx.span_id, ctx.sampled)
        BY DEF h
      <4>2. ParsedAs(how, g, ctx.trace_id, ctx.span_id, ctx.sampled)
        BY <1>5, <3>1, <4>1, AlteredParsed
      <4> HIDE DEF g
      <4> QED BY <4>2 DEF ParsedAs
    <3> HIDE DEF g
    <3>3. carrier'.headers = [d EXCEPT !.traceparent = g]
      BY <1>6, <1>7, <1>9, <2>2 DEF g
    <3>4. /\ carrier'.headers.traceparent = g /\ carrier'.headers.tracestate = d.tracestate
          /\ carrier'.headers.baggage = d.baggage
      BY <1>7, <3>3 DEF Headers
    <3> DEFINE hs == carrier'.headers
    <3> HIDE DEF p, hs
    <3>5. got = IF g = NULL \/ ~p.ok THEN NoContext
                ELSE [has_context |-> TRUE, trace_id |-> p.trace_id, span_id |-> p.span_id,
                      sampled |-> p.flags % 2 = 1,
                      tracestate |-> Taken(d.tracestate), baggage |-> Taken(d.baggage)]
      BY <3>4 DEF otlp_context_extract, p
    <3> HIDE DEF got
    <3>6. CASE good
      <4>1. g # NULL /\ p.ok
        BY <3>2, <3>6, ContextAssumption
      <4>2. ctx.sampled = (p.flags % 2 = 1)
        BY <1>5, <3>2, <3>6
      <4> QED BY <3>2, <3>5, <3>6, <4>1, <4>2
    <3>7. CASE ~good
      <4>1. ~p.ok
        BY <2>2, <3>2, <3>7
      <4> QED BY <3>5, <3>7, <4>1 DEF NoContext
    <3> QED BY <3>6, <3>7
  <2> QED BY <2>1, <2>2
<1> HIDE DEF got
<1>11. good => \A k \in {"tracestate", "baggage"} :
                  IF contains_control(ctx[k]) THEN got[k] = <<>>
                  ELSE IsPrefix(got[k], ctx[k]) /\ (Len(ctx[k]) < TextMax => got[k] = ctx[k])
  <2> SUFFICES ASSUME good
               PROVE  \A k \in {"tracestate", "baggage"} :
                         IF contains_control(ctx[k]) THEN got[k] = <<>>
                         ELSE IsPrefix(got[k], ctx[k]) /\ (Len(ctx[k]) < TextMax => got[k] = ctx[k])
    OBVIOUS
  <2>1. IF contains_control(ctx.tracestate) THEN got.tracestate = <<>>
        ELSE /\ IsPrefix(got.tracestate, ctx.tracestate)
             /\ Len(ctx.tracestate) < TextMax => got.tracestate = ctx.tracestate
    BY <1>3, <1>4, <1>7, <1>10, TextTaken
  <2>2. IF contains_control(ctx.baggage) THEN got.baggage = <<>>
        ELSE /\ IsPrefix(got.baggage, ctx.baggage)
             /\ Len(ctx.baggage) < TextMax => got.baggage = ctx.baggage
    BY <1>3, <1>4, <1>7, <1>10, TextTaken
  <2> QED BY <2>1, <2>2
<1> QED BY <1>9, <1>10, <1>11 DEF ContextIntact, got

\* otlp_context_inject and _extract: the receiver gets the identifiers, the flag
\* and the texts that the sender's span had, or no context at all, whichever
\* call of set fails and whatever an intermediary makes of the traceparent.
THEOREM ContextIntactHolds == Spec => []ContextIntact
<1>1. Init => TInv /\ ContextIntact
  BY TypeInit DEF Init, ContextIntact
<1>2. TInv /\ ContextIntact /\ [Next]_vars => ContextIntact'
  <2> SUFFICES ASSUME TInv, ContextIntact, [Next]_vars PROVE ContextIntact'
    OBVIOUS
  <2>1. UNCHANGED carrier => ContextIntact'
    BY DEF ContextIntact
  <2>2. ASSUME NEW t \in Threads, PrngCas(t) \/ PrngLoad(t) \/ Sample(t) \/ StartRoot(t)
        PROVE  ContextIntact'
    BY <2>1, <2>2 DEF PrngCas, PrngLoad, Sample, StartRoot
  <2>3. ASSUME NEW t \in Threads, NEW parent, StartChild(t, parent) PROVE ContextIntact'
    BY <2>1, <2>3 DEF StartChild
  <2>4. ASSUME NEW s, otlp_tracer_set_sampler(s) PROVE ContextIntact'
    BY <2>1, <2>4 DEF otlp_tracer_set_sampler
  <2>5. CASE Discard
    BY <2>5 DEF Discard, ContextIntact
  <2>6. CASE UNCHANGED vars
    BY <2>1, <2>6 DEF vars
  <2> QED BY <2>2, <2>3, <2>4, <2>5, <2>6, InjectIntact DEF Next
<1> QED BY <1>1, <1>2, TypeInit, TypeStep, PTL DEF Spec
=============================================================================
