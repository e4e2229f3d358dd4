-------------------------- MODULE HttpRequestProofs --------------------------
(***************************************************************************)
(* Proofs about the request state machine of src/http_client.c and the     *)
(* parser of src/http_response_parser.c, for any peer, any octets it sends *)
(* and any way of splitting them over reads.                               *)
(***************************************************************************)
EXTENDS HttpRequest, NatRecursion

\* A buffer that begins with a head, and one that begins with no head of an
\* answer in a transfer coding.
HeadFirst(b) == b # <<>> /\ b[1].kind = "head"
PlainBuf(b)  == HeadFirst(b) => ~HasLine(b[1].head, "Transfer-Encoding")

Types ==
  /\ TypeOK
  /\ {buf, body, raw, inbound, outgoing} \subseteq Seq(Units)
  /\ answer \in Answers \cup {NoAnswer}

\* The request owns its socket; the exporter keeps one only between requests.
\* Nothing is read before READING, where there is a buffer.
Life ==
  /\ sock <=> state # Idle
  /\ kept => state = Idle
  /\ state \in {Idle, "CONNECTING", "SENDING"} => raw = <<>> /\ buf = <<>>
  /\ state = "READING" => cap > 0
  /\ state # "FAILED" => why = "none"
  /\ fin => outgoing = <<>>

\* The buffer begins like what was read.  Unless that is an answer in a transfer
\* coding, it is what was read, and the verdict is the one on all of it.
Heard ==
  /\ state = "READING" => Len(buf) = Len(raw) /\ (raw # <<>> => buf[1] = raw[1])
  /\ PlainBuf(raw) =>
       /\ state = "READING" => buf = raw /\ try_parse_response(raw, FALSE).rc = NeedMore
       /\ state = "DONE" =>
            \/ try_parse_response(raw, FALSE).rc = Complete
            \/ fin /\ inbound = <<>> /\ try_parse_response(raw, TRUE).rc = Complete
       /\ why = "invalid" =>
            \/ try_parse_response(raw, FALSE).rc = Bad
            \/ fin /\ inbound = <<>> /\ try_parse_response(raw, TRUE).rc # Complete

\* No two readers could frame the answer differently: it has no different
\* lengths, and not a length and a transfer coding.
Framed(head) ==
  /\ head.statusLine
  /\ \A i, j \in DOMAIN head.lines :
       head.lines[i].name = "Content-Length" =>
         /\ head.lines[j].name = "Content-Length" => head.lines[i].num = head.lines[j].num
         /\ head.lines[j].name # "Transfer-Encoding"

\* A request is DONE with the status of the head that came, whatever connection
\* it came from, and that head frames its answer unambiguously.
Accepted ==
  state = "DONE" =>
    HeadFirst(raw) /\ status = raw[1].head.status /\ Framed(raw[1].head)

\* Since the last octet went either way no less time has passed than the code
\* counts, unless there is something to read.
Silent == state \in {"SENDING", "READING"} => quiet >= sinceIo \/ inbound # <<>>

IInv == Types /\ Life /\ SocketOwned /\ Heard /\ Accepted /\ Silent

\* The answer on the wire, as far as it goes: the peer may say more, or close
\* before its end.
Expected(k) == IF k = 1 THEN HeadUnit(answer.head) ELSE answer.units[k - 1]
Run(s, from) == \A k \in 1..Len(s) : from + k <= Len(answer.units) + 1 => s[k] = Expected(from + k)
Total == Len(raw) + Len(inbound) + Len(outgoing)

\* What was read, what is on its way and what is still to be sent of the answer
\* to this request.
Stream ==
  /\ state \in {"CONNECTING", "SENDING"} => answer = NoAnswer
  /\ state \in {"CONNECTING", "SENDING", "READING", "DONE"} /\ answer = NoAnswer =>
       raw = <<>> /\ inbound = <<>> /\ outgoing = <<>>
  /\ state \in {"READING", "DONE"} /\ answer # NoAnswer =>
       /\ Run(raw, 0) /\ Run(inbound, Len(raw)) /\ Run(outgoing, Len(raw) + Len(inbound))
       /\ ~ToEof(answer.head) => Total <= Len(answer.units) + 1
       /\ state = "READING" /\ ~fin => Total >= Len(answer.units) + 1

\* The body of a request that is DONE is as long as a Content-Length says, or
\* all there was, and then the socket is not kept.
Whole ==
  state = "DONE" /\ Plain =>
    IF ToEof(answer.head)
      THEN fin /\ inbound = <<>> /\ body = Tail(raw) /\ ~keepaliveEligible
      ELSE \E l \in Lengths(answer.head) : l + 1 <= Len(raw) /\ body = SubSeq(Tail(raw), 1, l)

\* All this of a connection that carries the answers to its requests only.
FInv == (~stale => Stream /\ Whole) /\ DetachedClean

\* The bounds of the configuration.
LEMMA Bounds ==
  /\ ReqLen \in Nat \ {0} /\ InitCap \in Nat \ {0} /\ RespMax \in Nat \ {0} /\ InitCap <= RespMax
  /\ ConnectTimeout \in Nat \ {0} /\ ReadTimeout \in Nat \ {0} /\ MaxRequests \in Nat \ {0}
BY HttpAssumption

(***************************************************************************)
(* The header scan                                                         *)
(***************************************************************************)
Scans == [length : Int, te : BOOLEAN, chunked : BOOLEAN, bad : BOOLEAN, keepalive : BOOLEAN]

\* What a header line does to the scan.
LEMMA ScanLineFacts ==
  ASSUME NEW x \in Scans, NEW line \in HeaderLines
  PROVE  LET y == ScanLine(x, line) IN
         /\ y \in Scans
         /\ y.te <=> x.te \/ line.name = "Transfer-Encoding"
         /\ y.length = IF line.name = "Content-Length" THEN line.num ELSE x.length
         /\ y.bad <=> \/ x.bad
                      \/ line.name = "Content-Length" /\
                           (line.num > RespMax \/ (x.length # NoLength /\ x.length # line.num))
<1> DEFINE y == ScanLine(x, line)
<1>0. line.name \in STRING /\ line.num \in Nat
  BY DEF HeaderLines
<1>1. CASE line.name = "Content-Length"
  <2> DEFINE b == x.bad \/ line.num > RespMax \/ (x.length # NoLength /\ x.length # line.num)
  <2>1. y = [x EXCEPT !.bad = b, !.length = line.num]
    BY <1>1 DEF ScanLine
  <2>2. b \in BOOLEAN
    OBVIOUS
  <2> HIDE DEF b
  <2>3. y \in Scans
    <3>1. line.num \in Int
      BY <1>0
    <3>2. [x EXCEPT !.bad = b, !.length = line.num] \in Scans
      BY <2>2, <3>1 DEF Scans
    <3> QED BY <2>1, <3>2
  <2>4. y.te = x.te /\ y.length = line.num /\ y.bad = b
    BY <2>1 DEF Scans
  <2> QED BY <1>1, <2>3, <2>4 DEF b
<1>2. CASE line.name = "Transfer-Encoding"
  <2> DEFINE b == x.chunked \/ line.word = "chunked"
  <2>1. y = [x EXCEPT !.te = TRUE, !.chunked = b]
    BY <1>2 DEF ScanLine
  <2>2. b \in BOOLEAN
    OBVIOUS
  <2> HIDE DEF b
  <2>3. y \in Scans
    BY <2>1, <2>2 DEF Scans
  <2>4. y.te = TRUE /\ y.length = x.length /\ y.bad = x.bad
    BY <2>1 DEF Scans
  <2> QED BY <1>2, <2>3, <2>4
<1>3. CASE line.name = "Connection"
  <2> DEFINE b == CASE line.word = "close" -> FALSE
                    [] line.word = "keep-alive" -> TRUE
                    [] OTHER -> x.keepalive
  <2>1. y = [x EXCEPT !.keepalive = b]
    BY <1>3 DEF ScanLine
  <2>2. b \in BOOLEAN
    BY DEF Scans
  <2> HIDE DEF b
  <2>3. y \in Scans
    BY <2>1, <2>2 DEF Scans
  <2>4. y.te = x.te /\ y.length = x.length /\ y.bad = x.bad
    BY <2>1 DEF Scans
  <2> QED BY <1>3, <2>3, <2>4
<1>4. CASE line.name \notin {"Content-Length", "Transfer-Encoding", "Connection"}
  <2>1. y = x
    BY <1>4 DEF ScanLine
  <2> QED BY <1>4, <2>1
<1> QED BY <1>1, <1>2, <1>3, <1>4

\* The scan of the first i lines, and what it knows of them: whether there was
\* a transfer coding, and the one length, if no two lines disagreed.
Scanned(head, i, x) ==
  /\ x \in Scans
  /\ x.te <=> \E j \in 1..i : head.lines[j].name = "Transfer-Encoding"
  /\ x.length # NoLength <=> \E j \in 1..i : head.lines[j].name = "Content-Length"
  /\ ~x.bad => \A j \in 1..i : head.lines[j].name = "Content-Length" => head.lines[j].num = x.length

LEMMA ScannedNext ==
  ASSUME NEW head \in ResponseHeads, NEW i \in Nat, i + 1 <= Len(head.lines), NEW x, Scanned(head, i, x)
  PROVE  Scanned(head, i + 1, ScanLine(x, head.lines[i + 1]))
<1> DEFINE line == head.lines[i + 1]
<1> DEFINE y == ScanLine(x, line)
<1>1. head.lines \in Seq(HeaderLines) /\ i + 1 \in 1..Len(head.lines)
  BY DEF ResponseHeads
<1>2. line \in HeaderLines /\ line.num \in Nat
  <2>1. line \in HeaderLines
    BY <1>1
  <2> HIDE DEF line
  <2> QED BY <2>1 DEF HeaderLines
<1>3. x \in Scans /\ x.length \in Int
  BY DEF Scanned, Scans
<1>4. /\ y \in Scans
      /\ y.te <=> x.te \/ line.name = "Transfer-Encoding"
      /\ y.length = IF line.name = "Content-Length" THEN line.num ELSE x.length
      /\ y.bad <=> \/ x.bad
                   \/ line.name = "Content-Length" /\
                        (line.num > RespMax \/ (x.length # NoLength /\ x.length # line.num))
  <2> HIDE DEF line
  <2> QED BY <1>2, <1>3, ScanLineFacts
<1> HIDE DEF y
<1>6. (\E j \in 1..(i + 1) : head.lines[j].name = "Transfer-Encoding")
        <=> (\E j \in 1..i : head.lines[j].name = "Transfer-Encoding") \/ line.name = "Transfer-Encoding"
  OBVIOUS
<1>7. (\E j \in 1..(i + 1) : head.lines[j].name = "Content-Length")
        <=> (\E j \in 1..i : head.lines[j].name = "Content-Length") \/ line.name = "Content-Length"
  OBVIOUS
<1>8. y.te <=> \E j \in 1..(i + 1) : head.lines[j].name = "Transfer-Encoding"
  BY <1>4, <1>6 DEF Scanned
<1>9. y.length # NoLength <=> \E j \in 1..(i + 1) : head.lines[j].name = "Content-Length"
  BY <1>2, <1>4, <1>7 DEF Scanned, NoLength
<1>10. ASSUME ~y.bad, NEW j \in 1..(i + 1), head.lines[j].name = "Content-Length"
       PROVE  head.lines[j].num = y.length
  <2>1. ~x.bad
    BY <1>4, <1>10
  <2>2. CASE j = i + 1
    BY <1>4, <1>10, <2>2
  <2>3. CASE j \in 1..i
    <3>1. head.lines[j].num = x.length /\ x.length # NoLength
      BY <1>10, <2>1, <2>3 DEF Scanned
    <3> QED BY <1>4, <1>10, <3>1
  <2> QED BY <2>2, <2>3
<1>11. Scanned(head, i + 1, y)
  BY <1>4, <1>8, <1>9, <1>10 DEF Scanned
<1> QED BY <1>11 DEF y

\* The scan of all lines.
LEMMA ScanFacts ==
  ASSUME NEW head \in ResponseHeads
  PROVE  Scanned(head, Len(head.lines), ScanHeaders(head))
<1> DEFINE L == Len(head.lines)
<1> DEFINE c == NoLines(head)
<1> DEFINE D == [x \in Nat \X Scans |->
                   IF x[1] + 1 <= L THEN ScanLine(x[2], head.lines[x[1] + 1]) ELSE x[2]]
<1>0. head.lines \in Seq(HeaderLines) /\ L \in Nat /\ head.http11 \in BOOLEAN
  BY DEF ResponseHeads
<1>1. c \in Scans /\ Scanned(head, 0, c)
  BY <1>0 DEF NoLines, Scanned, Scans, NoLength
<1>2. D \in Steps(Scans)
  <2>1. ASSUME NEW x \in Nat \X Scans
        PROVE  (IF x[1] + 1 <= L THEN ScanLine(x[2], head.lines[x[1] + 1]) ELSE x[2]) \in Scans
    <3>1. PICK i \in Nat, z \in Scans : x[1] = i /\ x[2] = z
      OBVIOUS
    <3>2. CASE i + 1 <= L
      <4>1. head.lines[i + 1] \in HeaderLines
        BY <1>0, <3>2
      <4>2. ScanLine(z, head.lines[i + 1]) \in Scans
        BY <4>1, ScanLineFacts
      <4> QED BY <3>1, <3>2, <4>2
    <3> QED BY <3>1, <3>2
  <2> QED BY <2>1 DEF Steps
<1>3. PICK g : Follows(g, Scans, c, D)
  <2> HIDE DEF D, c
  <2> QED BY <1>1, <1>2, Recursion
<1>4. /\ g \in [Nat -> Scans] /\ g[0] = c
      /\ \A i \in Nat : i + 1 <= L => g[i + 1] = ScanLine(g[i], head.lines[i + 1])
  <2> HIDE DEF c
  <2> QED BY <1>3 DEF Follows
<1> DEFINE F(h) == [i \in 0..L |-> IF i = 0 THEN c ELSE ScanLine(h[i - 1], head.lines[i])]
<1> DEFINE r == [i \in 0..L |-> g[i]]
<1> DEFINE v == CHOOSE h : h = F(h)
<1> HIDE DEF c
<1>5. r = F(r)
  <2>1. ASSUME NEW i \in 0..L PROVE g[i] = IF i = 0 THEN c ELSE ScanLine(r[i - 1], head.lines[i])
    <3>1. CASE i = 0
      BY <1>4, <3>1
    <3>2. CASE i # 0
      <4>1. i - 1 \in Nat /\ i - 1 \in 0..L /\ (i - 1) + 1 = i /\ i <= L
        BY <1>0, <3>2
      <4>2. g[i] = ScanLine(g[i - 1], head.lines[i])
        BY <1>4, <4>1
      <4> QED BY <3>2, <4>1, <4>2
    <3> QED BY <3>1, <3>2
  <2> QED BY <2>1
<1>6. v = F(v)
  <2> HIDE DEF F, r
  <2> QED BY <1>5
<1>7. ScanHeaders(head) = v[L]
  BY Zenon DEF ScanHeaders, c
<1> HIDE DEF v
<1>8. ASSUME NEW i \in 0..L PROVE v[i] = IF i = 0 THEN c ELSE ScanLine(v[i - 1], head.lines[i])
  BY <1>6, Zenon
<1> DEFINE S == {i \in Nat : i <= L => Scanned(head, i, v[i])}
<1>9. 0 \in S
  <2>1. 0 \in 0..L
    BY <1>0
  <2>2. v[0] = c
    BY <1>8, <2>1
  <2> QED BY <1>1, <2>2
<1>10. ASSUME NEW i \in Nat, i \in S PROVE i + 1 \in S
  <2> SUFFICES ASSUME i + 1 <= L PROVE Scanned(head, i + 1, v[i + 1])
    OBVIOUS
  <2>1. i + 1 \in 0..L /\ i + 1 # 0 /\ (i + 1) - 1 = i /\ i <= L
    BY <1>0
  <2>2. v[i + 1] = ScanLine(v[i], head.lines[i + 1])
    BY <1>8, <2>1
  <2>3. Scanned(head, i, v[i])
    BY <1>10, <2>1
  <2>4. Scanned(head, i + 1, ScanLine(v[i], head.lines[i + 1]))
    BY <2>3, ScannedNext
  <2> QED BY <2>2, <2>4
<1>11. Nat \subseteq S
  <2> HIDE DEF S
  <2> QED BY <1>9, <1>10, SetInduction
<1>12. Scanned(head, L, v[L])
  BY <1>0, <1>11
<1> QED BY <1>7, <1>12

(***************************************************************************)
(* The chunk decoder                                                       *)
(***************************************************************************)
Verdicts == {Complete, NeedMore, Bad}
Results  == [rc : Verdicts, body : Seq(Units)]

\* The first octet of a kind, or the end of the buffer.
LEMMA FirstOfFacts ==
  ASSUME NEW b \in Seq(Units), NEW from \in 1..(Len(b) + 1), NEW kinds
  PROVE  FirstOf(b, from, kinds) \in from..(Len(b) + 1)
<1> DEFINE Found(i) == i = Len(b) + 1 \/ b[i].kind \in kinds
<1> DEFINE S == {i \in from..(Len(b) + 1) : Found(i)}
<1>1. S \subseteq Nat /\ S # {}
  <2>1. Len(b) + 1 \in S
    OBVIOUS
  <2> QED BY <2>1
<1>2. PICK m \in S : \A k \in S : m <= k
  <2> HIDE DEF S
  <2> QED BY <1>1, LeastElement
<1>3. \A j \in from..(m - 1) : b[j].kind \notin kinds
  <2> SUFFICES ASSUME NEW j \in from..(m - 1), b[j].kind \in kinds PROVE FALSE
    OBVIOUS
  <2>1. j \in S
    OBVIOUS
  <2>2. m <= j
    BY <1>2, <2>1
  <2> QED BY <2>2
<1>4. \E i \in from..(Len(b) + 1) :
        /\ i = Len(b) + 1 \/ b[i].kind \in kinds
        /\ \A j \in from..(i - 1) : b[j].kind \notin kinds
  BY <1>2, <1>3
<1> QED BY <1>4 DEF FirstOf

\* What a chunk can be: not there, bad or the last one, or octets of the buffer
\* and a next chunk further on.
LEMMA ChunkFacts ==
  ASSUME NEW b \in Seq(Units), NEW src \in 1..(Len(b) + 1)
  PROVE  LET c == DecodeChunk(b, src) IN
         /\ c.rc \in Verdicts /\ c.octets \in Seq(Units)
         /\ c.next = 0 \/ c.next \in (src + 1)..(Len(b) + 1)
<1> DEFINE c     == DecodeChunk(b, src)
<1> DEFINE stop  == FirstOf(b, src, {"cr", "semi", "data", "lf", "head"})
<1> DEFINE first == FirstOf(b, src, {"cr"}) + 2
<1> DEFINE size  == ChunkSize(b, src, stop)
<1> DEFINE end   == first + size
<1> DEFINE there == size \in 0..RespMax /\ end + 1 <= Len(b)
<1> DEFINE octets == SubSeq(b, first, end - 1)
<1>1. first \in (src + 2)..(Len(b) + 3)
  BY FirstOfFacts
<1> DEFINE bad == \/ size \notin 0..RespMax
                  \/ stop <= Len(b) /\ b[stop] \notin {Cr, Semi}
<1> DEFINE last == LastOrNone(IF EndOfTrailers(b, first) THEN Complete ELSE NeedMore)
<1> DEFINE found == Chunk(octets, end + 2)
<1>2. \/ \E rc \in Verdicts : c = LastOrNone(rc)
      \/ there /\ c = found
  <2>1. c = IF bad THEN LastOrNone(Bad)
            ELSE IF stop = src \/ first > Len(b) + 1 THEN LastOrNone(NeedMore)
            ELSE IF b[first - 1] # Lf THEN LastOrNone(Bad)
            ELSE IF size = 0 THEN last
            ELSE IF end + 1 > Len(b) THEN LastOrNone(NeedMore)
            ELSE IF ~LineEnd(b, end) THEN LastOrNone(Bad)
            ELSE found
    BY Zenon DEF DecodeChunk
  <2>2. \E rc \in Verdicts : last = LastOrNone(rc)
    BY DEF Verdicts
  <2>3. ~bad /\ ~(end + 1 > Len(b)) => there
    BY <1>1
  <2> HIDE DEF c, bad, last, found, there
  <2> QED BY <2>1, <2>2, <2>3 DEF Verdicts
<1> HIDE DEF c, stop, first, size
<1>3. CASE \E rc \in Verdicts : c = LastOrNone(rc)
  BY <1>3 DEF LastOrNone, c
<1>4. CASE there /\ c = Chunk(octets, end + 2)
  <2>1. PICK p \in Nat, n \in Nat : p = first /\ n = size
    BY <1>1, <1>4
  <2>2. p >= src + 2 /\ p + n + 1 <= Len(b)
    BY <1>1, <1>4, <2>1
  <2>3. SubSeq(b, p, p + n - 1) \in Seq(Units)
    BY <2>2
  <2>4. octets \in Seq(Units) /\ end + 2 \in (src + 1)..(Len(b) + 1)
    BY <2>1, <2>2, <2>3
  <2>5. c.rc = Complete /\ c.octets = octets /\ c.next = end + 2
    BY <1>4 DEF Chunk
  <2> HIDE DEF octets, end
  <2> QED BY <2>4, <2>5 DEF c, Verdicts
<1> QED BY <1>2, <1>3, <1>4

\* What the decoder finds, and that it leaves a buffer of the same length.
LEMMA DecodeType ==
  ASSUME NEW b \in Seq(Units)
  PROVE  decode_chunked_in_place(b) \in Results
<1>0. PICK n \in Nat : n = Len(b)
  OBVIOUS
<1> DEFINE D(src, f) == LET c == DecodeChunk(b, src)
                        IN IF c.next = 0 THEN Decoded(c.rc, <<>>)
                           ELSE [f[c.next] EXCEPT !.body = c.octets \o @]
<1>1. ASSUME NEW src \in 1..(n + 1)
      PROVE  \/ \E r \in Results : \A f : D(src, f) = r
             \/ \E next \in (src + 1)..(n + 1), s \in Seq(Units) :
                  \A f : D(src, f) = [f[next] EXCEPT !.body = s \o @]
  <2> DEFINE c == DecodeChunk(b, src)
  <2>1. /\ c.rc \in Verdicts /\ c.octets \in Seq(Units)
        /\ c.next = 0 \/ c.next \in (src + 1)..(n + 1)
    BY <1>0, ChunkFacts
  <2>2. Decoded(c.rc, <<>>) \in Results
    <3> HIDE DEF c
    <3> QED BY <2>1 DEF Decoded, Results
  <2>3. \A f : D(src, f) = IF c.next = 0 THEN Decoded(c.rc, <<>>)
                           ELSE [f[c.next] EXCEPT !.body = c.octets \o @]
    OBVIOUS
  <2> HIDE DEF c, D
  <2> QED BY <2>1, <2>2, <2>3
<1> HIDE DEF D
<1>2. ASSUME NEW r \in Results, NEW s \in Seq(Units)
      PROVE  [r EXCEPT !.body = s \o @] \in Results
  <2>1. r.body \in Seq(Units)
    BY DEF Results
  <2>2. s \o r.body \in Seq(Units)
    BY <2>1
  <2> QED BY <2>2 DEF Results
<1> DEFINE From(k) == {src \in 1..(n + 1) : src >= n + 2 - k}
<1>3. ASSUME NEW src \in 1..(n + 1), NEW f, \A i \in (src + 1)..(n + 1) : f[i] \in Results
      PROVE  D(src, f) \in Results
  <2>1. CASE \E r \in Results : \A h : D(src, h) = r
    BY <2>1
  <2>2. CASE \E next \in (src + 1)..(n + 1), s \in Seq(Units) :
               \A h : D(src, h) = [h[next] EXCEPT !.body = s \o @]
    <3>1. PICK next \in (src + 1)..(n + 1), s \in Seq(Units) :
               \A h : D(src, h) = [h[next] EXCEPT !.body = s \o @]
      BY <2>2
    <3>2. [f[next] EXCEPT !.body = s \o @] \in Results
      BY <1>2, <1>3
    <3>3. D(src, f) = [f[next] EXCEPT !.body = s \o @]
      BY <3>1
    <3> QED BY <3>2, <3>3
  <2> QED BY <1>1, <2>1, <2>2
<1>4. ASSUME NEW src \in 1..(n + 1), NEW f, NEW g, \A i \in (src + 1)..(n + 1) : f[i] = g[i]
      PROVE  D(src, f) = D(src, g)
  <2>1. CASE \E r \in Results : \A h : D(src, h) = r
    BY <2>1
  <2>2. CASE \E next \in (src + 1)..(n + 1), s \in Seq(Units) :
               \A h : D(src, h) = [h[next] EXCEPT !.body = s \o @]
    <3>1. PICK next \in (src + 1)..(n + 1), s \in Seq(Units) :
               \A h : D(src, h) = [h[next] EXCEPT !.body = s \o @]
      BY <2>2
    <3>2. f[next] = g[next]
      BY <1>4
    <3>3. D(src, f) = [f[next] EXCEPT !.body = s \o @]
      BY <3>1
    <3>4. D(src, g) = [g[next] EXCEPT !.body = s \o @]
      BY <3>1
    <3> QED BY <3>2, <3>3, <3>4
  <2> QED BY <1>1, <2>1, <2>2
<1> DEFINE F(h) == [src \in 1..(n + 1) |-> D(src, h)]
<1>5. \E g : g = F(g)
  <2> DEFINE S == {k \in Nat : \E g \in [1..(n + 1) -> Results] :
                                 \A src \in From(k) : g[src] = D(src, g)}
  <2>1. 0 \in S
    <3>1. <<>> \in Seq(Units) /\ Bad \in Verdicts
      BY DEF Verdicts
    <3>2. Decoded(Bad, <<>>) \in Results
      BY <3>1 DEF Decoded, Results
    <3>3. [i \in 1..(n + 1) |-> Decoded(Bad, <<>>)] \in [1..(n + 1) -> Results]
      BY <3>2
    <3>4. From(0) = {}
      OBVIOUS
    <3> QED BY <3>3, <3>4
  <2>2. ASSUME NEW k \in Nat, k \in S PROVE k + 1 \in S
    <3>1. PICK g \in [1..(n + 1) -> Results] : \A src \in From(k) : g[src] = D(src, g)
      BY <2>2
    <3> DEFINE at == n + 1 - k
    <3>2. CASE at < 1
      <4>1. From(k + 1) = From(k)
        BY <3>2
      <4>2. \A src \in From(k + 1) : g[src] = D(src, g)
        BY <3>1, <4>1
      <4> HIDE DEF From
      <4> QED BY <4>2
    <3>3. CASE at >= 1
      <4>0. at \in 1..(n + 1)
        BY <3>3
      <4> DEFINE h == [g EXCEPT ![at] = D(at, g)]
      <4>1. D(at, g) \in Results
        BY <1>3, <4>0
      <4>2. h \in [1..(n + 1) -> Results]
        BY <4>1
      <4>3. ASSUME NEW src \in From(k + 1) PROVE h[src] = D(src, h)
        <5>1. src \in 1..(n + 1) /\ src >= at
          OBVIOUS
        <5>2. \A i \in (src + 1)..(n + 1) : g[i] = h[i]
          BY <5>1
        <5>3. D(src, g) = D(src, h)
          <6> HIDE DEF h
          <6> QED BY <1>4, <5>1, <5>2
        <5>4. h[src] = D(src, g)
          <6>1. CASE src = at
            BY <4>0, <6>1
          <6>2. CASE src # at
            <7>1. src \in From(k)
              BY <5>1, <6>2
            <7>2. h[src] = g[src]
              BY <5>1, <6>2
            <7> QED BY <3>1, <7>1, <7>2
          <6> QED BY <6>1, <6>2
        <5> QED BY <5>3, <5>4
      <4> HIDE DEF h, From
      <4> QED BY <4>2, <4>3
    <3> QED BY <3>2, <3>3
  <2>3. Nat \subseteq S
    <3> HIDE DEF S
    <3> QED BY <2>1, <2>2, SetInduction
  <2>4. n + 1 \in S
    <3> HIDE DEF S
    <3> QED BY <2>3
  <2>5. PICK g \in [1..(n + 1) -> Results] : \A src \in From(n + 1) : g[src] = D(src, g)
    BY <2>4
  <2>6. \A src \in 1..(n + 1) : g[src] = D(src, g)
    BY <2>5
  <2>7. g = F(g)
    <3>1. g = [src \in 1..(n + 1) |-> g[src]]
      OBVIOUS
    <3> QED BY <2>6, <3>1
  <2> HIDE DEF F
  <2> QED BY <2>7
<1> DEFINE v == CHOOSE h : h = F(h)
<1>6. v = F(v)
  <2> HIDE DEF F
  <2> QED BY <1>5
<1>7. decode_chunked_in_place(b) = v[1]
  BY <1>0, Zenon DEF decode_chunked_in_place, DecodeFrom, D
<1> HIDE DEF v
<1>8. ASSUME NEW src \in 1..(n + 1) PROVE v[src] = D(src, v)
  BY <1>6, Zenon
<1> DEFINE T == {k \in Nat : \A src \in From(k) : v[src] \in Results}
<1>9. 0 \in T
  OBVIOUS
<1>10. ASSUME NEW k \in Nat, k \in T PROVE k + 1 \in T
  <2> SUFFICES ASSUME NEW src \in From(k + 1) PROVE v[src] \in Results
    OBVIOUS
  <2>1. \A i \in (src + 1)..(n + 1) : v[i] \in Results
    BY <1>10
  <2>2. D(src, v) \in Results
    BY <1>3, <2>1
  <2> QED BY <1>8, <2>2
<1>11. Nat \subseteq T
  <2> HIDE DEF T
  <2> QED BY <1>9, <1>10, SetInduction
<1>12. n + 1 \in T
  <2> HIDE DEF T
  <2> QED BY <1>11
<1>13. v[1] \in Results
  BY <1>12
<1> QED BY <1>7, <1>13

\* Compacting keeps the length.
LEMMA CompactType ==
  ASSUME NEW b \in Seq(Units), NEW d \in Seq(Units)
  PROVE  Compact(b, d) \in Seq(Units) /\ Len(Compact(b, d)) = Len(b)
<1>1. PICK n \in Nat : n = Len(b) /\ DOMAIN b = 1..n
  OBVIOUS
<1> DEFINE c == Compact(b, d)
<1>2. c \in [1..n -> Units]
  <2>1. ASSUME NEW i \in 1..n PROVE (IF i \in DOMAIN d THEN d[i] ELSE b[i]) \in Units
    BY <1>1
  <2> QED BY <1>1, <2>1 DEF Compact
<1> HIDE DEF c
<1>3. c \in Seq(Units) /\ Len(c) = n
  BY <1>2
<1> QED BY <1>1, <1>3 DEF c

(***************************************************************************)
(* The parser                                                              *)
(***************************************************************************)
Answered == [rc : Verdicts, buf : Seq(Units), body : Seq(Units), keepalive : BOOLEAN]

\* What a verdict is: its buffer has the length of the one parsed.
VerdictOf(v, n) == v \in Answered /\ Len(v.buf) = n

\* The fields of a verdict.
LEMMA VerdictFields ==
  /\ \A rc, b, m, k : /\ Verdict(rc, b, m, k).rc = rc /\ Verdict(rc, b, m, k).buf = b
                      /\ Verdict(rc, b, m, k).body = m /\ Verdict(rc, b, m, k).keepalive = k
  /\ \A rc, b : /\ Undecided(rc, b).rc = rc /\ Undecided(rc, b).buf = b
                /\ Undecided(rc, b).body = <<>> /\ Undecided(rc, b).keepalive = FALSE
  /\ Complete # NeedMore /\ Complete # Bad /\ NeedMore # Bad
BY DEF Verdict, Undecided, Complete, NeedMore, Bad

\* The types of verdicts.
LEMMA VerdictType ==
  ASSUME NEW rc \in Verdicts, NEW b \in Seq(Units), NEW m \in Seq(Units), NEW k \in BOOLEAN
  PROVE  /\ VerdictOf(Verdict(rc, b, m, k), Len(b))
         /\ VerdictOf(Undecided(rc, b), Len(b))
<1>1. <<>> \in Seq(Units) /\ FALSE \in BOOLEAN
  OBVIOUS
<1> QED BY <1>1 DEF VerdictOf, Answered, Verdict, Undecided

\* The parser's answer to a head without a transfer coding and the n octets
\* behind it: a body without length is complete only at the end of the stream.
PlainVerdict(head, b, at_eof, v) ==
  LET length == ScanHeaders(head).length IN
  /\ ~head.statusLine \/ ScanHeaders(head).bad => v.rc = Bad
  /\ head.statusLine /\ ~ScanHeaders(head).bad /\ length # NoLength =>
       /\ v.rc = IF Len(b) < length THEN NeedMore ELSE Complete
       /\ v.rc = Complete => v.body = SubSeq(b, 1, length)
  /\ head.statusLine /\ ~ScanHeaders(head).bad /\ length = NoLength =>
       /\ v.rc = IF at_eof THEN Complete ELSE NeedMore
       /\ v.rc = Complete => v.body = b /\ ~v.keepalive

\* HasLine, ToEof and the scan agree.
LEMMA ScanAgrees ==
  ASSUME NEW head \in ResponseHeads
  PROVE  LET scan == ScanHeaders(head) IN
         /\ scan \in Scans
         /\ scan.te <=> HasLine(head, "Transfer-Encoding")
         /\ scan.length # NoLength <=> HasLine(head, "Content-Length")
         /\ ~scan.bad => \A i \in DOMAIN head.lines :
              head.lines[i].name = "Content-Length" => head.lines[i].num = scan.length
<1>1. DOMAIN head.lines = 1..Len(head.lines)
  BY DEF ResponseHeads
<1>2. Scanned(head, Len(head.lines), ScanHeaders(head))
  BY ScanFacts
<1> QED BY <1>1, <1>2 DEF Scanned, HasLine

\* A head and the octets behind it.
LEMMA ParseFacts ==
  ASSUME NEW head \in ResponseHeads, NEW b \in Seq(Units), NEW at_eof \in BOOLEAN
  PROVE  LET v == ParseBody(head, b, at_eof) IN
         /\ VerdictOf(v, Len(b))
         /\ v.rc = Complete => Framed(head)
         /\ ~HasLine(head, "Transfer-Encoding") => v.buf = b /\ PlainVerdict(head, b, at_eof, v)
<1> DEFINE v == ParseBody(head, b, at_eof)
<1> DEFINE scan == ScanHeaders(head)
<1>1. /\ scan \in Scans
      /\ scan.te <=> HasLine(head, "Transfer-Encoding")
      /\ scan.length # NoLength <=> HasLine(head, "Content-Length")
      /\ ~scan.bad => \A i \in DOMAIN head.lines :
           head.lines[i].name = "Content-Length" => head.lines[i].num = scan.length
  BY ScanAgrees
<1>2. /\ scan.te \in BOOLEAN /\ scan.bad \in BOOLEAN /\ scan.chunked \in BOOLEAN
      /\ scan.keepalive \in BOOLEAN /\ scan.length \in Int
  <2> HIDE DEF scan
  <2> QED BY <1>1 DEF Scans
<1> DEFINE malformed == \/ ~head.statusLine \/ scan.bad
                        \/ scan.te /\ (scan.length # NoLength \/ ~scan.chunked)
<1>3. PICK n \in Nat : n = Len(b)
  OBVIOUS
<1>4. <<>> \in Seq(Units) /\ Complete \in Verdicts /\ NeedMore \in Verdicts /\ Bad \in Verdicts
  BY DEF Verdicts
<1>5. ASSUME ~malformed PROVE Framed(head)
  <2>1. head.statusLine /\ ~scan.bad /\ (scan.te => scan.length = NoLength)
    BY <1>5
  <2>2. ASSUME NEW i \in DOMAIN head.lines, NEW j \in DOMAIN head.lines,
               head.lines[i].name = "Content-Length"
        PROVE  /\ head.lines[j].name = "Content-Length" => head.lines[i].num = head.lines[j].num
               /\ head.lines[j].name # "Transfer-Encoding"
    <3>1. scan.length # NoLength
      BY <1>1, <2>2 DEF HasLine
    <3>2. ~HasLine(head, "Transfer-Encoding")
      BY <1>1, <2>1, <3>1
    <3> QED BY <1>1, <2>1, <2>2, <3>2 DEF HasLine
  <2> QED BY <2>1, <2>2 DEF Framed
<1>6. CASE malformed
  <2>1. v = Undecided(Bad, b)
    BY <1>6, Zenon DEF ParseBody
  <2>2. VerdictOf(v, Len(b))
    BY <1>4, <2>1, VerdictType
  <2>3. v.rc = Bad /\ v.buf = b /\ v.rc # Complete
    BY <2>1, VerdictFields
  <2> HIDE DEF v, scan
  <2>4. ~HasLine(head, "Transfer-Encoding") => PlainVerdict(head, b, at_eof, v)
    <3> SUFFICES ASSUME ~HasLine(head, "Transfer-Encoding") PROVE PlainVerdict(head, b, at_eof, v)
      OBVIOUS
    <3>1. ~head.statusLine \/ scan.bad
      BY <1>1, <1>6
    <3> QED BY <2>3, <3>1 DEF PlainVerdict, scan
  <2> QED BY <2>2, <2>3, <2>4 DEF v
<1>7. CASE ~malformed /\ scan.te
  <2> DEFINE d == decode_chunked_in_place(b)
  <2> DEFINE c == Compact(b, d.body)
  <2>1. v = ParseChunked(b, scan.keepalive)
    BY <1>7, Zenon DEF ParseBody
  <2>2. d.rc \in Verdicts /\ d.body \in Seq(Units)
    <3>1. d \in Results
      BY DecodeType
    <3> HIDE DEF d
    <3> QED BY <3>1 DEF Results
  <2>3. c \in Seq(Units) /\ Len(c) = Len(b)
    <3> HIDE DEF d
    <3> QED BY <2>2, CompactType
  <2>4. v = Verdict(d.rc, c, d.body, scan.keepalive)
    BY <2>1 DEF ParseChunked
  <2> HIDE DEF v, c, d, scan
  <2>5. VerdictOf(v, Len(c))
    BY <1>2, <1>4, <2>2, <2>3, <2>4, VerdictType
  <2> QED BY <1>1, <1>5, <1>7, <2>3, <2>5 DEF v
<1>8. CASE ~malformed /\ ~scan.te /\ scan.length # NoLength
  <2>1. v = ParseLength(b, scan.length, scan.keepalive)
    BY <1>8, Zenon DEF ParseBody
  <2>2. PICK l \in Nat : l = scan.length
    <3>1. PICK i \in DOMAIN head.lines : head.lines[i].name = "Content-Length"
      BY <1>1, <1>8 DEF HasLine
    <3>2. head.lines[i].num \in Nat
      <4>1. head.lines \in Seq(HeaderLines)
        BY DEF ResponseHeads
      <4>2. PICK line \in HeaderLines : line = head.lines[i]
        BY <4>1
      <4>3. line.num \in Nat
        BY DEF HeaderLines
      <4> QED BY <4>2, <4>3
    <3> QED BY <1>1, <1>8, <3>1, <3>2
  <2>3. head.statusLine /\ ~scan.bad
    BY <1>8
  <2> HIDE DEF scan
  <2>4. CASE n < l
    <3>1. v = Undecided(NeedMore, b)
      BY <1>3, <2>1, <2>2, <2>4 DEF ParseLength
    <3>2. VerdictOf(v, Len(b))
      BY <1>4, <3>1, VerdictType
    <3>3. v.rc = NeedMore /\ v.buf = b /\ v.rc # Complete
      BY <3>1, VerdictFields
    <3> HIDE DEF v
    <3>4. PlainVerdict(head, b, at_eof, v)
      BY <1>3, <1>8, <2>2, <2>3, <2>4, <3>3 DEF PlainVerdict, scan
    <3> QED BY <3>2, <3>3, <3>4 DEF v
  <2>5. CASE ~ (n < l)
    <3>1. v = Verdict(Complete, b, SubSeq(b, 1, l), scan.keepalive)
      BY <1>3, <2>1, <2>2, <2>5 DEF ParseLength
    <3> HIDE DEF v
    <3>2. SubSeq(b, 1, l) \in Seq(Units)
      BY <1>3, <2>5
    <3>3. VerdictOf(v, Len(b))
      BY <1>2, <1>4, <3>1, <3>2, VerdictType
    <3>4. v.rc = Complete /\ v.buf = b /\ v.body = SubSeq(b, 1, l)
      BY <3>1, Zenon DEF Verdict
    <3>5. PlainVerdict(head, b, at_eof, v)
      BY <1>3, <1>8, <2>2, <2>3, <2>5, <3>4 DEF PlainVerdict, scan
    <3>6. Framed(head)
      BY <1>5, <1>8
    <3> QED BY <3>3, <3>4, <3>5, <3>6 DEF v
  <2> QED BY <2>4, <2>5
<1>9. CASE ~malformed /\ ~scan.te /\ scan.length = NoLength
  <2>1. v = ParseUntilEof(b, at_eof)
    BY <1>9, Zenon DEF ParseBody
  <2>2. head.statusLine /\ ~scan.bad /\ Framed(head)
    BY <1>5, <1>9
  <2> HIDE DEF scan
  <2>3. CASE ~at_eof
    <3>1. v = Undecided(NeedMore, b)
      BY <2>1, <2>3 DEF ParseUntilEof
    <3>2. VerdictOf(v, Len(b))
      BY <1>4, <3>1, VerdictType
    <3>3. v.rc = NeedMore /\ v.buf = b /\ v.rc # Complete
      BY <3>1, VerdictFields
    <3> HIDE DEF v
    <3>4. PlainVerdict(head, b, at_eof, v)
      BY <1>9, <2>2, <2>3, <3>3 DEF PlainVerdict, scan
    <3> QED BY <3>2, <3>3, <3>4 DEF v
  <2>4. CASE at_eof
    <3>1. v = Verdict(Complete, b, b, FALSE)
      BY <2>1, <2>4 DEF ParseUntilEof
    <3> HIDE DEF v
    <3>2. VerdictOf(v, Len(b))
      BY <1>4, <3>1, VerdictType
    <3>3. v.rc = Complete /\ v.buf = b /\ v.body = b /\ v.keepalive = FALSE
      BY <3>1, Zenon DEF Verdict
    <3>4. PlainVerdict(head, b, at_eof, v)
      BY <1>9, <2>2, <2>4, <3>3 DEF PlainVerdict, scan
    <3> QED BY <2>2, <3>2, <3>3, <3>4 DEF v
  <2> QED BY <2>3, <2>4
<1> QED BY <1>6, <1>7, <1>8, <1>9

\* A sequence is its first element and the others.
LEMMA HeadAndTail ==
  ASSUME NEW b \in Seq(Units), b # <<>>
  PROVE  /\ b[1] \in Units /\ Tail(b) \in Seq(Units) /\ Len(Tail(b)) = Len(b) - 1
         /\ <<b[1]>> \o Tail(b) = b
         /\ \A t \in Seq(Units) : /\ <<b[1]>> \o t \in Seq(Units)
                                  /\ Len(<<b[1]>> \o t) = Len(t) + 1
                                  /\ (<<b[1]>> \o t)[1] = b[1]
<1>1. b[1] \in Units /\ Tail(b) \in Seq(Units) /\ Len(Tail(b)) = Len(b) - 1
  OBVIOUS
<1>2. <<b[1]>> \o Tail(b) = b
  OBVIOUS
<1>3. ASSUME NEW t \in Seq(Units)
      PROVE  /\ <<b[1]>> \o t \in Seq(Units) /\ Len(<<b[1]>> \o t) = Len(t) + 1
             /\ (<<b[1]>> \o t)[1] = b[1]
  <2>1. PICK h \in Units : h = b[1]
    BY <1>1
  <2>2. <<h>> \o t \in Seq(Units) /\ Len(<<h>> \o t) = Len(t) + 1 /\ (<<h>> \o t)[1] = h
    OBVIOUS
  <2> QED BY <2>1, <2>2
<1> QED BY <1>1, <1>2, <1>3

\* The head that a buffer begins with.
LEMMA HeadType ==
  ASSUME NEW b \in Seq(Units), HeadFirst(b)
  PROVE  b[1].head \in ResponseHeads
<1>1. PICK u \in Units : u = b[1] /\ u.kind = "head"
  BY HeadAndTail DEF HeadFirst
<1>2. u \notin Octets
  BY <1>1 DEF Octets
<1>3. u \in [kind : {"head"}, head : ResponseHeads]
  BY <1>2 DEF Units
<1> QED BY <1>1, <1>3

\* try_parse_response.
LEMMA TryFacts ==
  ASSUME NEW b \in Seq(Units), NEW at_eof \in BOOLEAN
  PROVE  LET v == try_parse_response(b, at_eof) IN
         /\ VerdictOf(v, Len(b))
         /\ b # <<>> => v.buf[1] = b[1]
         /\ v.rc = Complete => HeadFirst(b) /\ Framed(b[1].head)
         /\ PlainBuf(b) => v.buf = b
         /\ PlainBuf(b) /\ HeadFirst(b) => PlainVerdict(b[1].head, Tail(b), at_eof, v)
         /\ ~HeadFirst(b) => v.rc = IF HeadEnds(b) THEN Bad ELSE NeedMore
         /\ b = <<>> => v.rc = NeedMore
<1> DEFINE v == try_parse_response(b, at_eof)
<1>1. Bad \in Verdicts /\ NeedMore \in Verdicts /\ <<>> \in Seq(Units) /\ FALSE \in BOOLEAN
  BY DEF Verdicts
<1>2. HeadFirst(b) => HeadEnds(b)
  BY DEF HeadFirst, HeadEnds
<1>3. CASE ~HeadEnds(b)
  <2>1. v = Undecided(NeedMore, b)
    BY <1>3, Zenon DEF try_parse_response, otlp_http_resp_parse
  <2>2. VerdictOf(v, Len(b))
    BY <1>1, <2>1, VerdictType
  <2>3. v.rc = NeedMore /\ v.buf = b /\ v.rc # Complete
    BY <2>1, VerdictFields
  <2> HIDE DEF v
  <2> QED BY <1>2, <1>3, <2>2, <2>3 DEF v
<1>4. CASE HeadEnds(b) /\ b[1].kind # "head"
  <2>1. v = Undecided(Bad, b)
    BY <1>4, Zenon DEF try_parse_response, otlp_http_resp_parse
  <2>2. VerdictOf(v, Len(b))
    BY <1>1, <2>1, VerdictType
  <2>3. v.rc = Bad /\ v.buf = b /\ v.rc # Complete
    BY <2>1, VerdictFields
  <2>4. b # <<>> /\ ~HeadFirst(b)
    <3>1. ~HeadEnds(<<>>)
      BY DEF HeadEnds, EmptyLine
    <3> QED BY <1>4, <3>1 DEF HeadFirst
  <2> HIDE DEF v
  <2> QED BY <1>4, <2>2, <2>3, <2>4 DEF v
<1>5. CASE HeadEnds(b) /\ b[1].kind = "head"
  <2>1. b # <<>> /\ HeadFirst(b)
    <3>1. ~HeadEnds(<<>>)
      BY DEF HeadEnds, EmptyLine
    <3> QED BY <1>5, <3>1 DEF HeadFirst
  <2>2. /\ Tail(b) \in Seq(Units) /\ Len(Tail(b)) = Len(b) - 1 /\ b[1].head \in ResponseHeads
        /\ <<b[1]>> \o Tail(b) = b
        /\ \A t \in Seq(Units) : /\ <<b[1]>> \o t \in Seq(Units)
                                 /\ Len(<<b[1]>> \o t) = Len(t) + 1
                                 /\ (<<b[1]>> \o t)[1] = b[1]
    BY <2>1, HeadAndTail, HeadType
  <2> DEFINE u == ParseBody(b[1].head, Tail(b), at_eof)
  <2>3. v = [u EXCEPT !.buf = <<b[1]>> \o u.buf]
    BY <1>5, Zenon DEF try_parse_response, otlp_http_resp_parse
  <2>4. /\ VerdictOf(u, Len(Tail(b)))
        /\ u.rc = Complete => Framed(b[1].head)
        /\ ~HasLine(b[1].head, "Transfer-Encoding") =>
             u.buf = Tail(b) /\ PlainVerdict(b[1].head, Tail(b), at_eof, u)
    <3>1. PICK h \in ResponseHeads, t \in Seq(Units) : h = b[1].head /\ t = Tail(b)
      BY <2>2
    <3>2. LET w == ParseBody(h, t, at_eof) IN
          /\ VerdictOf(w, Len(t))
          /\ w.rc = Complete => Framed(h)
          /\ ~HasLine(h, "Transfer-Encoding") => w.buf = t /\ PlainVerdict(h, t, at_eof, w)
      BY ParseFacts
    <3> QED BY <3>1, <3>2
  <2> HIDE DEF u, v
  <2>5. u \in Answered /\ Len(u.buf) = Len(b) - 1 /\ u.buf \in Seq(Units)
    BY <2>2, <2>4 DEF VerdictOf, Answered
  <2> DEFINE x == <<b[1]>> \o u.buf
  <2>6. x \in Seq(Units) /\ Len(x) = Len(b) /\ x[1] = b[1]
    <3>1. PICK t \in Seq(Units), n \in Nat : t = u.buf /\ n = Len(b) /\ Len(t) = n - 1
      BY <2>5
    <3>2. /\ <<b[1]>> \o t \in Seq(Units) /\ Len(<<b[1]>> \o t) = Len(t) + 1
          /\ (<<b[1]>> \o t)[1] = b[1]
      BY <2>2
    <3> QED BY <3>1, <3>2
  <2>7. v = [u EXCEPT !.buf = x]
    BY <2>3
  <2>10. u.buf = Tail(b) => x = b
    BY <2>2
  <2> HIDE DEF x
  <2>8. /\ v \in Answered /\ v.buf = x
        /\ v.rc = u.rc /\ v.body = u.body /\ v.keepalive = u.keepalive
    BY <2>5, <2>6, <2>7 DEF Answered
  <2>9. PlainVerdict(b[1].head, Tail(b), at_eof, u) => PlainVerdict(b[1].head, Tail(b), at_eof, v)
    BY <2>8 DEF PlainVerdict
  <2> QED BY <2>1, <2>4, <2>6, <2>8, <2>9, <2>10 DEF v, VerdictOf, PlainBuf
<1> QED BY <1>3, <1>4, <1>5

\* The end of the stream changes the verdict of a plain answer only from "more"
\* to "complete".
LEMMA TryAtEof ==
  ASSUME NEW b \in Seq(Units), PlainBuf(b)
  PROVE  try_parse_response(b, FALSE).rc # NeedMore =>
           try_parse_response(b, TRUE).rc = try_parse_response(b, FALSE).rc
<1> DEFINE v == try_parse_response(b, FALSE)
<1> DEFINE w == try_parse_response(b, TRUE)
<1>1. /\ ~HeadFirst(b) => v.rc = IF HeadEnds(b) THEN Bad ELSE NeedMore
      /\ HeadFirst(b) => PlainVerdict(b[1].head, Tail(b), FALSE, v)
  BY TryFacts
<1>2. /\ ~HeadFirst(b) => w.rc = IF HeadEnds(b) THEN Bad ELSE NeedMore
      /\ HeadFirst(b) => PlainVerdict(b[1].head, Tail(b), TRUE, w)
  BY TryFacts
<1> HIDE DEF v, w
<1>3. CASE HeadFirst(b)
  <2>1. PlainVerdict(b[1].head, Tail(b), FALSE, v) /\ PlainVerdict(b[1].head, Tail(b), TRUE, w)
    BY <1>1, <1>2, <1>3
  <2>2. v.rc # NeedMore => w.rc = v.rc
    BY <2>1, Zenon DEF PlainVerdict
  <2> QED BY <2>2 DEF v, w
<1>4. CASE ~HeadFirst(b)
  BY <1>1, <1>2, <1>4 DEF v, w
<1> QED BY <1>3, <1>4

(***************************************************************************)
(* The response buffer                                                     *)
(***************************************************************************)
\* Doubling finds room for what has arrived, and the test of the limit before
\* each doubling bounds the buffer by twice OTLP_HTTP_RESP_MAX.
LEMMA GrowthBound ==
  ASSUME cap \in Nat \ {0}, NEW need \in Nat
  PROVE  /\ Grown(need) \in Nat /\ Grown(need) >= need /\ Grown(need) >= cap
         /\ cap <= 2 * RespMax /\ ~Overflows(need) => Grown(need) <= 2 * RespMax
<1> DEFINE S == {k \in 0..need : cap * Pow2[k] >= need}
<1>0. \A n \in Nat : Pow2[n] \in Nat /\ Pow2[n] >= n + 1
  BY Pow2Positive
<1>1. \A a \in Nat \ {0}, p \in Nat : a * p \in Nat /\ a * p >= p
  OBVIOUS
<1>2. need \in S
  BY <1>0, <1>1
<1>3. PICK m \in S : \A k \in S : m <= k
  <2>1. S \subseteq Nat /\ S # {}
    BY <1>2
  <2> HIDE DEF S
  <2> QED BY <2>1, LeastElement
<1>4. \A j \in 0..(m - 1) : cap * Pow2[j] < need
  <2> SUFFICES ASSUME NEW j \in 0..(m - 1) PROVE cap * Pow2[j] < need
    OBVIOUS
  <2>1. j \in 0..need /\ ~(m <= j) /\ cap * Pow2[j] \in Nat
    BY <1>0, <1>1
  <2>2. j \notin S
    BY <1>3, <2>1
  <2> QED BY <2>1, <2>2
<1> DEFINE d == Doublings(need)
<1>5. d \in 0..need /\ cap * Pow2[d] >= need /\ \A j \in 0..(d - 1) : cap * Pow2[j] < need
  <2>1. \E k \in 0..need : cap * Pow2[k] >= need /\ \A j \in 0..(k - 1) : cap * Pow2[j] < need
    BY <1>3, <1>4
  <2> QED BY <2>1 DEF Doublings
<1>6. PICK k \in 0..need : k = d
  BY <1>5
<1>7. PICK p \in Nat : p = Pow2[k] /\ p >= 1
  BY <1>0
<1>8. PICK g \in Nat : g = cap * p /\ g >= need /\ g = Grown(need)
  BY <1>1, <1>5, <1>6, <1>7 DEF Grown
<1>9. g >= cap
  <2>1. \A a \in Nat, q \in Nat : q >= 1 => a * q >= a
    OBVIOUS
  <2> QED BY <1>7, <1>8, <2>1
<1>10. ASSUME cap <= 2 * RespMax, ~Overflows(need) PROVE g <= 2 * RespMax
  <2>1. CASE need <= cap
    <3>1. k = 0
      <4> SUFFICES ASSUME k # 0 PROVE FALSE
        OBVIOUS
      <4>1. 0 \in 0..(d - 1)
        BY <1>6
      <4>2. cap * Pow2[0] < need
        BY <1>5, <4>1
      <4>3. cap * Pow2[0] = cap
        BY Pow2Unfold
      <4> QED BY <2>1, <4>2, <4>3
    <3>2. p = 1
      BY <1>7, <3>1, Pow2Unfold
    <3> QED BY <1>8, <1>10, <3>2
  <2>2. CASE need > cap
    <3>1. k # 0
      BY <1>7, <1>8, <2>2, Pow2Unfold
    <3>2. k - 1 \in Nat /\ (k - 1) + 1 = k
      BY <3>1
    <3>3. PICK q \in Nat : q = Pow2[k - 1] /\ p = 2 * q
      BY <1>7, <3>2, Pow2Unfold
    <3>4. PICK h \in Nat : h = cap * q
      BY <1>1
    <3>5. g = 2 * h
      BY <1>8, <3>3, <3>4
    <3>6. g \div 2 = h
      BY <3>5
    <3>7. ~ (g \div 2 > RespMax)
      BY <1>8, <1>10, <2>2 DEF Overflows
    <3>8. RespMax \in Nat
      BY HttpAssumption
    <3> QED BY <3>5, <3>6, <3>7, <3>8
  <2> QED BY <2>1, <2>2
<1> QED BY <1>8, <1>9, <1>10

(***************************************************************************)
(* The invariant, action by action                                         *)
(***************************************************************************)
\* A sequence of length 0 is empty.
LEMMA NoUnits == ASSUME NEW s \in Seq(Units), Len(s) = 0 PROVE s = <<>>
OBVIOUS

\* The lengths of sequences add up.
LEMMA Concatenation ==
  ASSUME NEW s \in Seq(Units), NEW t \in Seq(Units)
  PROVE  s \o t \in Seq(Units) /\ Len(s \o t) = Len(s) + Len(t)
OBVIOUS

\* From nothing the parser asks for more.
LEMMA TryNothing == try_parse_response(<<>>, FALSE).rc = NeedMore
<1>1. <<>> \in Seq(Units) /\ FALSE \in BOOLEAN
  OBVIOUS
<1> QED BY <1>1, TryFacts

\* An answer is a head and units.
LEMMA AnswerType ==
  ASSUME answer \in Answers \cup {NoAnswer}
  PROVE  answer.head \in ResponseHeads /\ answer.units \in Seq(Units)
<1>1. NoAnswer.head \in ResponseHeads /\ NoAnswer.units \in Seq(Units)
  BY DEF NoAnswer, ResponseHeads
<1>2. ASSUME NEW a \in Answers PROVE a.head \in ResponseHeads /\ a.units \in Seq(Units)
  BY HttpAssumption
<1> QED BY <1>1, <1>2

\* Init.
LEMMA IInvInit == Init => IInv
<1> SUFFICES ASSUME Init PROVE IInv
  OBVIOUS
<1>1. Types
  <2>1. <<>> \in Seq(Units) /\ Len(<<>>) = 0
    OBVIOUS
  <2>2. {buf, body, raw, inbound, outgoing} \subseteq Seq(Units) /\ answer = NoAnswer
    BY <2>1 DEF Init
  <2>3. cap \in 0..2 * RespMax /\ Len(buf) <= cap /\ reqSent \in 0..ReqLen /\ opened \in Nat
    BY <2>1, Bounds DEF Init
  <2>4. sinceStart \in 0..ConnectTimeout /\ {sinceIo, quiet} \subseteq 0..ReadTimeout
        /\ nReq \in 0..MaxRequests
    BY Bounds DEF Init
  <2> QED BY <2>2, <2>3, <2>4 DEF Init, Types, TypeOK, Idle
<1>2. Life
  BY DEF Init, Life, Idle
<1>3. SocketOwned
  BY DEF Init, SocketOwned
<1>4. Heard /\ Accepted /\ Silent
  BY DEF Init, Heard, Accepted, Silent, Idle
<1> QED BY <1>1, <1>2, <1>3, <1>4 DEF IInv

\* A step that changes no variable.
LEMMA IInvStutter == ASSUME IInv, UNCHANGED vars PROVE IInv'
<1>1. Types'
  BY DEF IInv, Types, TypeOK, vars, req, timers, peer
<1>2. Life' /\ SocketOwned'
  BY DEF IInv, Life, SocketOwned, vars, req, timers, peer
<1>3. Heard' /\ Accepted' /\ Silent'
  BY DEF IInv, Heard, Accepted, Silent, PlainBuf, HeadFirst, vars, req, timers, peer
<1> QED BY <1>1, <1>2, <1>3 DEF IInv

\* A new request, on whichever connection.
LEMMA FreshStep ==
  ASSUME IInv, NEW s \in {"CONNECTING", "SENDING"}, Fresh(s),
         conn' \in {"none", "pending", "up", "reset"}, answer' = NoAnswer,
         kept' = FALSE, {canWrite', fin', stale'} \subseteq BOOLEAN,
         {inbound', outgoing'} \subseteq Seq(Units), fin' => outgoing' = <<>>,
         opened' = IF kept THEN opened ELSE opened + 1
  PROVE  IInv'
<1>0. Types /\ Life /\ SocketOwned /\ state = Idle /\ state' = s /\ raw' = raw /\ buf' = buf
  BY DEF IInv, Fresh
<1>1. Types'
  <2>1. nReq' \in 0..MaxRequests /\ sinceStart' \in 0..ConnectTimeout
        /\ {sinceIo', quiet'} \subseteq 0..ReadTimeout
    <3>1. nReq' = nReq + 1 /\ nReq < MaxRequests /\ sinceStart' = 0 /\ sinceIo' = 0 /\ quiet' = 0
      BY DEF Fresh
    <3>2. nReq \in 0..MaxRequests
      BY <1>0 DEF Types, TypeOK
    <3> QED BY <3>1, <3>2, Bounds
  <2>2. {sock', keepaliveEligible', kept', canWrite', fin', stale'} \subseteq BOOLEAN
    BY <1>0 DEF Types, TypeOK, Fresh
  <2>3. {buf', body', raw', inbound', outgoing'} \subseteq Seq(Units)
    BY <1>0 DEF Types, Fresh
  <2>4. opened' \in Nat
    BY <1>0 DEF Types, TypeOK
  <2>5. UNCHANGED <<reqSent, cap, buf, why>>
    BY DEF Fresh
  <2> QED BY <1>0, <2>1, <2>2, <2>3, <2>4, <2>5 DEF Types, TypeOK
<1>2. Life'
  BY <1>0 DEF Life, Fresh, Idle
<1>3. SocketOwned'
  <2>1. ~sock /\ sock' /\ kept \in BOOLEAN /\ opened \in Nat
    BY <1>0 DEF Life, Types, TypeOK, Fresh
  <2> QED BY <1>0, <2>1 DEF SocketOwned
<1>4. Heard' /\ Accepted' /\ Silent'
  <2>1. state' \in {"CONNECTING", "SENDING"} /\ why' = "none" /\ sinceIo' = 0 /\ quiet' = 0
    BY <1>0 DEF Life, Fresh, Idle
  <2>2. state' \notin {"READING", "DONE"} /\ why' # "invalid"
    BY <2>1
  <2>3. Heard' /\ Accepted'
    BY <2>2 DEF Heard, Accepted
  <2>4. Silent'
    BY <2>1 DEF Silent
  <2> QED BY <2>3, <2>4
<1> QED BY <1>1, <1>2, <1>3, <1>4 DEF IInv

\* otlp_http_request_start, otlp_http_request_start_with_socket.
LEMMA StartSteps == ASSUME IInv, StartConnect \/ StartDonated PROVE IInv'
<1>0. Types /\ Life
  BY DEF IInv
<1>1. CASE StartConnect
  <2>1. <<>> \in Seq(Units)
    OBVIOUS
  <2>2. ~kept /\ kept' = FALSE
    BY <1>0, <1>1 DEF StartConnect, Types, TypeOK
  <2> QED BY <1>1, <2>1, <2>2, FreshStep DEF StartConnect
<1>2. CASE StartDonated
  <2>1. stale' \in BOOLEAN /\ canWrite' \in BOOLEAN /\ fin' \in BOOLEAN
        /\ conn' \in {"none", "pending", "up", "reset"}
        /\ {inbound', outgoing'} \subseteq Seq(Units) /\ (fin' => outgoing' = <<>>)
    BY <1>0, <1>2 DEF StartDonated, Types, TypeOK, Life
  <2> QED BY <1>2, <2>1, FreshStep DEF StartDonated
<1> QED BY <1>1, <1>2

\* A step that fails, or goes on, without having read anything.
LEMMA QuietStep ==
  ASSUME IInv, StepLocals, UNCHANGED <<buf, body, raw>>, Active,
         reqSent' \in 0..ReqLen, UNCHANGED sinceStart,
         UNCHANGED <<status, keepaliveEligible>>,
         UNCHANGED <<sinceIo, quiet>> \/ (sinceIo' = 0 /\ quiet' = 0),
         \/ /\ state' = "FAILED" /\ why' \in {"reset", "timeout", "memory"}
            /\ UNCHANGED cap
         \/ /\ state = "CONNECTING" /\ state' = "SENDING" /\ sinceIo' = 0 /\ UNCHANGED <<why, cap>>
         \/ /\ state = "SENDING" /\ state' = "SENDING" /\ UNCHANGED <<why, cap>>
         \/ /\ state = "SENDING" /\ state' = "READING" /\ UNCHANGED why /\ cap' = InitCap
  PROVE  IInv'
<1>0. Types /\ Life /\ SocketOwned /\ Heard /\ Silent /\ state # Idle /\ Active
  BY DEF IInv, Active, Idle
<1>1. Types'
  <2>1. cap' \in 0..2 * RespMax /\ Len(buf') <= cap'
    <3>1. CASE cap' = cap
      BY <1>0, <3>1 DEF Types, TypeOK
    <3>2. CASE cap' = InitCap /\ state = "SENDING"
      <4>1. buf' = <<>>
        BY <1>0, <3>2 DEF Life
      <4> QED BY <3>2, <4>1, Bounds
    <3> QED BY <3>1, <3>2
  <2>2. {sinceIo', quiet'} \subseteq 0..ReadTimeout
    BY <1>0, Bounds DEF Types, TypeOK
  <2> QED BY <1>0, <2>1, <2>2 DEF Types, TypeOK, StepLocals, peer
<1>2. Life'
  BY <1>0, Bounds DEF Life, Active, StepLocals, peer, Idle
<1>3. SocketOwned'
  BY <1>0 DEF SocketOwned, StepLocals
<1>4. Heard'
  <2>1. (raw' = <<>> /\ buf' = raw') \/ state' # "READING"
    BY <1>0 DEF Life
  <2> QED BY <1>0, <2>1, TryNothing DEF Heard, Life, StepLocals, peer
<1>5. Accepted'
  BY DEF Accepted
<1>6. Silent'
  <2>1. sinceIo \in Nat /\ quiet \in Nat /\ inbound' = inbound
    BY <1>0, Bounds DEF Types, TypeOK, StepLocals, peer
  <2>2. CASE sinceIo' = 0 /\ quiet' \in Nat
    BY <2>2 DEF Silent
  <2>3. CASE UNCHANGED <<sinceIo, quiet>> /\ state \in {"SENDING", "READING"}
    BY <1>0, <2>1, <2>3 DEF Silent
  <2>4. CASE state' = "FAILED"
    BY <2>4 DEF Silent
  <2> QED BY <2>1, <2>2, <2>3, <2>4
<1> QED BY <1>1, <1>2, <1>3, <1>4, <1>5, <1>6 DEF IInv

\* The steps that read nothing: connecting, sending, errors and timeouts.
LEMMA QuietSteps ==
  ASSUME IInv,
         \/ StepConnected \/ StepConnectTimeout \/ StepError \/ StepSend \/ StepNoMemory
         \/ StepSendTimeout \/ StepReadTimeout
  PROVE  IInv'
<1>0. reqSent \in 0..ReqLen /\ ReqLen \in Nat
  BY Bounds DEF IInv, Types, TypeOK
<1>1. CASE StepConnected
  BY <1>0, <1>1, QuietStep DEF StepConnected, Active
<1>2. CASE StepConnectTimeout
  BY <1>0, <1>2, QuietStep DEF StepConnectTimeout, Active, Fail, timers
<1>3. CASE StepError
  BY <1>0, <1>3, QuietStep DEF StepError, Active, Fail, timers
<1>4. CASE StepSend
  <2>1. PICK n \in 1..(ReqLen - reqSent) :
          /\ reqSent' = reqSent + n
          /\ IF reqSent' = ReqLen THEN state' = "READING" /\ cap' = InitCap
                                  ELSE UNCHANGED <<state, cap>>
    BY <1>4 DEF StepSend
  <2>2. reqSent' \in 0..ReqLen
    BY <1>0, <2>1
  <2> QED BY <1>0, <1>4, <2>1, <2>2, QuietStep DEF StepSend, Active
<1>5. CASE StepNoMemory
  <2>1. reqSent' \in 0..ReqLen
    BY <1>0, <1>5 DEF StepNoMemory
  <2> QED BY <1>0, <1>5, <2>1, QuietStep DEF StepNoMemory, Active, Fail
<1>6. CASE StepSendTimeout
  BY <1>0, <1>6, QuietStep DEF StepSendTimeout, Active, Fail, timers
<1>7. CASE StepReadTimeout
  BY <1>0, <1>7, QuietStep DEF StepReadTimeout, Active, Fail, timers
<1> QED BY <1>1, <1>2, <1>3, <1>4, <1>5, <1>6, <1>7

\* What a verdict must be for the request to take it up: it is about a buffer
\* that is as long and begins like what was read by then, and unless that is an
\* answer in a transfer coding it is the verdict on all of it.
Judges(v) ==
  /\ VerdictOf(v, Len(raw'))
  /\ raw' # <<>> => v.buf[1] = raw'[1]
  /\ v.rc = Complete => HeadFirst(raw') /\ Framed(raw'[1].head)
  /\ PlainBuf(raw') =>
       /\ v.buf = raw'
       /\ v.rc = NeedMore => try_parse_response(raw', FALSE).rc = NeedMore
       /\ v.rc = Complete =>
            \/ v = try_parse_response(raw', FALSE)
            \/ fin /\ inbound' = <<>> /\ v = try_parse_response(raw', TRUE)
       /\ v.rc = Bad =>
            \/ try_parse_response(raw', FALSE).rc = Bad
            \/ /\ fin /\ inbound' = <<>>
               /\ try_parse_response(raw', TRUE).rc # Complete

\* A verdict is taken up.
LEMMA ConcludeStep ==
  ASSUME IInv, state = "READING", NEW v, Judges(v), Conclude(v),
         cap' \in 1..2 * RespMax, Len(raw') <= cap',
         raw' \in Seq(Units), inbound' \in Seq(Units),
         UNCHANGED <<sinceIo, inbound>> \/ sinceIo' = 0,
         UNCHANGED <<reqSent, sinceStart, quiet, sock, kept, conn, canWrite, answer, outgoing,
                     fin, nReq, opened, stale>>
  PROVE  IInv'
<1>0. Types /\ Life /\ SocketOwned /\ Silent /\ why = "none"
  BY DEF IInv, Life
<1>1. /\ v.rc \in Verdicts /\ v.body \in Seq(Units) /\ v.keepalive \in BOOLEAN
      /\ v.buf \in Seq(Units) /\ Len(v.buf) = Len(raw') /\ buf' = v.buf
  BY DEF Judges, VerdictOf, Answered, Conclude
<1>2. \/ /\ v.rc = NeedMore /\ state' = "READING" /\ why' = "none"
         /\ UNCHANGED <<body, keepaliveEligible>>
      \/ /\ v.rc = Bad /\ state' = "FAILED" /\ why' = "invalid"
         /\ UNCHANGED <<body, keepaliveEligible>>
      \/ /\ v.rc = Complete /\ state' = "DONE" /\ why' = "none"
         /\ status' = v.buf[1].head.status
         /\ body' = v.body /\ keepaliveEligible' = v.keepalive
  BY <1>0 DEF Conclude, Fail
<1>3. body' \in Seq(Units) /\ keepaliveEligible' \in BOOLEAN
  BY <1>0, <1>1, <1>2 DEF Types, TypeOK
<1>4. Types'
  <2>1. {buf', body', raw', inbound', outgoing'} \subseteq Seq(Units)
    BY <1>0, <1>1, <1>3 DEF Types
  <2>2. {sock', keepaliveEligible', kept', canWrite', fin', stale'} \subseteq BOOLEAN
    BY <1>0, <1>3 DEF Types, TypeOK
  <2>3. cap' \in 0..2 * RespMax /\ Len(buf') <= cap'
    BY <1>1, Bounds
  <2>4. sinceIo' \in 0..ReadTimeout
    <3>1. sinceIo \in 0..ReadTimeout /\ 0 \in 0..ReadTimeout
      BY <1>0, Bounds DEF Types, TypeOK
    <3> QED BY <3>1
  <2> QED BY <1>0, <1>2, <2>1, <2>2, <2>3, <2>4 DEF Types, TypeOK
<1>5. Life'
  BY <1>0, <1>2, Bounds DEF Life, Idle
<1>6. SocketOwned'
  BY <1>0 DEF SocketOwned
<1>7. Heard'
  <2>1. Len(buf') = Len(raw') /\ (raw' # <<>> => buf'[1] = raw'[1])
    BY <1>1 DEF Judges
  <2> SUFFICES ASSUME PlainBuf(raw') PROVE Heard'
    BY <2>1 DEF Heard
  <2>2. CASE v.rc = NeedMore /\ state' = "READING" /\ why' = "none"
    BY <1>1, <2>1, <2>2 DEF Heard, Judges
  <2>3. CASE v.rc = Bad /\ state' = "FAILED" /\ why' = "invalid"
    BY <1>1, <2>3 DEF Heard, Judges
  <2>4. CASE v.rc = Complete /\ state' = "DONE" /\ why' = "none"
    <3>1. \/ v = try_parse_response(raw', FALSE)
          \/ fin /\ inbound' = <<>> /\ v = try_parse_response(raw', TRUE)
      BY <2>4 DEF Judges
    <3> QED BY <2>4, <3>1 DEF Heard
  <2> QED BY <1>2, <2>2, <2>3, <2>4
<1>8. Accepted'
  <2> SUFFICES ASSUME state' = "DONE"
               PROVE  /\ HeadFirst(raw') /\ status' = raw'[1].head.status
                      /\ Framed(raw'[1].head)
    BY DEF Accepted
  <2>1. v.rc = Complete /\ status' = v.buf[1].head.status
    BY <1>2
  <2>2. HeadFirst(raw') /\ Framed(raw'[1].head) /\ v.buf[1] = raw'[1]
    BY <2>1 DEF Judges, HeadFirst
  <2> QED BY <2>1, <2>2
<1>9. Silent'
  <2>1. {sinceIo, quiet} \subseteq Nat
    BY <1>0, Bounds DEF Types, TypeOK
  <2> QED BY <1>0, <2>1 DEF Silent
<1> QED BY <1>4, <1>5, <1>6, <1>7, <1>8, <1>9 DEF IInv

\* recv() returns n octets: either the request fails for want of room, or the
\* verdict is taken up.
LEMMA ReadVerdict ==
  ASSUME IInv, StepRead
  PROVE  \E n \in 1..Len(inbound) :
           /\ inbound' = SubSeq(inbound, n + 1, Len(inbound))
           /\ raw' = raw \o SubSeq(inbound, 1, n)
           /\ raw' \in Seq(Units) /\ inbound' \in Seq(Units)
           /\ \/ /\ \E v : Judges(v) /\ Conclude(v)
                 /\ cap' \in 1..2 * RespMax /\ Len(raw') <= cap' /\ sinceIo' = 0
              \/ /\ state' = "FAILED" /\ why' \in {"overflow", "memory"}
                 /\ UNCHANGED <<buf, cap, status, body, keepaliveEligible, sinceIo>>
<1>0. Types /\ Life /\ Heard /\ state = "READING"
  BY DEF IInv, StepRead
<1>1. /\ buf \in Seq(Units) /\ raw \in Seq(Units) /\ inbound \in Seq(Units)
      /\ Len(buf) = Len(raw) /\ cap \in 1..2 * RespMax
  BY <1>0, Bounds DEF Types, TypeOK, Life, Heard
<1>2. PICK n \in 1..Len(inbound) :
        LET b == buf \o SubSeq(inbound, 1, n) IN
        /\ inbound' = SubSeq(inbound, n + 1, Len(inbound))
        /\ raw' = raw \o SubSeq(inbound, 1, n)
        /\ \/ ~Overflows(Len(b))
              /\ cap' = Grown(Len(b)) /\ sinceIo' = 0
              /\ \E v \in {try_parse_response(b, FALSE)} : Conclude(v)
           \/ /\ Len(b) > cap
              /\ Fail(IF Overflows(Len(b)) THEN "overflow" ELSE "memory")
              /\ UNCHANGED <<buf, cap, status, body, keepaliveEligible, sinceIo>>
  BY DEF StepRead
<1> DEFINE piece == SubSeq(inbound, 1, n)
<1> DEFINE b == buf \o piece
<1>3. piece \in Seq(Units) /\ Len(piece) = n
  BY <1>1
<1>4. inbound' \in Seq(Units)
  BY <1>1, <1>2
<1>5. raw' = raw \o piece
  BY <1>2
<1>6. /\ b \in Seq(Units) /\ raw' \in Seq(Units) /\ b # <<>> /\ raw' # <<>>
      /\ Len(b) \in Nat /\ Len(b) = Len(raw') /\ b[1] = raw'[1]
      /\ buf = raw => b = raw'
  <2> HIDE DEF piece
  <2>1. PICK p \in Seq(Units) : p = piece /\ Len(p) = n /\ n >= 1
    BY <1>3
  <2>2. PICK r \in Seq(Units), u \in Seq(Units), m \in Nat :
          r = raw /\ u = buf /\ m = Len(r) /\ m = Len(u)
    BY <1>1
  <2>3. /\ u \o p \in Seq(Units) /\ Len(u \o p) = m + n
        /\ r \o p \in Seq(Units) /\ Len(r \o p) = m + n
    <3>1. u \o p \in Seq(Units) /\ Len(u \o p) = Len(u) + Len(p)
      BY Concatenation
    <3>2. r \o p \in Seq(Units) /\ Len(r \o p) = Len(r) + Len(p)
      BY Concatenation
    <3> QED BY <2>1, <2>2, <3>1, <3>2
  <2>4. u \o p # <<>> /\ r \o p # <<>>
    BY <2>1, <2>2, <2>3
  <2>5. (u \o p)[1] = (r \o p)[1]
    <3>1. CASE m = 0
      <4>1. u = <<>> /\ r = <<>>
        BY <2>2, <3>1, NoUnits
      <4> QED BY <4>1
    <3>2. CASE m > 0
      <4>1. u[1] = r[1]
        <5>1. raw # <<>>
          <6>1. Len(<<>>) = 0
            OBVIOUS
          <6>2. Len(raw) > 0
            BY <2>2, <3>2
          <6> QED BY <6>1, <6>2
        <5> QED BY <1>0, <2>2, <5>1 DEF Heard
      <4>2. \A x \in Seq(Units) : Len(x) > 0 => (x \o p)[1] = x[1]
        OBVIOUS
      <4> QED BY <2>2, <3>2, <4>1, <4>2
    <3>3. m = 0 \/ m > 0
      OBVIOUS
    <3> QED BY <3>1, <3>2, <3>3
  <2> QED BY <1>5, <2>1, <2>2, <2>3, <2>4, <2>5
<1> HIDE DEF b
<1>7. ASSUME PlainBuf(raw') PROVE b = raw'
  <2>1. CASE raw = <<>>
    <3>1. Len(buf) = 0
      BY <1>1, <2>1
    <3>2. buf = <<>>
      BY <1>1, <3>1, NoUnits
    <3> QED BY <1>6, <2>1, <3>2
  <2>2. CASE raw # <<>>
    <3>1. raw'[1] = raw[1]
      <4> HIDE DEF piece
      <4>1. PICK p \in Seq(Units), r \in Seq(Units) : p = piece /\ r = raw /\ r # <<>>
        BY <1>1, <1>3, <2>2
      <4>2. (r \o p)[1] = r[1]
        BY <4>1
      <4> QED BY <1>5, <4>1, <4>2
    <3>2. PlainBuf(raw)
      BY <1>6, <1>7, <2>2, <3>1 DEF PlainBuf, HeadFirst
    <3>3. buf = raw
      BY <1>0, <3>2 DEF Heard
    <3> QED BY <1>6, <3>3
  <2> QED BY <2>1, <2>2
<1>8. CASE /\ ~Overflows(Len(b)) /\ cap' = Grown(Len(b)) /\ sinceIo' = 0
           /\ \E v \in {try_parse_response(b, FALSE)} : Conclude(v)
  <2>1. cap' \in 1..2 * RespMax /\ Len(raw') <= cap'
    <3>1. PICK m \in Nat : m = Len(b) /\ m = Len(raw')
      BY <1>6
    <3>2. cap' \in Nat /\ cap' >= m /\ cap' >= cap /\ cap' <= 2 * RespMax
      BY <1>1, <1>8, <3>1, Bounds, GrowthBound
    <3> QED BY <1>1, <3>1, <3>2, Bounds
  <2> DEFINE v == try_parse_response(b, FALSE)
  <2>2. /\ VerdictOf(v, Len(b))
        /\ v.buf[1] = b[1]
        /\ v.rc = Complete => HeadFirst(b) /\ Framed(b[1].head)
        /\ PlainBuf(b) => v.buf = b
    BY <1>6, TryFacts
  <2>3. PlainBuf(raw') => b = raw' /\ v = try_parse_response(raw', FALSE) /\ PlainBuf(b)
    BY <1>7
  <2>4. Conclude(v)
    BY <1>8
  <2> HIDE DEF v
  <2>5. Judges(v)
    BY <1>6, <2>2, <2>3 DEF Judges, HeadFirst
  <2> QED BY <1>2, <1>4, <1>6, <1>8, <2>1, <2>4, <2>5
<1>9. CASE /\ Fail(IF Overflows(Len(b)) THEN "overflow" ELSE "memory")
           /\ UNCHANGED <<buf, cap, status, body, keepaliveEligible, sinceIo>>
  <2>1. state' = "FAILED" /\ why' \in {"overflow", "memory"}
    BY <1>9 DEF Fail
  <2> QED BY <1>2, <1>4, <1>6, <1>9, <2>1
<1>10. \/ /\ ~Overflows(Len(b)) /\ cap' = Grown(Len(b)) /\ sinceIo' = 0
          /\ \E v \in {try_parse_response(b, FALSE)} : Conclude(v)
       \/ /\ Fail(IF Overflows(Len(b)) THEN "overflow" ELSE "memory")
          /\ UNCHANGED <<buf, cap, status, body, keepaliveEligible, sinceIo>>
  BY <1>2 DEF b
<1> QED BY <1>8, <1>9, <1>10

\* recv() returns octets.
LEMMA ReadStep == ASSUME IInv, StepRead PROVE IInv'
<1>0. Types /\ Life /\ SocketOwned /\ state = "READING" /\ why = "none"
  BY DEF IInv, Life, StepRead
<1>1. UNCHANGED <<reqSent, sinceStart, quiet, sock, kept, conn, canWrite, answer, outgoing,
                  fin, nReq, opened, stale>>
  BY DEF StepRead
<1>2. /\ raw' \in Seq(Units) /\ inbound' \in Seq(Units)
      /\ \/ /\ \E v : Judges(v) /\ Conclude(v)
            /\ cap' \in 1..2 * RespMax /\ Len(raw') <= cap' /\ sinceIo' = 0
         \/ /\ state' = "FAILED" /\ why' \in {"overflow", "memory"}
            /\ UNCHANGED <<buf, cap, status, body, keepaliveEligible, sinceIo>>
  BY ReadVerdict
<1>3. CASE /\ \E v : Judges(v) /\ Conclude(v)
           /\ cap' \in 1..2 * RespMax /\ Len(raw') <= cap' /\ sinceIo' = 0
  <2>1. PICK v : Judges(v) /\ Conclude(v)
    BY <1>3
  <2> QED BY <1>0, <1>1, <1>2, <1>3, <2>1, ConcludeStep
<1>4. CASE /\ state' = "FAILED" /\ why' \in {"overflow", "memory"}
           /\ UNCHANGED <<buf, cap, status, body, keepaliveEligible, sinceIo>>
  <2>1. Types'
    <3>1. {buf', body', raw', inbound', outgoing'} \subseteq Seq(Units)
      BY <1>0, <1>1, <1>2, <1>4 DEF Types
    <3> QED BY <1>0, <1>1, <1>4, <3>1 DEF Types, TypeOK
  <2>2. Life'
    BY <1>0, <1>1, <1>4 DEF Life, Idle
  <2>3. SocketOwned'
    BY <1>0, <1>1 DEF SocketOwned
  <2>4. Heard' /\ Accepted' /\ Silent'
    BY <1>4 DEF Heard, Accepted, Silent
  <2> QED BY <2>1, <2>2, <2>3, <2>4 DEF IInv
<1> QED BY <1>2, <1>3, <1>4

\* recv() returns 0: the verdict is final.
LEMMA EofVerdict ==
  ASSUME IInv, StepReadEof
  PROVE  \E u : Conclude(u) /\ Judges(u)
<1>0. Types /\ Life /\ Heard /\ state = "READING" /\ fin /\ inbound = <<>>
  BY DEF IInv, StepReadEof
<1>1. /\ buf \in Seq(Units) /\ raw \in Seq(Units) /\ Len(buf) = Len(raw)
      /\ raw # <<>> => buf # <<>> /\ buf[1] = raw[1]
  <2>1. buf \in Seq(Units) /\ raw \in Seq(Units) /\ Len(buf) = Len(raw)
        /\ (raw # <<>> => buf[1] = raw[1])
    BY <1>0 DEF Types, Heard
  <2>2. buf = <<>> => raw = <<>>
    BY <2>1, NoUnits
  <2> QED BY <2>1, <2>2
<1>2. raw' = raw /\ inbound' = <<>>
  BY <1>0 DEF StepReadEof, StepLocals, peer
<1> DEFINE v == try_parse_response(buf, FALSE)
<1> DEFINE w == try_parse_response(v.buf, TRUE)
<1> DEFINE u == IF v.rc # NeedMore THEN v ELSE IF w.rc = Complete THEN w ELSE Undecided(Bad, w.buf)
<1>3. Conclude(u)
  BY DEF StepReadEof
<1>4. /\ VerdictOf(v, Len(buf))
      /\ buf # <<>> => v.buf[1] = buf[1]
      /\ v.rc = Complete => HeadFirst(buf) /\ Framed(buf[1].head)
      /\ PlainBuf(buf) => v.buf = buf
  BY <1>1, TryFacts
<1>5. ASSUME PlainBuf(raw) PROVE v.rc = NeedMore /\ w = try_parse_response(raw, TRUE) /\ v.buf = raw
  <2>1. buf = raw /\ v.rc = NeedMore
    BY <1>0, <1>5 DEF Heard
  <2>2. v.buf = raw
    BY <1>4, <1>5, <2>1
  <2> QED BY <2>1, <2>2
<1> HIDE DEF v
<1>6. v.buf \in Seq(Units) /\ Len(v.buf) = Len(raw) /\ v \in Answered
      /\ (raw # <<>> => v.buf[1] = raw[1])
  BY <1>1, <1>4 DEF VerdictOf, Answered
<1>7. /\ VerdictOf(w, Len(raw))
      /\ raw # <<>> => w.buf[1] = raw[1]
      /\ w.rc = Complete => HeadFirst(v.buf) /\ Framed(v.buf[1].head)
      /\ PlainBuf(v.buf) => w.buf = v.buf
  <2>1. PICK b \in Seq(Units) : b = v.buf
    BY <1>6
  <2>2. LET x == try_parse_response(b, TRUE) IN
        /\ VerdictOf(x, Len(b))
        /\ b # <<>> => x.buf[1] = b[1]
        /\ x.rc = Complete => HeadFirst(b) /\ Framed(b[1].head)
        /\ PlainBuf(b) => x.buf = b
    BY TryFacts
  <2>3. raw # <<>> => b # <<>>
    <3>1. b = <<>> => Len(raw) = 0
      BY <1>6, <2>1
    <3> QED BY <1>1, <3>1, NoUnits
  <2> QED BY <1>6, <2>1, <2>2, <2>3
<1> HIDE DEF w
<1>8. HeadFirst(buf) \/ HeadFirst(v.buf) => raw # <<>>
  <2>1. raw = <<>> => Len(buf) = 0 /\ Len(v.buf) = 0
    BY <1>1, <1>6
  <2>2. raw = <<>> => buf = <<>> /\ v.buf = <<>>
    BY <1>1, <1>6, <2>1, NoUnits
  <2> QED BY <2>2 DEF HeadFirst
<1>9. Judges(u)
  <2>0. Complete # NeedMore /\ Complete # Bad /\ NeedMore # Bad
    BY VerdictFields
  <2>1. CASE v.rc # NeedMore
    <3>1. u = v /\ ~PlainBuf(raw)
      BY <1>5, <2>1
    <3>2. VerdictOf(v, Len(raw))
      BY <1>1, <1>4
    <3>3. v.rc = Complete => HeadFirst(raw) /\ Framed(raw[1].head)
      BY <1>1, <1>4, <1>8 DEF HeadFirst
    <3> QED BY <1>2, <1>6, <3>1, <3>2, <3>3 DEF Judges
  <2>2. CASE v.rc = NeedMore /\ w.rc = Complete
    <3>1. u = w
      BY <2>2
    <3> HIDE DEF u
    <3>2. HeadFirst(raw) /\ Framed(raw[1].head)
      BY <1>6, <1>7, <1>8, <2>2 DEF HeadFirst
    <3>3. PlainBuf(raw) => w = try_parse_response(raw, TRUE) /\ w.buf = raw
      BY <1>5, <1>7
    <3> QED BY <1>0, <1>2, <1>7, <2>0, <2>2, <3>1, <3>2, <3>3 DEF Judges
  <2>3. CASE v.rc = NeedMore /\ w.rc # Complete
    <3>1. u = Undecided(Bad, w.buf)
      BY <2>3
    <3> HIDE DEF u
    <3>2. w.buf \in Seq(Units) /\ Len(w.buf) = Len(raw)
      BY <1>7 DEF VerdictOf, Answered
    <3>3. VerdictOf(u, Len(raw))
      <4>1. Bad \in Verdicts
        BY DEF Verdicts
      <4> QED BY <3>1, <3>2, <4>1, VerdictType
    <3>4. u.rc = Bad /\ u.buf = w.buf
      BY <3>1, VerdictFields
    <3>5. PlainBuf(raw) => try_parse_response(raw, TRUE).rc # Complete /\ w.buf = raw
      BY <1>5, <1>7, <2>3
    <3> QED BY <1>0, <1>2, <1>7, <2>0, <3>3, <3>4, <3>5 DEF Judges
  <2> QED BY <2>1, <2>2, <2>3
<1> QED BY <1>3, <1>9

\* recv() returns 0.
LEMMA EofStep == ASSUME IInv, StepReadEof PROVE IInv'
<1>0. Types /\ Life /\ Heard /\ state = "READING"
  BY DEF IInv, StepReadEof
<1>1. /\ raw \in Seq(Units) /\ inbound \in Seq(Units)
      /\ Len(raw) <= cap /\ cap \in 1..2 * RespMax
  BY <1>0, Bounds DEF Types, TypeOK, Life, Heard
<1>2. UNCHANGED <<reqSent, sinceStart, sinceIo, quiet, cap, raw, inbound, sock, kept, conn,
                  canWrite, answer, outgoing, fin, nReq, opened, stale>>
  BY DEF StepReadEof, StepLocals, timers, peer
<1>3. PICK u : Conclude(u) /\ Judges(u)
  BY EofVerdict
<1>4. raw' = raw /\ cap' = cap /\ inbound' = inbound
  BY <1>2
<1> QED BY <1>0, <1>1, <1>2, <1>3, <1>4, ConcludeStep

\* The exporter frees the request.
LEMMA ReleaseStep == ASSUME IInv, Release PROVE IInv'
<1>0. Types /\ Life /\ SocketOwned /\ state \in {"DONE", "FAILED"}
  BY DEF IInv, Release
<1>1. /\ state' = Idle /\ sock' = FALSE /\ reqSent' = 0 /\ buf' = <<>> /\ cap' = 0
      /\ body' = <<>> /\ keepaliveEligible' = FALSE
      /\ sinceStart' = 0 /\ sinceIo' = 0 /\ quiet' = 0
      /\ why' = "none" /\ raw' = <<>> /\ UNCHANGED <<canWrite, answer, nReq, stale>>
      /\ kept' = Keeps /\ CloseUnless(Keeps)
  BY DEF Release
<1>2. sock /\ ~kept /\ opened = 1
  BY <1>0 DEF Types, TypeOK, Life, SocketOwned, Idle
<1>3. Keeps \in BOOLEAN
  BY DEF Keeps, otlp_http_request_detach_socket
<1>4. /\ opened' = (IF Keeps THEN 1 ELSE 0)
      /\ conn' \in {conn, "none"} /\ fin' \in BOOLEAN /\ (fin' => outgoing' = <<>>)
      /\ inbound' \in {inbound, <<>>} /\ outgoing' \in {outgoing, <<>>}
  <2>1. fin \in BOOLEAN /\ (fin => outgoing = <<>>)
    BY <1>0 DEF Types, TypeOK, Life
  <2>2. CASE Keeps
    <3>1. UNCHANGED <<opened, conn, inbound, outgoing, fin>>
      BY <1>1, <2>2 DEF CloseUnless
    <3> QED BY <1>2, <2>1, <2>2, <3>1
  <2>3. CASE ~Keeps
    <3>1. opened' = opened - 1 /\ conn' = "none" /\ inbound' = <<>> /\ outgoing' = <<>> /\ fin' = FALSE
      BY <1>1, <2>3 DEF CloseUnless
    <3>2. opened' = (IF Keeps THEN 1 ELSE 0)
      BY <1>2, <2>3, <3>1
    <3>3. fin' \in BOOLEAN
      BY <3>1, Zenon
    <3> QED BY <3>1, <3>2, <3>3, Zenon
  <2> QED BY <1>3, <2>2, <2>3
<1>5. Types'
  <2>1. <<>> \in Seq(Units) /\ Len(<<>>) = 0
    OBVIOUS
  <2>2. {buf', body', raw', inbound', outgoing'} \subseteq Seq(Units)
    BY <1>0, <1>1, <1>4, <2>1 DEF Types
  <2>3. {sock', keepaliveEligible', kept', canWrite', fin', stale'} \subseteq BOOLEAN
    BY <1>0, <1>1, <1>3, <1>4 DEF Types, TypeOK
  <2>4. cap' \in 0..2 * RespMax /\ Len(buf') <= cap' /\ reqSent' \in 0..ReqLen /\ opened' \in Nat
        /\ sinceStart' \in 0..ConnectTimeout /\ {sinceIo', quiet'} \subseteq 0..ReadTimeout
    BY <1>1, <1>3, <1>4, <2>1, Bounds
  <2>5. conn' \in {"none", "pending", "up", "reset"} /\ nReq' \in 0..MaxRequests
        /\ answer' \in Answers \cup {NoAnswer}
    BY <1>0, <1>1, <1>4 DEF Types, TypeOK
  <2> QED BY <1>1, <2>2, <2>3, <2>4, <2>5 DEF Types, TypeOK
<1>6. Life'
  BY <1>1, <1>4 DEF Life, Idle
<1>7. SocketOwned'
  BY <1>1, <1>3, <1>4 DEF SocketOwned
<1>8. Heard' /\ Accepted' /\ Silent'
  BY <1>1 DEF Heard, Accepted, Silent, Idle
<1> QED BY <1>5, <1>6, <1>7, <1>8 DEF IInv

\* otlp_exporter_free.
LEMMA CloseKeptStep == ASSUME IInv, CloseKept PROVE IInv'
<1>0. Types /\ Life /\ SocketOwned /\ state = Idle /\ kept
  BY DEF IInv, CloseKept
<1>1. /\ kept' = FALSE /\ opened' = opened - 1 /\ conn' = "none"
      /\ inbound' = <<>> /\ outgoing' = <<>> /\ fin' = FALSE
      /\ UNCHANGED <<state, sock, reqSent, buf, cap, status, body, keepaliveEligible>>
      /\ UNCHANGED <<sinceStart, sinceIo, quiet, canWrite, answer, nReq, why, raw, stale>>
  BY DEF CloseKept, CloseUnless, req, timers
<1>2. ~sock /\ opened = 1
  BY <1>0 DEF Types, TypeOK, Life, SocketOwned, Idle
<1>3. Types'
  <2>1. <<>> \in Seq(Units)
    OBVIOUS
  <2>2. {buf', body', raw', inbound', outgoing'} \subseteq Seq(Units)
    BY <1>0, <1>1, <2>1 DEF Types
  <2>3. {sock', keepaliveEligible', kept', canWrite', fin', stale'} \subseteq BOOLEAN
    BY <1>0, <1>1 DEF Types, TypeOK
  <2>4. opened' \in Nat
    BY <1>1, <1>2
  <2> QED BY <1>0, <1>1, <2>2, <2>3, <2>4 DEF Types, TypeOK
<1>4. Life'
  BY <1>0, <1>1 DEF Life, Idle
<1>5. SocketOwned'
  BY <1>1, <1>2 DEF SocketOwned
<1>6. Heard' /\ Accepted' /\ Silent'
  BY <1>0, <1>1 DEF Heard, Accepted, Silent, Life, Idle
<1> QED BY <1>3, <1>4, <1>5, <1>6 DEF IInv

\* What the peer does to the connection.
LEMMA PeerStep ==
  ASSUME IInv, LocalsUnchanged, answer' \in Answers \cup {NoAnswer},
         conn' \in {conn, "up", "reset"}, {canWrite', fin', stale'} \subseteq BOOLEAN,
         inbound' \in Seq(Units), outgoing' \in Seq(Units), fin => fin',
         fin' => outgoing' = <<>>, fin => inbound' = inbound,
         UNCHANGED <<sinceStart, sinceIo>>,
         UNCHANGED <<quiet, inbound>> \/ (quiet' = 0 /\ inbound' # <<>>)
  PROVE  IInv'
<1>0. Types /\ Life /\ SocketOwned /\ Heard /\ Accepted /\ Silent
  BY DEF IInv
<1>1. UNCHANGED <<state, sock, reqSent, buf, cap, status, body, keepaliveEligible>>
      /\ UNCHANGED <<sinceStart, sinceIo, kept, nReq, opened, why, raw>>
  BY DEF LocalsUnchanged, req
<1>2. Types'
  <2>1. {buf', body', raw', inbound', outgoing'} \subseteq Seq(Units)
    BY <1>0, <1>1 DEF Types
  <2>2. {sock', keepaliveEligible', kept', canWrite', fin', stale'} \subseteq BOOLEAN
    BY <1>0, <1>1 DEF Types, TypeOK
  <2>3. conn' \in {"none", "pending", "up", "reset"}
    BY <1>0 DEF Types, TypeOK
  <2>4. quiet' \in 0..ReadTimeout
    <3>1. quiet \in 0..ReadTimeout /\ 0 \in 0..ReadTimeout
      BY <1>0, Bounds DEF Types, TypeOK
    <3> QED BY <3>1
  <2> QED BY <1>0, <1>1, <2>1, <2>2, <2>3, <2>4 DEF Types, TypeOK
<1>3. Life'
  BY <1>0, <1>1 DEF Life
<1>4. SocketOwned' /\ Accepted'
  BY <1>0, <1>1 DEF SocketOwned, Accepted, HeadFirst
<1>5. Heard'
  BY <1>0, <1>1 DEF Heard, PlainBuf, HeadFirst
<1>6. Silent'
  BY <1>0, <1>1 DEF Silent
<1> QED BY <1>2, <1>3, <1>4, <1>5, <1>6 DEF IInv

\* A head and units behind what there is to send.
LEMMA SayType ==
  ASSUME NEW o \in Seq(Units), NEW head \in ResponseHeads, NEW u \in Seq(Units)
  PROVE  o \o <<HeadUnit(head)>> \o u \in Seq(Units)
<1>1. PICK h \in Units : h = HeadUnit(head)
  BY DEF HeadUnit, Units
<1>2. <<h>> \in Seq(Units)
  OBVIOUS
<1>3. o \o <<h>> \in Seq(Units)
  BY <1>2, Concatenation
<1> QED BY <1>1, <1>3, Concatenation

\* The steps of the peer.
LEMMA PeerSteps == ASSUME IInv, Peer PROVE IInv'
<1>0. /\ inbound \in Seq(Units) /\ outgoing \in Seq(Units) /\ answer \in Answers \cup {NoAnswer}
      /\ canWrite \in BOOLEAN /\ fin \in BOOLEAN /\ stale \in BOOLEAN /\ (fin => outgoing = <<>>)
  BY DEF IInv, Types, TypeOK, Life
<1>1. CASE PeerConnects
  BY <1>0, <1>1, PeerStep DEF PeerConnects, PeerUnchanged, timers
<1>2. CASE PeerWindow
  BY <1>0, <1>2, PeerStep DEF PeerWindow, PeerUnchanged, timers
<1>3. CASE PeerAnswers
  <2>1. PICK a \in Answers : answer' = a /\ outgoing' = outgoing \o <<HeadUnit(a.head)>> \o a.units
    BY <1>3 DEF PeerAnswers
  <2>2. outgoing' \in Seq(Units)
    <3>1. a.head \in ResponseHeads /\ a.units \in Seq(Units)
      BY HttpAssumption
    <3> QED BY <1>0, <2>1, <3>1, SayType
  <2> QED BY <1>0, <1>3, <2>1, <2>2, PeerStep DEF PeerAnswers, PeerUnchanged, timers
<1>4. CASE PeerUnsolicited
  <2>1. PICK a \in Unsolicited : outgoing' = outgoing \o <<HeadUnit(a.head)>> \o a.units
    BY <1>4 DEF PeerUnsolicited
  <2>2. outgoing' \in Seq(Units)
    <3>1. a.head \in ResponseHeads /\ a.units \in Seq(Units)
      BY HttpAssumption
    <3> QED BY <1>0, <2>1, <3>1, SayType
  <2> QED BY <1>0, <1>4, <2>2, PeerStep DEF PeerUnsolicited, timers
<1>5. CASE PeerSends
  <2>1. outgoing # <<>> /\ ~fin /\ UNCHANGED <<conn, canWrite, answer, fin, sinceStart, sinceIo, stale>>
        /\ quiet' = 0 /\ LocalsUnchanged
    BY <1>0, <1>5 DEF PeerSends
  <2>2. inbound' \in Seq(Units) /\ outgoing' \in Seq(Units) /\ inbound' # <<>>
    <3>1. Head(outgoing) \in Units /\ Tail(outgoing) \in Seq(Units)
      BY <1>0, <2>1
    <3>2. \A u \in Units : Append(inbound, u) \in Seq(Units) /\ Append(inbound, u) # <<>>
      BY <1>0
    <3> QED BY <1>5, <3>1, <3>2 DEF PeerSends
  <2> QED BY <1>0, <2>1, <2>2, PeerStep
<1>6. CASE PeerGoesOn
  <2>1. <<Data>> \in Seq(Units)
    BY DEF Data, Units, Octet, Octets
  <2> QED BY <1>0, <1>6, <2>1, PeerStep DEF PeerGoesOn, PeerUnchanged, timers
<1>7. CASE PeerCloses
  <2>1. <<>> \in Seq(Units)
    OBVIOUS
  <2> QED BY <1>0, <1>7, <2>1, PeerStep DEF PeerCloses, PeerUnchanged, timers
<1> QED BY <1>1, <1>2, <1>3, <1>4, <1>5, <1>6, <1>7 DEF Peer

\* The clock.
LEMMA ClockStep == ASSUME IInv, Clock PROVE IInv'
<1>0. Types /\ Life /\ SocketOwned /\ Heard /\ Accepted /\ Silent
  BY DEF IInv
<1>1. UNCHANGED <<state, sock, reqSent, buf, cap, status, body, keepaliveEligible>>
      /\ UNCHANGED <<kept, nReq, opened, why, raw, stale>>
      /\ UNCHANGED <<conn, canWrite, answer, outgoing, inbound, fin>>
  BY DEF Clock, req, peer
<1>2. /\ sinceStart \in 0..ConnectTimeout /\ sinceIo \in 0..ReadTimeout /\ quiet \in 0..ReadTimeout
      /\ ConnectTimeout \in Nat /\ ReadTimeout \in Nat
  BY <1>0, Bounds DEF Types, TypeOK
<1>3. sinceStart' \in 0..ConnectTimeout /\ sinceIo' \in 0..ReadTimeout /\ quiet' \in 0..ReadTimeout
  BY <1>2 DEF Clock
<1>4. Types'
  BY <1>0, <1>1, <1>3 DEF Types, TypeOK
<1>5. Life' /\ SocketOwned' /\ Accepted'
  BY <1>0, <1>1 DEF Life, SocketOwned, Accepted, HeadFirst
<1>6. Heard'
  BY <1>0, <1>1 DEF Heard, PlainBuf, HeadFirst
<1>7. Silent'
  <2>1. CASE state = "CONNECTING"
    BY <1>1, <2>1 DEF Silent
  <2>2. CASE state # "CONNECTING"
    <3>1. /\ sinceIo < ReadTimeout /\ sinceIo' = sinceIo + 1
          /\ quiet' = IF quiet < ReadTimeout THEN quiet + 1 ELSE quiet
      BY <2>2 DEF Clock
    <3>2. quiet >= sinceIo => quiet' >= sinceIo'
      BY <1>2, <3>1
    <3> QED BY <1>0, <1>1, <3>2 DEF Silent
  <2> QED BY <2>1, <2>2
<1> QED BY <1>4, <1>5, <1>6, <1>7 DEF IInv

\* Every step.
LEMMA IInvNext == IInv /\ [Next]_vars => IInv'
<1> SUFFICES ASSUME IInv, [Next]_vars PROVE IInv'
  OBVIOUS
<1>1. CASE StartConnect \/ StartDonated
  BY <1>1, StartSteps
<1>2. CASE Step
  BY <1>2, QuietSteps, ReadStep, EofStep DEF Step
<1>3. CASE Release
  BY <1>3, ReleaseStep
<1>4. CASE CloseKept
  BY <1>4, CloseKeptStep
<1>5. CASE Peer
  BY <1>5, PeerSteps
<1>6. CASE Clock
  BY <1>6, ClockStep
<1>7. CASE UNCHANGED vars
  BY <1>7, IInvStutter
<1> QED BY <1>1, <1>2, <1>3, <1>4, <1>5, <1>6, <1>7 DEF Next

\* The inductive invariant of the request state machine.
THEOREM HttpInvariant == Spec => []IInv
BY IInvInit, IInvNext, PTL DEF Spec

\* The variables keep their types, and whatever the peer sends the response
\* buffer holds it within twice OTLP_HTTP_RESP_MAX.
THEOREM TypeOKHolds == Spec => []TypeOK
<1>1. IInv => TypeOK
  BY DEF IInv, Types
<1> QED BY <1>1, HttpInvariant, PTL

\* No socket is leaked or closed twice.
THEOREM SocketOwnedHolds == Spec => []SocketOwned
<1>1. IInv => SocketOwned
  BY DEF IInv
<1> QED BY <1>1, HttpInvariant, PTL

\* A request that is DONE reports the status of the head it received, and that
\* head framed its answer unambiguously, chunked or not, also when the answer
\* was left in the connection by an earlier one.
THEOREM AcceptedHolds == Spec => []Accepted
<1>1. IInv => Accepted
  BY DEF IInv
<1> QED BY <1>1, HttpInvariant, PTL

\* The verdict on an answer without transfer coding does not depend on how its
\* octets were split over reads.
THEOREM PlainSplitIndependentHolds == Spec => []PlainSplitIndependent
<1>1. ASSUME IInv PROVE PlainSplitIndependent
  <2> SUFFICES ASSUME PlainBuf(raw) PROVE SplitIndependent
    BY DEF PlainSplitIndependent, RawPlain, PlainBuf, HeadFirst
  <2>0. Types /\ Life /\ fin \in BOOLEAN /\ raw \in Seq(Units)
    BY <1>1 DEF IInv, Types, TypeOK
  <2>1. /\ state = "READING" => try_parse_response(raw, FALSE).rc = NeedMore
        /\ state = "DONE" =>
             \/ try_parse_response(raw, FALSE).rc = Complete
             \/ fin /\ inbound = <<>> /\ try_parse_response(raw, TRUE).rc = Complete
        /\ why = "invalid" =>
             \/ try_parse_response(raw, FALSE).rc = Bad
             \/ fin /\ inbound = <<>> /\ try_parse_response(raw, TRUE).rc # Complete
    BY <1>1 DEF IInv, Heard
  <2> DEFINE v == try_parse_response(raw, FALSE).rc
  <2> DEFINE w == try_parse_response(raw, TRUE).rc
  <2>2. (v # NeedMore => w = v) /\ w \in Verdicts
    <3>1. v # NeedMore => w = v
      BY <2>0, TryAtEof
    <3>2. VerdictOf(try_parse_response(raw, TRUE), Len(raw))
      BY <2>0, TryFacts
    <3>3. w \in Verdicts
      BY <3>2 DEF VerdictOf, Answered
    <3> QED BY <3>1, <3>3
  <2>3. PICK e \in BOOLEAN : e = (fin /\ inbound = <<>>)
    OBVIOUS
  <2>4. try_parse_response(raw, e).rc = IF e THEN w ELSE v
    OBVIOUS
  <2> HIDE DEF v, w
  <2>5. Complete # NeedMore /\ Bad # NeedMore
    BY DEF Complete, NeedMore, Bad
  <2> DEFINE rc == try_parse_response(raw, fin /\ inbound = <<>>).rc
  <2>6. rc = IF e THEN w ELSE v
    BY <2>3, <2>4
  <2> HIDE DEF rc
  <2>7. /\ state = "READING" /\ ~fin => rc = NeedMore
        /\ state = "DONE" => rc = Complete
        /\ why = "invalid" => rc = Bad \/ (fin /\ rc = NeedMore)
    BY <2>0, <2>1, <2>2, <2>3, <2>5, <2>6 DEF v, w, Verdicts
  <2> QED BY <2>7 DEF SplitIndependent, rc
<1> QED BY <1>1, HttpInvariant, PTL

\* A request that waits for its answer times out only when nothing came for the
\* whole timeout, and what came is no answer.
THEOREM TimeoutOnlyIfSilentHolds == Spec => TimeoutOnlyIfSilent
<1> DEFINE A == state = "READING" /\ why # "timeout" /\ why' = "timeout" =>
                  /\ quiet >= ReadTimeout
                  /\ RawPlain => try_parse_response(raw \o inbound, FALSE).rc = NeedMore
<1>1. ASSUME IInv, StepReadTimeout PROVE A
  <2>1. state = "READING" /\ inbound = <<>> /\ sinceIo >= ReadTimeout
    BY <1>1 DEF StepReadTimeout
  <2>2. sinceIo \in Nat /\ quiet \in Nat /\ ReadTimeout \in Nat /\ raw \in Seq(Units)
    BY <1>1, Bounds DEF IInv, Types, TypeOK
  <2>3. quiet >= ReadTimeout
    BY <1>1, <2>1, <2>2 DEF IInv, Silent
  <2>4. RawPlain => try_parse_response(raw, FALSE).rc = NeedMore
    BY <1>1, <2>1 DEF IInv, Heard, RawPlain, PlainBuf, HeadFirst
  <2>5. raw \o inbound = raw
    BY <2>1, <2>2
  <2> QED BY <2>3, <2>4, <2>5
<1>2. ASSUME IInv, Next PROVE A
  <2> USE DEF Fail
  <2>1. CASE StartConnect \/ StartDonated
    BY <2>1 DEF StartConnect, StartDonated, Fresh
  <2>2. CASE StepConnected \/ StepSend
    BY <2>2 DEF StepConnected, StepSend
  <2>3. CASE StepError \/ StepNoMemory
    BY <2>3 DEF StepError, StepNoMemory
  <2>4. CASE StepConnectTimeout \/ StepSendTimeout
    BY <2>4 DEF StepConnectTimeout, StepSendTimeout
  <2>5. CASE StepReadTimeout
    BY <1>1, <1>2, <2>5
  <2>6. CASE StepRead
    BY <2>6 DEF StepRead, Conclude
  <2>7. CASE StepReadEof
    BY <2>7 DEF StepReadEof, Conclude
  <2>8. CASE Release
    BY <2>8 DEF Release
  <2>9. CASE CloseKept
    BY <2>9 DEF CloseKept
  <2>10. CASE Peer
    BY <2>10 DEF Peer, PeerConnects, PeerWindow, PeerAnswers, PeerUnsolicited, PeerSends,
                 PeerGoesOn, PeerCloses, PeerUnchanged, LocalsUnchanged
  <2>11. CASE Clock
    BY <2>11 DEF Clock
  <2> QED BY <1>2, <2>1, <2>2, <2>3, <2>4, <2>5, <2>6, <2>7, <2>8, <2>9, <2>10, <2>11
          DEF Next, Step
<1>3. IInv /\ [Next]_vars => [A]_vars
  BY <1>2
<1> QED BY <1>3, HttpInvariant, PTL DEF Spec, TimeoutOnlyIfSilent

(***************************************************************************)
(* The answer on the wire                                                  *)
(***************************************************************************)
\* Init.
LEMMA FInvInit == Init => FInv
BY DEF Init, FInv, Stream, Whole, DetachedClean, Idle

\* A step that leaves the stream alone and concludes nothing.
LEMMA StreamAlone ==
  ASSUME IInv, FInv, UNCHANGED <<raw, inbound, outgoing, fin, answer, stale, kept>>,
         \/ state' = "FAILED" /\ state # Idle
         \/ state \in {"CONNECTING", "SENDING"} /\ state' = "SENDING"
         \/ state = "SENDING" /\ state' = "READING"
         \/ UNCHANGED <<state, body, keepaliveEligible>>
  PROVE  FInv'
<1>0. Life /\ DetachedClean
  BY DEF FInv, IInv
<1>1. UNCHANGED Total /\ UNCHANGED ToEof(answer.head) /\ UNCHANGED Lengths(answer.head)
      /\ UNCHANGED Plain
  BY DEF Total, ToEof, Lengths, Plain
<1>2. DetachedClean'
  BY <1>0, <1>1 DEF DetachedClean
<1> SUFFICES ASSUME ~stale PROVE Stream' /\ Whole'
  BY <1>2 DEF FInv
<1>3. Stream /\ Whole
  BY DEF FInv
<1>4. CASE state' = "FAILED"
  BY <1>4 DEF Stream, Whole
<1>5. CASE state \in {"CONNECTING", "SENDING"} /\ state' = "SENDING"
  BY <1>3, <1>5 DEF Stream, Whole
<1>6. CASE state = "SENDING" /\ state' = "READING"
  BY <1>3, <1>6 DEF Stream, Whole
<1>7. CASE UNCHANGED <<state, body, keepaliveEligible>>
  <2>1. Stream'
    BY <1>1, <1>3, <1>7 DEF Stream, Run, Expected
  <2>2. Whole'
    BY <1>1, <1>3, <1>7 DEF Whole
  <2> QED BY <2>1, <2>2
<1> QED BY <1>4, <1>5, <1>6, <1>7

\* The lengths that a head announces.
LEMMA LengthsFacts ==
  ASSUME NEW head \in ResponseHeads
  PROVE  /\ Lengths(head) \subseteq Nat
         /\ HasLine(head, "Content-Length") <=> Lengths(head) # {}
<1>1. head.lines \in Seq(HeaderLines)
  BY DEF ResponseHeads
<1>2. \A i \in DOMAIN head.lines : head.lines[i].num \in Nat
  <2> SUFFICES ASSUME NEW i \in DOMAIN head.lines PROVE head.lines[i].num \in Nat
    OBVIOUS
  <2>1. PICK line \in HeaderLines : line = head.lines[i]
    BY <1>1
  <2>2. line.num \in Nat
    BY DEF HeaderLines
  <2> QED BY <2>1, <2>2
<1> QED BY <1>2 DEF Lengths, HasLine

\* When the parser says that a plain answer is complete, its body is what a
\* Content-Length says, or all there is when the connection has ended.
LEMMA WholeVerdict ==
  ASSUME NEW r \in Seq(Units), HeadFirst(r), PlainBuf(r), NEW e \in BOOLEAN,
         try_parse_response(r, e).rc = Complete
  PROVE  LET v == try_parse_response(r, e) IN
         IF ToEof(r[1].head)
           THEN e /\ v.body = Tail(r) /\ ~v.keepalive
           ELSE \E l \in Lengths(r[1].head) : l + 1 <= Len(r) /\ v.body = SubSeq(Tail(r), 1, l)
<1> DEFINE v == try_parse_response(r, e)
<1>1. PICK head \in ResponseHeads : head = r[1].head
  BY HeadType
<1> DEFINE scan == ScanHeaders(head)
<1>2. ~HasLine(head, "Transfer-Encoding")
  BY <1>1 DEF PlainBuf
<1>3. v.rc = Complete
  OBVIOUS
<1>4. PlainVerdict(head, Tail(r), e, v)
  BY <1>1, TryFacts
<1>5. /\ scan.length # NoLength <=> HasLine(head, "Content-Length")
      /\ ~scan.bad => \A i \in DOMAIN head.lines :
              head.lines[i].name = "Content-Length" => head.lines[i].num = scan.length
  BY ScanAgrees
<1> HIDE DEF v
<1>6. Complete # Bad /\ Complete # NeedMore
  BY VerdictFields
<1>7. head.statusLine /\ ~scan.bad
  BY <1>3, <1>4, <1>6 DEF PlainVerdict
<1>8. PICK t \in Seq(Units) : t = Tail(r) /\ Len(t) = Len(r) - 1
  <2>1. Tail(r) \in Seq(Units) /\ Len(Tail(r)) = Len(r) - 1
    BY HeadAndTail DEF HeadFirst
  <2> QED BY <2>1
<1>9. CASE HasLine(head, "Content-Length")
  <2>1. PICK l \in Lengths(head) : l = scan.length
    <3>1. PICK i \in DOMAIN head.lines : head.lines[i].name = "Content-Length"
      BY <1>9 DEF HasLine
    <3>2. head.lines[i].num = scan.length
      BY <1>5, <1>7, <3>1
    <3>3. head.lines[i].num \in Lengths(head)
      BY <3>1 DEF Lengths
    <3> QED BY <3>2, <3>3
  <2>2. l \in Nat
    BY LengthsFacts
  <2>3. (v.rc = IF Len(t) < l THEN NeedMore ELSE Complete) /\ v.body = SubSeq(t, 1, l)
    BY <1>3, <1>4, <1>5, <1>7, <1>8, <1>9, <2>1 DEF PlainVerdict
  <2>4. ~ (Len(t) < l)
    BY <1>3, <1>6, <2>3
  <2>5. l + 1 <= Len(r)
    <3>1. Len(t) \in Nat /\ Len(r) \in Nat
      OBVIOUS
    <3> QED BY <1>8, <2>2, <2>4, <3>1
  <2>6. ~ToEof(head)
    BY <1>9 DEF ToEof
  <2> QED BY <1>1, <1>8, <2>3, <2>5, <2>6 DEF v
<1>10. CASE ~HasLine(head, "Content-Length")
  <2>1. scan.length = NoLength /\ ToEof(head)
    BY <1>2, <1>5, <1>10 DEF ToEof
  <2>2. (v.rc = IF e THEN Complete ELSE NeedMore) /\ v.body = t /\ ~v.keepalive
    BY <1>3, <1>4, <1>7, <1>8, <2>1 DEF PlainVerdict
  <2> QED BY <1>1, <1>3, <1>6, <1>8, <2>1, <2>2 DEF v
<1> QED BY <1>9, <1>10

\* A read moves part of the stream into the buffer.
LEMMA StreamRead ==
  ASSUME answer.units \in Seq(Units),
         NEW r \in Seq(Units), NEW i \in Seq(Units), NEW n \in 1..Len(i),
         Run(r, 0), Run(i, Len(r))
  PROVE  LET s == r \o SubSeq(i, 1, n)
             j == SubSeq(i, n + 1, Len(i))
         IN /\ Run(s, 0) /\ Run(j, Len(s)) /\ Len(s) + Len(j) = Len(r) + Len(i)
            /\ s # <<>>
<1> DEFINE p == SubSeq(i, 1, n)
<1> DEFINE j == SubSeq(i, n + 1, Len(i))
<1> DEFINE s == r \o p
<1>1. PICK l \in Nat, q \in Nat, m \in Nat : l = Len(r) /\ q = Len(i) /\ m = Len(answer.units)
  OBVIOUS
<1>2. p \in Seq(Units) /\ Len(p) = n /\ \A k \in 1..n : p[k] = i[k]
  OBVIOUS
<1>3. j \in Seq(Units) /\ Len(j) = q - n /\ \A k \in 1..(q - n) : j[k] = i[n + k]
  BY <1>1
<1>4. n \in Nat /\ n # 0 /\ n <= q
  BY <1>1
<1> HIDE DEF p, j
<1>5. s \in Seq(Units) /\ Len(s) = Len(r) + Len(p)
      /\ \A k \in 1..(Len(r) + Len(p)) : s[k] = IF k <= Len(r) THEN r[k] ELSE p[k - Len(r)]
  BY <1>2, Concatenation
<1>6. Len(s) = l + n /\ \A k \in 1..(l + n) : s[k] = IF k <= l THEN r[k] ELSE p[k - l]
  BY <1>1, <1>2, <1>5
<1> HIDE DEF s
<1>7. \A k \in 1..l : 0 + k <= m + 1 => r[k] = Expected(0 + k)
  BY <1>1 DEF Run
<1>8. \A k \in 1..q : l + k <= m + 1 => i[k] = Expected(l + k)
  BY <1>1 DEF Run
<1>9. Run(s, 0)
  <2> SUFFICES ASSUME NEW k \in 1..(l + n), 0 + k <= m + 1 PROVE s[k] = Expected(0 + k)
    BY <1>1, <1>6 DEF Run
  <2>1. CASE k <= l
    <3>1. k \in 1..l
      BY <2>1
    <3>2. s[k] = r[k]
      BY <1>6, <2>1
    <3>3. r[k] = Expected(0 + k)
      BY <1>7, <3>1
    <3> QED BY <3>2, <3>3
  <2>2. CASE ~(k <= l)
    <3>1. k - l \in 1..n /\ k - l \in 1..q /\ l + (k - l) = 0 + k
      BY <1>4, <2>2
    <3>2. s[k] = p[k - l]
      BY <1>6, <2>2
    <3>3. p[k - l] = i[k - l]
      BY <1>2, <3>1
    <3>4. i[k - l] = Expected(l + (k - l))
      BY <1>8, <3>1
    <3> QED BY <3>1, <3>2, <3>3, <3>4
  <2> QED BY <2>1, <2>2
<1>10. Run(j, Len(s))
  <2> SUFFICES ASSUME NEW k \in 1..(q - n), (l + n) + k <= m + 1
               PROVE  j[k] = Expected((l + n) + k)
    BY <1>1, <1>3, <1>6 DEF Run
  <2>1. n + k \in 1..q /\ l + (n + k) = (l + n) + k
    BY <1>4
  <2>2. i[n + k] = Expected(l + (n + k))
    BY <1>8, <2>1
  <2> QED BY <1>3, <2>1, <2>2
<1>11. Len(s) + Len(j) = Len(r) + Len(i)
  <2>1. Len(s) = l + n /\ Len(j) = q - n
    BY <1>3, <1>6
  <2>2. (l + n) + (q - n) = l + q
    BY <1>4
  <2> QED BY <1>1, <2>1, <2>2
<1>12. s # <<>>
  <2>1. Len(s) # 0
    BY <1>4, <1>6
  <2> QED BY <2>1
<1> QED BY <1>9, <1>10, <1>11, <1>12 DEF s, j, p

\* What the peer says of an answer that has been read to its first unit is the
\* head of that answer.
LEMMA HeadRead ==
  ASSUME answer.units \in Seq(Units), NEW r \in Seq(Units), r # <<>>, Run(r, 0)
  PROVE  r[1].kind = "head" /\ r[1].head = answer.head
<1>1. PICK l \in Nat, m \in Nat : l = Len(r) /\ m = Len(answer.units)
  OBVIOUS
<1>2. l # 0
  BY <1>1, NoUnits
<1>3. 1 \in 1..l /\ 0 + 1 <= m + 1 /\ 0 + 1 = 1
  BY <1>2
<1>4. r[1] = Expected(0 + 1)
  BY <1>1, <1>3 DEF Run
<1>5. r[1] = HeadUnit(answer.head)
  BY <1>3, <1>4 DEF Expected
<1> QED BY <1>5 DEF HeadUnit

\* What reading has to establish on a clean connection: the stream, unless the
\* request failed, and the body of a request that is DONE.
LEMMA Concluded ==
  ASSUME IInv, IInv', FInv, ~stale, state = "READING",
         UNCHANGED <<answer, fin, outgoing, stale, kept>>,
         NEW v, Conclude(v), Judges(v),
         answer = NoAnswer => raw' = <<>> /\ inbound' = <<>>,
         answer # NoAnswer => /\ Run(raw', 0) /\ Run(inbound', Len(raw'))
                              /\ Len(raw') + Len(inbound') = Len(raw) + Len(inbound)
  PROVE  FInv'
<1>0. Stream /\ Types /\ Types' /\ Life /\ Life' /\ Accepted'
  BY DEF FInv, IInv
<1>1. /\ answer.units \in Seq(Units) /\ answer.head \in ResponseHeads
      /\ raw' \in Seq(Units)
  BY <1>0, AnswerType DEF Types
<1>2. \/ v.rc = NeedMore /\ state' = "READING"
      \/ v.rc = Bad /\ state' = "FAILED"
      \/ /\ v.rc = Complete /\ state' = "DONE"
         /\ body' = v.body /\ keepaliveEligible' = v.keepalive
  BY DEF Conclude, Fail
<1>3. Stream'
  <2>1. answer = NoAnswer => outgoing' = <<>>
    BY <1>0 DEF Stream
  <2>2. answer # NoAnswer =>
          /\ Total' = Total
          /\ Run(outgoing', Len(raw') + Len(inbound'))
    BY <1>0 DEF Stream, Run, Total
  <2>3. answer # NoAnswer => /\ ~ToEof(answer.head) => Total <= Len(answer.units) + 1
                             /\ ~fin => Total >= Len(answer.units) + 1
    BY <1>0 DEF Stream
  <2>4. Run(raw, 0)' <=> Run(raw', 0)
    BY DEF Run, Expected
  <2>5. Run(inbound, Len(raw))' <=> Run(inbound', Len(raw'))
    BY DEF Run, Expected
  <2>6. Run(outgoing, Len(raw) + Len(inbound))' <=> Run(outgoing', Len(raw') + Len(inbound'))
    BY DEF Run, Expected
  <2>7. answer' # NoAnswer =>
          /\ Run(raw, 0)' /\ Run(inbound, Len(raw))' /\ Run(outgoing, Len(raw) + Len(inbound))'
          /\ ~ToEof(answer'.head) => Total' <= Len(answer'.units) + 1
          /\ ~fin' => Total' >= Len(answer'.units) + 1
    BY <2>2, <2>3, <2>4, <2>5, <2>6
  <2> QED BY <1>2, <2>1, <2>7 DEF Stream
<1>4. Whole'
  <2> SUFFICES ASSUME state' = "DONE", Plain'
               PROVE  IF ToEof(answer'.head)
                        THEN fin' /\ inbound' = <<>> /\ body' = Tail(raw') /\ ~keepaliveEligible'
                        ELSE \E l \in Lengths(answer'.head) :
                               l + 1 <= Len(raw') /\ body' = SubSeq(Tail(raw'), 1, l)
    BY DEF Whole
  <2>1. v.rc = Complete /\ body' = v.body /\ keepaliveEligible' = v.keepalive
    BY <1>2
  <2>2. HeadFirst(raw')
    BY <1>0 DEF Accepted
  <2>3. answer # NoAnswer
    BY <2>2 DEF HeadFirst
  <2>4. raw'[1].head = answer.head
    BY <1>1, <2>2, <2>3, HeadRead DEF HeadFirst
  <2>5. PlainBuf(raw')
    BY <2>4 DEF Plain, PlainBuf
  <2>6. PICK e \in BOOLEAN : v = try_parse_response(raw', e) /\ (e => fin /\ inbound' = <<>>)
    BY <2>1, <2>5 DEF Judges
  <2>7. LET w == try_parse_response(raw', e) IN
        IF ToEof(raw'[1].head)
          THEN e /\ w.body = Tail(raw') /\ ~w.keepalive
          ELSE \E l \in Lengths(raw'[1].head) :
                 l + 1 <= Len(raw') /\ w.body = SubSeq(Tail(raw'), 1, l)
    BY <1>1, <2>1, <2>2, <2>5, <2>6, WholeVerdict
  <2>8. IF ToEof(answer.head)
          THEN e /\ v.body = Tail(raw') /\ ~v.keepalive
          ELSE \E l \in Lengths(answer.head) :
                 l + 1 <= Len(raw') /\ v.body = SubSeq(Tail(raw'), 1, l)
    BY <2>4, <2>6, <2>7
  <2> QED BY <2>1, <2>6, <2>8
<1>5. DetachedClean'
  <2>1. ~kept'
    BY <1>0 DEF Life, Idle
  <2> QED BY <2>1 DEF DetachedClean
<1> QED BY <1>3, <1>4, <1>5 DEF FInv

\* recv() returns octets.
LEMMA FReadStep == ASSUME IInv, IInv', FInv, StepRead PROVE FInv'
<1>0. Types /\ Life /\ Life' /\ state = "READING"
  BY DEF IInv, FInv, StepRead
<1>1. UNCHANGED <<answer, outgoing, fin, stale, kept>>
  BY DEF StepRead
<1>2. DetachedClean'
  <2>1. ~kept'
    BY <1>0, <1>1 DEF Life, Idle
  <2> QED BY <2>1 DEF DetachedClean
<1>3. CASE stale
  BY <1>1, <1>2, <1>3 DEF FInv
<1>4. CASE ~stale
  <2>0. Stream
    BY <1>4 DEF FInv
  <2>1. PICK n \in 1..Len(inbound) :
          /\ inbound' = SubSeq(inbound, n + 1, Len(inbound))
          /\ raw' = raw \o SubSeq(inbound, 1, n)
          /\ \/ \E v : Judges(v) /\ Conclude(v)
             \/ state' = "FAILED"
    BY ReadVerdict
  <2>2. inbound \in Seq(Units) /\ raw \in Seq(Units) /\ answer.units \in Seq(Units)
    BY <1>0, AnswerType DEF Types
  <2>3. inbound # <<>>
    BY <2>2
  <2>4. answer # NoAnswer
    BY <1>0, <2>0, <2>3 DEF Stream
  <2>5. Run(raw, 0) /\ Run(inbound, Len(raw))
    BY <1>0, <2>0, <2>4 DEF Stream
  <2>6. Run(raw', 0) /\ Run(inbound', Len(raw')) /\ Len(raw') + Len(inbound') = Len(raw) + Len(inbound)
    BY <2>1, <2>2, <2>5, StreamRead
  <2>7. CASE \E v : Judges(v) /\ Conclude(v)
    <3>1. PICK v : Judges(v) /\ Conclude(v)
      BY <2>7
    <3> QED BY <1>0, <1>1, <1>4, <2>4, <2>6, <3>1, Concluded
  <2>8. CASE state' = "FAILED"
    BY <1>2, <2>8 DEF FInv, Stream, Whole
  <2> QED BY <2>1, <2>7, <2>8
<1> QED BY <1>3, <1>4

\* recv() returns 0.
LEMMA FEofStep == ASSUME IInv, IInv', FInv, StepReadEof PROVE FInv'
<1>0. Types /\ Life /\ Life' /\ state = "READING"
  BY DEF IInv, FInv, StepReadEof
<1>1. UNCHANGED <<answer, outgoing, fin, raw, inbound, stale, kept>>
  BY DEF StepReadEof, StepLocals, peer
<1>2. DetachedClean'
  <2>1. ~kept'
    BY <1>0, <1>1 DEF Life, Idle
  <2> QED BY <2>1 DEF DetachedClean
<1>3. CASE stale
  BY <1>1, <1>2, <1>3 DEF FInv
<1>4. CASE ~stale
  <2>0. Stream
    BY <1>4 DEF FInv
  <2>1. PICK v : Conclude(v) /\ Judges(v)
    BY EofVerdict
  <2>2. answer = NoAnswer => raw' = <<>> /\ inbound' = <<>>
    BY <1>0, <1>1, <2>0 DEF Stream
  <2>3. answer # NoAnswer => /\ Run(raw', 0) /\ Run(inbound', Len(raw'))
                             /\ Len(raw') + Len(inbound') = Len(raw) + Len(inbound)
    BY <1>0, <1>1, <2>0 DEF Stream
  <2> QED BY <1>0, <1>1, <1>4, <2>1, <2>2, <2>3, Concluded
<1> QED BY <1>3, <1>4


\* A stretch of a sequence, told by its elements.
LEMMA Stretch ==
  ASSUME NEW u \in Seq(Units), NEW s \in Seq(Units), NEW i \in Nat,
         i + Len(s) <= Len(u), \A k \in 1..Len(s) : s[k] = u[i + k]
  PROVE  s = SubSeq(u, i + 1, i + Len(s))
<1>1. PICK l \in Nat, m \in Nat : l = Len(s) /\ m = Len(u)
  OBVIOUS
<1> DEFINE t == SubSeq(u, i + 1, i + l)
<1>2. t \in Seq(Units) /\ Len(t) = l /\ \A k \in 1..l : t[k] = u[i + k]
  BY <1>1
<1> HIDE DEF t
<1>3. \A k \in 1..l : s[k] = t[k]
  BY <1>1, <1>2
<1>4. s = t
  BY <1>1, <1>2, <1>3
<1> QED BY <1>1, <1>4 DEF t

\* The elements of what is on its way and what is to be sent.
LEMMA Joined ==
  ASSUME NEW s \in Seq(Units), NEW t \in Seq(Units)
  PROVE  /\ \A k \in 1..Len(s) : (s \o t)[k] = s[k]
         /\ \A k \in 1..Len(t) : (s \o t)[Len(s) + k] = t[k]
OBVIOUS

\* To send a unit does not change what is on its way and to be sent.
LEMMA Sent ==
  ASSUME NEW s \in Seq(Units), NEW t \in Seq(Units), t # <<>>
  PROVE  /\ Append(s, Head(t)) \in Seq(Units) /\ Len(Append(s, Head(t))) = Len(s) + 1
         /\ Append(s, Head(t))[Len(s) + 1] = t[1]
         /\ \A k \in 1..Len(s) : Append(s, Head(t))[k] = s[k]
         /\ Tail(t) \in Seq(Units) /\ Len(t) > 0 /\ Len(Tail(t)) = Len(t) - 1
         /\ \A k \in 1..(Len(t) - 1) : Tail(t)[k] = t[k + 1]
         /\ Append(s, Head(t)) \o Tail(t) = s \o t
<1>1. PICK h \in Units : h = Head(t) /\ h = t[1]
  OBVIOUS
<1> DEFINE a == Append(s, h)
<1> DEFINE r == Tail(t)
<1>2. PICK x \in Nat, y \in Nat : x = Len(s) /\ y = Len(t) /\ y > 0
  OBVIOUS
<1>3. /\ a \in Seq(Units) /\ Len(a) = x + 1 /\ a[x + 1] = h /\ \A k \in 1..x : a[k] = s[k]
      /\ r \in Seq(Units) /\ Len(r) = y - 1 /\ \A k \in 1..(y - 1) : r[k] = t[k + 1]
  BY <1>2
<1> HIDE DEF a, r
<1> DEFINE f == a \o r
<1> DEFINE g == s \o t
<1>4. f \in Seq(Units) /\ g \in Seq(Units) /\ Len(f) = x + y /\ Len(g) = x + y
  <2>1. Len(f) = (x + 1) + (y - 1)
    BY <1>3, Concatenation
  <2> QED BY <1>2, <1>3, <2>1, Concatenation
<1>5. /\ \A k \in 1..(x + 1) : f[k] = a[k]
      /\ \A k \in 1..(y - 1) : f[(x + 1) + k] = r[k]
      /\ \A k \in 1..x : g[k] = s[k]
      /\ \A k \in 1..y : g[x + k] = t[k]
  BY <1>2, <1>3, Joined
<1> HIDE DEF f, g
<1>6. ASSUME NEW k \in 1..(x + y) PROVE f[k] = g[k]
  <2>1. CASE k \in 1..x
    <3>1. k \in 1..(x + 1)
      BY <2>1
    <3> QED BY <1>3, <1>5, <2>1, <3>1
  <2>2. CASE k = x + 1
    <3>1. k \in 1..(x + 1) /\ 1 \in 1..y /\ x + 1 = k
      BY <1>2, <2>2
    <3>2. f[k] = h
      BY <1>3, <1>5, <2>2, <3>1
    <3>3. g[x + 1] = t[1]
      BY <1>5, <3>1
    <3> QED BY <1>1, <2>2, <3>2, <3>3
  <2>3. CASE k \in (x + 2)..(x + y)
    <3>1. PICK n \in 1..(y - 1) : k = (x + 1) + n
      <4>1. k - (x + 1) \in 1..(y - 1) /\ k = (x + 1) + (k - (x + 1))
        BY <2>3
      <4> QED BY <4>1
    <3>2. n + 1 \in 1..y /\ x + (n + 1) = k
      BY <3>1
    <3>3. f[k] = t[n + 1]
      BY <1>3, <1>5, <3>1
    <3>4. g[k] = t[n + 1]
      BY <1>5, <3>2
    <3> QED BY <3>3, <3>4
  <2>4. k \in 1..x \/ k = x + 1 \/ k \in (x + 2)..(x + y)
    OBVIOUS
  <2> QED BY <2>1, <2>2, <2>3, <2>4
<1>7. f = g
  BY <1>4, <1>6
<1> QED BY <1>1, <1>2, <1>3, <1>7 DEF a, r, f, g

\* The exporter frees the request: what it leaves in a socket that is kept is
\* behind the end of the answer.
LEMMA FReleaseStep == ASSUME IInv, FInv, Release PROVE FInv'
<1>0. Types /\ Accepted
  BY DEF IInv
<1>1. state' = Idle /\ kept' = Keeps /\ CloseUnless(Keeps) /\ UNCHANGED <<answer, stale>>
  BY DEF Release
<1>2. Stream' /\ Whole'
  BY <1>1 DEF Stream, Whole, Idle
<1>3. DetachedClean'
  <2> SUFFICES ASSUME Keeps, Plain, ~stale
               PROVE  \E from \in Lengths(answer.head), i, j \in 0..Len(answer.units) :
                        from <= i /\ inbound' \o outgoing' = SubSeq(answer.units, i + 1, j)
    BY <1>1 DEF DetachedClean, Plain
  <2>1. state = "DONE" /\ keepaliveEligible /\ UNCHANGED <<inbound, outgoing>>
    BY <1>1 DEF Keeps, otlp_http_request_detach_socket, CloseUnless
  <2>2. Stream /\ Whole
    BY DEF FInv
  <2>3. answer # NoAnswer
    BY <1>0, <2>1, <2>2 DEF Stream, Accepted, HeadFirst
  <2>4. ~ToEof(answer.head) /\ \E l \in Lengths(answer.head) : l + 1 <= Len(raw)
    BY <2>1, <2>2 DEF Whole
  <2>5. PICK l \in Lengths(answer.head) : l + 1 <= Len(raw)
    BY <2>4
  <2>6. answer.head \in ResponseHeads /\ answer.units \in Seq(Units)
    BY <1>0, AnswerType DEF Types
  <2>7. l \in Nat
    BY <2>6, LengthsFacts
  <2>8. inbound \in Seq(Units) /\ outgoing \in Seq(Units) /\ raw \in Seq(Units)
    BY <1>0 DEF Types
  <2>9. PICK x \in Nat, y \in Nat, z \in Nat, m \in Nat :
          x = Len(raw) /\ y = Len(inbound) /\ z = Len(outgoing) /\ m = Len(answer.units)
    BY <2>6, <2>8
  <2>10. x + y + z <= m + 1
    BY <2>1, <2>2, <2>3, <2>4, <2>9 DEF Stream, Total
  <2>11. /\ \A k \in 1..y : x + k <= m + 1 => inbound[k] = Expected(x + k)
         /\ \A k \in 1..z : (x + y) + k <= m + 1 => outgoing[k] = Expected((x + y) + k)
    BY <2>1, <2>2, <2>3, <2>9 DEF Stream, Run
  <2>12. PICK i \in Nat : i = x - 1
    BY <2>5, <2>7, <2>9
  <2> DEFINE s == inbound \o outgoing
  <2>13. s \in Seq(Units) /\ Len(s) = y + z
    BY <2>8, <2>9, Concatenation
  <2>14. /\ \A k \in 1..y : s[k] = inbound[k]
         /\ \A k \in 1..z : s[y + k] = outgoing[k]
    BY <2>8, <2>9, Joined
  <2> HIDE DEF s
  <2>15. ASSUME NEW k \in 1..(y + z) PROVE s[k] = answer.units[i + k]
    <3>1. CASE k \in 1..y
      <4>1. x + k <= m + 1 /\ x + k # 1 /\ (x + k) - 1 = i + k
        BY <2>5, <2>7, <2>9, <2>10, <2>12
      <4>2. s[k] = Expected(x + k)
        BY <2>11, <2>14, <3>1, <4>1
      <4> QED BY <4>1, <4>2 DEF Expected
    <3>2. CASE k \in (y + 1)..(y + z)
      <4>1. PICK n \in 1..z : k = y + n
        <5>1. k - y \in 1..z /\ k = y + (k - y)
          BY <3>2
        <5> QED BY <5>1
      <4>2. /\ (x + y) + n <= m + 1 /\ (x + y) + n # 1 /\ ((x + y) + n) - 1 = i + k
        BY <2>5, <2>7, <2>9, <2>10, <2>12, <4>1
      <4>3. s[k] = outgoing[n]
        BY <2>14, <4>1
      <4>4. outgoing[n] = Expected((x + y) + n)
        BY <2>11, <4>2
      <4> QED BY <4>2, <4>3, <4>4 DEF Expected
    <3>3. k \in 1..y \/ k \in (y + 1)..(y + z)
      OBVIOUS
    <3> QED BY <3>1, <3>2, <3>3
  <2>16. i + (y + z) <= m
    BY <2>10, <2>12
  <2>17. s = SubSeq(answer.units, i + 1, i + (y + z))
    BY <2>6, <2>9, <2>13, <2>15, <2>16, Stretch
  <2>18. l <= i /\ i \in 0..m /\ i + (y + z) \in 0..m
    BY <2>5, <2>7, <2>9, <2>12, <2>16
  <2>19. \E j \in 0..Len(answer.units) : l <= i /\ s = SubSeq(answer.units, i + 1, j)
    BY <2>9, <2>17, <2>18
  <2>20. s = inbound' \o outgoing' /\ i \in 0..Len(answer.units)
    BY <2>1, <2>9, <2>18 DEF s
  <2> QED BY <2>19, <2>20
<1> QED BY <1>2, <1>3 DEF FInv

\* A request begins.
LEMMA FStartSteps == ASSUME IInv, FInv, StartConnect \/ StartDonated PROVE FInv'
<1>1. state = Idle /\ raw = <<>>
  BY DEF IInv, Life, StartConnect, StartDonated, Fresh
<1>2. /\ state' \in {"CONNECTING", "SENDING"} /\ raw' = <<>> /\ answer' = NoAnswer /\ ~kept'
  BY <1>1 DEF StartConnect, StartDonated, Fresh
<1>3. ~stale' => inbound' = <<>> /\ outgoing' = <<>>
  BY DEF StartConnect, StartDonated
<1>4. ~stale' => Stream' /\ Whole'
  BY <1>2, <1>3 DEF Stream, Whole
<1>5. DetachedClean'
  BY <1>2 DEF DetachedClean
<1> QED BY <1>4, <1>5 DEF FInv

\* The peer answers.
LEMMA FPeerAnswersStep == ASSUME IInv, FInv, PeerAnswers PROVE FInv'
<1>0. Types /\ Life /\ state = "READING" /\ answer = NoAnswer /\ ~kept
  BY DEF IInv, FInv, PeerAnswers, Life, Idle
<1>1. UNCHANGED <<raw, inbound, state, stale, kept, fin>>
  BY DEF PeerAnswers, PeerUnchanged, LocalsUnchanged, req
<1>2. DetachedClean'
  BY <1>0, <1>1 DEF DetachedClean
<1> SUFFICES ASSUME ~stale PROVE Stream' /\ Whole'
  BY <1>1, <1>2 DEF FInv
<1>3. raw' = <<>> /\ inbound' = <<>> /\ outgoing = <<>>
  BY <1>0, <1>1 DEF FInv, Stream
<1>4. PICK a \in Answers : answer' = a /\ outgoing' = <<>> \o <<HeadUnit(a.head)>> \o a.units
  BY <1>3 DEF PeerAnswers
<1>5. a.head \in ResponseHeads /\ a.units \in Seq(Units) /\ a # NoAnswer
  BY HttpAssumption
<1> DEFINE o == <<HeadUnit(a.head)>> \o a.units
<1>6. PICK u \in Seq(Units), m \in Nat : u = a.units /\ m = Len(u)
  BY <1>5
<1>7. PICK h \in Units : h = HeadUnit(a.head)
  BY <1>5 DEF HeadUnit, Units
<1>8. /\ Len(<<h>> \o u) = m + 1 /\ (<<h>> \o u)[1] = h /\ <<>> \o <<h>> \o u = <<h>> \o u
      /\ \A k \in 2..(m + 1) : (<<h>> \o u)[k] = u[k - 1]
  BY <1>6
<1>9. /\ Len(o) = m + 1 /\ o[1] = HeadUnit(a.head) /\ outgoing' = o
      /\ \A k \in 2..(m + 1) : o[k] = a.units[k - 1]
  BY <1>4, <1>6, <1>7, <1>8
<1> HIDE DEF o
<1>10. Run(o, 0)'
  <2> SUFFICES ASSUME NEW k \in 1..(m + 1) PROVE o[k] = Expected(0 + k)'
    BY <1>9 DEF Run
  <2>1. k = 1 \/ k \in 2..(m + 1)
    OBVIOUS
  <2>2. 0 + k = k /\ (k \in 2..(m + 1) => k # 1)
    OBVIOUS
  <2> QED BY <1>4, <1>9, <2>1, <2>2 DEF Expected
<1>11. Len(raw') = 0 /\ Len(inbound') = 0 /\ Len(raw') + Len(inbound') = 0 /\ Total' = m + 1
  BY <1>3, <1>9 DEF Total
<1>12. Run(raw, 0)' /\ Run(inbound, Len(raw))' /\ Run(outgoing, Len(raw) + Len(inbound))'
  BY <1>3, <1>9, <1>10, <1>11 DEF Run, Expected
<1>13. Stream'
  BY <1>0, <1>1, <1>4, <1>5, <1>6, <1>11, <1>12 DEF Stream
<1> QED BY <1>0, <1>1, <1>13 DEF Whole

\* The peer sends a unit.
LEMMA FPeerSendsStep == ASSUME IInv, FInv, PeerSends PROVE FInv'
<1>0. Types /\ Life /\ DetachedClean /\ outgoing # <<>> /\ ~fin
  BY DEF IInv, FInv, PeerSends, Life
<1>1. /\ inbound' = Append(inbound, Head(outgoing)) /\ outgoing' = Tail(outgoing)
      /\ UNCHANGED <<answer, fin, state, raw, body, keepaliveEligible, stale, kept>>
  BY DEF PeerSends, LocalsUnchanged, req
<1>2. inbound \in Seq(Units) /\ outgoing \in Seq(Units) /\ raw \in Seq(Units)
      /\ answer.units \in Seq(Units)
  BY <1>0, AnswerType DEF Types
<1>3. PICK x \in Nat, y \in Nat, z \in Nat, m \in Nat :
        x = Len(raw) /\ y = Len(inbound) /\ z = Len(outgoing) /\ m = Len(answer.units)
  BY <1>2
<1>4. /\ Len(inbound') = y + 1 /\ inbound'[y + 1] = outgoing[1]
      /\ \A k \in 1..y : inbound'[k] = inbound[k]
      /\ Len(outgoing') = z - 1 /\ z > 0
      /\ \A k \in 1..(z - 1) : outgoing'[k] = outgoing[k + 1]
      /\ inbound' \o outgoing' = inbound \o outgoing
  BY <1>0, <1>1, <1>2, <1>3, Sent
<1>5. Total' = Total
  <2>1. Total = x + y + z
    BY <1>3 DEF Total
  <2>2. Total' = x + (y + 1) + (z - 1)
    BY <1>1, <1>3, <1>4 DEF Total
  <2> QED BY <2>1, <2>2
<1>6. DetachedClean'
  BY <1>0, <1>1, <1>4 DEF DetachedClean, Plain
<1> SUFFICES ASSUME ~stale PROVE Stream' /\ Whole'
  BY <1>1, <1>6 DEF FInv
<1>7. Stream /\ Whole
  BY DEF FInv
<1>8. ASSUME state \in {"READING", "DONE"}, answer # NoAnswer
      PROVE  Run(raw, 0)' /\ Run(inbound, Len(raw))' /\ Run(outgoing, Len(raw) + Len(inbound))'
  <2>1. /\ \A k \in 1..y : x + k <= m + 1 => inbound[k] = Expected(x + k)
        /\ \A k \in 1..z : (x + y) + k <= m + 1 => outgoing[k] = Expected((x + y) + k)
        /\ Run(raw, 0)
    BY <1>3, <1>7, <1>8 DEF Stream, Run
  <2>2. ASSUME NEW k \in 1..(y + 1), x + k <= m + 1 PROVE inbound'[k] = Expected(x + k)
    <3>1. CASE k = y + 1
      <4>1. 1 \in 1..z /\ (x + y) + 1 = x + k
        BY <1>4, <3>1
      <4>2. outgoing[1] = Expected((x + y) + 1)
        BY <2>1, <2>2, <4>1
      <4> QED BY <1>4, <3>1, <4>1, <4>2
    <3>2. CASE k \in 1..y
      BY <1>4, <2>1, <2>2, <3>2
    <3> QED BY <3>1, <3>2
  <2>3. ASSUME NEW k \in 1..(z - 1), (x + (y + 1)) + k <= m + 1
        PROVE  outgoing'[k] = Expected((x + (y + 1)) + k)
    <3>1. k + 1 \in 1..z /\ (x + y) + (k + 1) = (x + (y + 1)) + k
      OBVIOUS
    <3> QED BY <1>4, <2>1, <2>3, <3>1
  <2>4. Run(raw, 0)'
    BY <1>1, <2>1 DEF Run, Expected
  <2>5. Run(inbound, Len(raw))'
    BY <1>1, <1>3, <1>4, <2>2 DEF Run, Expected
  <2>6. Run(outgoing, Len(raw) + Len(inbound))'
    BY <1>1, <1>3, <1>4, <2>3 DEF Run, Expected
  <2> QED BY <2>4, <2>5, <2>6
<1>9. Stream'
  <2>1. state \in {"CONNECTING", "SENDING", "READING", "DONE"} => answer # NoAnswer
    BY <1>0, <1>7 DEF Stream
  <2>2. state \in {"CONNECTING", "SENDING"} => answer = NoAnswer
    BY <1>7 DEF Stream
  <2>3. state \in {"READING", "DONE"} /\ answer # NoAnswer =>
          /\ ~ToEof(answer.head) => Total <= Len(answer.units) + 1
          /\ state = "READING" /\ ~fin => Total >= Len(answer.units) + 1
    BY <1>7 DEF Stream
  <2> QED BY <1>1, <1>5, <1>8, <2>1, <2>2, <2>3 DEF Stream
<1>10. Whole'
  <2> SUFFICES ASSUME state = "DONE", Plain
               PROVE  IF ToEof(answer.head)
                        THEN fin /\ inbound' = <<>> /\ body = Tail(raw) /\ ~keepaliveEligible
                        ELSE \E l \in Lengths(answer.head) :
                               l + 1 <= Len(raw) /\ body = SubSeq(Tail(raw), 1, l)
    BY <1>1 DEF Whole, Plain
  <2> QED BY <1>0, <1>7 DEF Whole
<1> QED BY <1>9, <1>10

\* A body without length goes on.
LEMMA FPeerGoesOnStep == ASSUME IInv, FInv, PeerGoesOn PROVE FInv'
<1>0. /\ Types /\ Life /\ state = "READING" /\ inbound = <<>> /\ outgoing = <<>> /\ ~fin /\ ~kept
      /\ answer # NoAnswer /\ ToEof(answer.head)
  BY DEF IInv, FInv, PeerGoesOn, Life, Idle
<1>1. outgoing' = <<Data>> /\ UNCHANGED <<answer, fin, state, raw, inbound, stale, kept>>
  BY DEF PeerGoesOn, PeerUnchanged, LocalsUnchanged, req
<1>2. DetachedClean'
  BY <1>0, <1>1 DEF DetachedClean
<1> SUFFICES ASSUME ~stale PROVE Stream' /\ Whole'
  BY <1>1, <1>2 DEF FInv
<1>3. Stream
  BY DEF FInv
<1>4. PICK x \in Nat, m \in Nat : x = Len(raw) /\ m = Len(answer.units)
  BY <1>0, AnswerType DEF Types
<1>5. Len(inbound) = 0 /\ Len(outgoing) = 0 /\ Len(outgoing') = 1
  BY <1>0, <1>1
<1>6. x >= m + 1
  <2>1. Total >= m + 1
    BY <1>0, <1>3, <1>4 DEF Stream
  <2>2. Total = x + 0 + 0
    BY <1>4, <1>5 DEF Total
  <2> QED BY <2>1, <2>2
<1>7. Run(outgoing, Len(raw) + Len(inbound))' /\ Total' >= m + 1
  <2>1. ASSUME NEW k \in 1..1 PROVE ~((x + 0) + k <= m + 1)
    BY <1>6
  <2>2. Total' = x + 0 + 1
    BY <1>1, <1>4, <1>5 DEF Total
  <2>3. Run(outgoing, Len(raw) + Len(inbound))'
    BY <1>1, <1>4, <1>5, <2>1 DEF Run
  <2> QED BY <1>6, <2>2, <2>3
<1>8. Run(raw, 0)' /\ Run(inbound, Len(raw))'
  BY <1>0, <1>1, <1>3 DEF Stream, Run, Expected
<1>9. Stream'
  BY <1>0, <1>1, <1>4, <1>7, <1>8 DEF Stream
<1> QED BY <1>0, <1>1, <1>9 DEF Whole

\* The peer closes the connection.
LEMMA FPeerClosesStep == ASSUME IInv, FInv, PeerCloses PROVE FInv'
<1>0. Types /\ DetachedClean
  BY DEF IInv, FInv
<1>1. /\ outgoing' = <<>> /\ fin' = TRUE
      /\ UNCHANGED <<answer, state, raw, inbound, body, keepaliveEligible, stale, kept>>
  BY DEF PeerCloses, PeerUnchanged, LocalsUnchanged, req
<1>2. inbound \in Seq(Units) /\ outgoing \in Seq(Units) /\ raw \in Seq(Units)
      /\ answer.units \in Seq(Units)
  BY <1>0, AnswerType DEF Types
<1>3. PICK x \in Nat, y \in Nat, z \in Nat, m \in Nat :
        x = Len(raw) /\ y = Len(inbound) /\ z = Len(outgoing) /\ m = Len(answer.units)
  BY <1>2
<1>4. DetachedClean'
  <2> SUFFICES ASSUME kept, Plain, ~stale
               PROVE  \E from \in Lengths(answer.head), i, j \in 0..Len(answer.units) :
                        from <= i /\ inbound \o <<>> = SubSeq(answer.units, i + 1, j)
    BY <1>1 DEF DetachedClean, Plain
  <2>1. PICK from \in Lengths(answer.head), i \in 0..m, j \in 0..m :
          from <= i /\ inbound \o outgoing = SubSeq(answer.units, i + 1, j)
    BY <1>0, <1>3 DEF DetachedClean
  <2>2. inbound \o <<>> = inbound
    BY <1>2
  <2> DEFINE t == SubSeq(answer.units, i + 1, j)
  <2>3. Len(t) = y + z /\ \A k \in 1..y : t[k] = inbound[k]
    BY <1>2, <1>3, <2>1, Concatenation, Joined
  <2>4. /\ Len(t) = IF i + 1 <= j THEN j - i ELSE 0
        /\ \A k \in 1..Len(t) : t[k] = answer.units[i + k]
    BY <1>2, <1>3
  <2> HIDE DEF t
  <2>5. i + y <= m
    <3>1. CASE i + 1 <= j
      BY <2>3, <2>4, <3>1
    <3>2. CASE ~(i + 1 <= j)
      BY <2>3, <2>4, <3>2
    <3> QED BY <3>1, <3>2
  <2>6. ASSUME NEW k \in 1..y PROVE inbound[k] = answer.units[i + k]
    <3>1. k \in 1..(y + z)
      OBVIOUS
    <3> QED BY <2>3, <2>4, <3>1
  <2>7. inbound = SubSeq(answer.units, i + 1, i + y)
    <3>1. /\ i \in Nat /\ i + Len(inbound) <= Len(answer.units)
          /\ \A k \in 1..Len(inbound) : inbound[k] = answer.units[i + k]
      BY <1>3, <2>5, <2>6
    <3>2. inbound = SubSeq(answer.units, i + 1, i + Len(inbound))
      BY <1>2, <3>1, Stretch
    <3> QED BY <1>3, <3>2
  <2>8. i + y \in 0..m
    BY <2>5
  <2> QED BY <1>3, <2>1, <2>2, <2>7, <2>8
<1> SUFFICES ASSUME ~stale PROVE Stream' /\ Whole'
  BY <1>1, <1>4 DEF FInv
<1>5. Stream /\ Whole
  BY DEF FInv
<1>6. Run(outgoing, Len(raw) + Len(inbound))'
  BY <1>1 DEF Run
<1>7. ~ToEof(answer.head) /\ state \in {"READING", "DONE"} /\ answer # NoAnswer => Total' <= m + 1
  <2> SUFFICES ASSUME ~ToEof(answer.head), state \in {"READING", "DONE"}, answer # NoAnswer
               PROVE  Total' <= m + 1
    OBVIOUS
  <2>1. x + y + z <= m + 1
    BY <1>3, <1>5 DEF Stream, Total
  <2>2. Total' = x + y + 0
    BY <1>1, <1>3 DEF Total
  <2> QED BY <2>1, <2>2
<1>8. state \in {"READING", "DONE"} /\ answer # NoAnswer =>
        Run(raw, 0)' /\ Run(inbound, Len(raw))'
  BY <1>1, <1>5 DEF Stream, Run, Expected
<1>9. Stream'
  BY <1>1, <1>3, <1>5, <1>6, <1>7, <1>8 DEF Stream
<1>10. Whole'
  BY <1>1, <1>5 DEF Whole, Plain
<1> QED BY <1>9, <1>10

\* Every step.
LEMMA FInvNext == IInv /\ IInv' /\ FInv /\ [Next]_vars => FInv'
<1> SUFFICES ASSUME IInv, IInv', FInv, [Next]_vars PROVE FInv'
  OBVIOUS
<1>1. CASE StartConnect \/ StartDonated
  BY <1>1, FStartSteps
<1>2. CASE Step
  <2>1. CASE StepRead
    BY <2>1, FReadStep
  <2>2. CASE StepReadEof
    BY <2>2, FEofStep
  <2>3. CASE StepConnected
    BY <2>3, StreamAlone DEF StepConnected, StepLocals, peer
  <2>4. CASE StepSend
    BY <2>4, StreamAlone DEF StepSend, StepLocals, peer
  <2>5. CASE \/ StepConnectTimeout \/ StepError \/ StepNoMemory \/ StepSendTimeout
             \/ StepReadTimeout
    <3>1. state' = "FAILED" /\ state # Idle
      BY <2>5 DEF StepConnectTimeout, StepError, StepNoMemory, StepSendTimeout, StepReadTimeout,
                  Fail, Active, Idle
    <3>2. UNCHANGED <<raw, inbound, outgoing, fin, answer, stale, kept>>
      BY <2>5 DEF StepConnectTimeout, StepError, StepNoMemory, StepSendTimeout, StepReadTimeout,
                  StepLocals, peer
    <3> QED BY <3>1, <3>2, StreamAlone
  <2> QED BY <1>2, <2>1, <2>2, <2>3, <2>4, <2>5 DEF Step
<1>3. CASE Release
  BY <1>3, FReleaseStep
<1>4. CASE CloseKept
  <2>1. state' = Idle /\ ~kept'
    BY <1>4 DEF CloseKept, req
  <2> QED BY <2>1 DEF FInv, Stream, Whole, DetachedClean, Idle
<1>5. CASE Peer
  <2>1. CASE PeerConnects \/ PeerWindow
    BY <2>1, StreamAlone DEF PeerConnects, PeerWindow, PeerUnchanged, LocalsUnchanged, req
  <2>2. CASE PeerAnswers
    BY <2>2, FPeerAnswersStep
  <2>3. CASE PeerUnsolicited
    BY <2>3 DEF PeerUnsolicited, FInv, DetachedClean
  <2>4. CASE PeerSends
    BY <2>4, FPeerSendsStep
  <2>5. CASE PeerGoesOn
    BY <2>5, FPeerGoesOnStep
  <2>6. CASE PeerCloses
    BY <2>6, FPeerClosesStep
  <2> QED BY <1>5, <2>1, <2>2, <2>3, <2>4, <2>5, <2>6 DEF Peer
<1>6. CASE Clock
  BY <1>6, StreamAlone DEF Clock, req, peer
<1>7. CASE UNCHANGED vars
  BY <1>7, StreamAlone DEF vars, req, peer
<1> QED BY <1>1, <1>2, <1>3, <1>4, <1>5, <1>6, <1>7 DEF Next

\* The invariant of the stream.
THEOREM StreamInvariant == Spec => []FInv
<1>1. IInv /\ IInv' /\ FInv /\ [Next]_vars => FInv'
  BY FInvNext
<1> QED BY <1>1, FInvInit, HttpInvariant, PTL DEF Spec

\* What a request leaves in a socket that is kept is behind the end of its
\* answer, whatever the peer announced and however much more it sent.
THEOREM DetachedCleanHolds == Spec => []DetachedClean
<1>1. FInv => DetachedClean
  BY DEF FInv
<1> QED BY <1>1, StreamInvariant, PTL

\* On a clean connection a request is DONE only with the answer to it, ended
\* where its length says or where the connection ended, and never with one
\* whose end two readers could place differently.
THEOREM DoneFaithfulHolds == Spec => []DoneFaithful
<1>1. ASSUME IInv, FInv PROVE DoneFaithful
  <2> SUFFICES ASSUME state = "DONE", ~stale
               PROVE  /\ status = answer.head.status
                      /\ HasLine(answer.head, "Content-Length") =>
                           Plain /\ Lengths(answer.head) = {Len(body)}
                      /\ Plain => \A k \in DOMAIN body :
                                    k <= Len(answer.units) => body[k] = answer.units[k]
                      /\ Plain /\ ToEof(answer.head) =>
                           fin /\ inbound = <<>> /\ Len(body) = Len(raw) - 1
                      /\ Plain /\ ~ToEof(answer.head) => Len(body) <= Len(answer.units)
    BY DEF DoneFaithful
  <2>0. Types /\ Stream /\ Whole /\ HeadFirst(raw) /\ status = raw[1].head.status
        /\ Framed(raw[1].head)
    BY <1>1 DEF IInv, FInv, Accepted
  <2>1. raw \in Seq(Units) /\ inbound \in Seq(Units) /\ outgoing \in Seq(Units)
        /\ answer.units \in Seq(Units) /\ answer.head \in ResponseHeads
    BY <2>0, AnswerType DEF Types
  <2>2. answer # NoAnswer /\ raw # <<>>
    BY <2>0 DEF Stream, HeadFirst
  <2>3. Run(raw, 0) /\ raw[1].head = answer.head
    BY <2>0, <2>1, <2>2, HeadRead DEF Stream
  <2>4. status = answer.head.status /\ Framed(answer.head)
    BY <2>0, <2>3
  <2>5. HasLine(answer.head, "Content-Length") => Plain
    BY <2>4 DEF HasLine, Framed, Plain
  <2>6. PICK x \in Nat, m \in Nat : x = Len(raw) /\ m = Len(answer.units) /\ x > 0
    BY <2>1, <2>2, NoUnits
  <2>7. PICK t \in Seq(Units) : /\ t = Tail(raw) /\ Len(t) = x - 1
                                /\ \A k \in 1..(x - 1) : t[k] = raw[k + 1]
    <3>1. /\ Tail(raw) \in Seq(Units) /\ Len(Tail(raw)) = x - 1
          /\ \A k \in 1..(x - 1) : Tail(raw)[k] = raw[k + 1]
      BY <2>1, <2>2, <2>6
    <3> QED BY <3>1
  <2>8. ASSUME NEW k \in 1..(x - 1), k <= m PROVE t[k] = answer.units[k]
    <3>1. k + 1 \in 1..x /\ 0 + (k + 1) = k + 1 /\ k + 1 <= m + 1 /\ k + 1 # 1 /\ (k + 1) - 1 = k
      BY <2>8
    <3>2. raw[k + 1] = Expected(k + 1)
      BY <2>3, <2>6, <3>1 DEF Run
    <3> QED BY <2>7, <3>1, <3>2 DEF Expected
  <2>9. CASE ~Plain
    BY <2>4, <2>5, <2>9
  <2>10. CASE Plain /\ ToEof(answer.head)
    <3>1. fin /\ inbound = <<>> /\ body = t
      BY <2>0, <2>7, <2>10 DEF Whole
    <3>2. DOMAIN body = 1..(x - 1) /\ Len(body) = Len(raw) - 1
      BY <2>6, <2>7, <3>1
    <3>3. \A k \in DOMAIN body : k <= Len(answer.units) => body[k] = answer.units[k]
      BY <2>6, <2>8, <3>1, <3>2
    <3>4. ~HasLine(answer.head, "Content-Length")
      BY <2>10 DEF ToEof
    <3> QED BY <2>4, <2>10, <3>1, <3>2, <3>3, <3>4
  <2>11. CASE Plain /\ ~ToEof(answer.head)
    <3>1. PICK l \in Lengths(answer.head) : l + 1 <= x /\ body = SubSeq(t, 1, l)
      BY <2>0, <2>6, <2>7, <2>11 DEF Whole
    <3>2. l \in Nat
      BY <2>1, LengthsFacts
    <3>3. l <= x - 1
      BY <2>6, <3>1, <3>2
    <3>4. Len(body) = l /\ DOMAIN body = 1..l /\ \A k \in 1..l : body[k] = t[k]
      BY <2>6, <2>7, <3>1, <3>2, <3>3
    <3>5. \A k \in DOMAIN body : k <= Len(answer.units) => body[k] = answer.units[k]
      <4> SUFFICES ASSUME NEW k \in 1..l, k <= m PROVE body[k] = answer.units[k]
        BY <2>6, <3>4
      <4>1. k \in 1..(x - 1)
        BY <3>2, <3>3
      <4> QED BY <2>8, <3>4, <4>1
    <3>6. Lengths(answer.head) = {Len(body)}
      <4>1. \A n \in Lengths(answer.head) : n = l
        BY <2>4 DEF Framed, Lengths
      <4> QED BY <3>1, <3>4, <4>1
    <3>7. Len(body) <= Len(answer.units)
      <4>1. PICK y \in Nat, z \in Nat : y = Len(inbound) /\ z = Len(outgoing)
        BY <2>1
      <4>2. x + y + z <= m + 1
        BY <2>0, <2>2, <2>6, <2>11, <4>1 DEF Stream, Total
      <4> QED BY <2>6, <3>2, <3>3, <3>4, <4>1, <4>2
    <3> QED BY <2>4, <2>11, <3>5, <3>6, <3>7
  <2> QED BY <2>9, <2>10, <2>11
<1> QED BY <1>1, HttpInvariant, StreamInvariant, PTL
=============================================================================
