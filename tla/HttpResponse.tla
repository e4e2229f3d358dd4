--------------------------- MODULE HttpResponse ---------------------------
(***************************************************************************)
(* src/http_response_parser.c: from the bytes received so far to a         *)
(* verdict.  The parser keeps no state between calls: it is called again   *)
(* on the whole buffer whenever bytes have arrived, and it decodes a       *)
(* chunked body in place.                                                  *)
(*                                                                         *)
(* A response is a head (status line and header lines, up to the empty     *)
(* line) followed by octets.  An octet is what the parser tells apart: a    *)
(* carriage return, a line feed, a semicolon, a hexadecimal digit, or any  *)
(* other.  Every kind may be payload.  Of a head that has arrived in part  *)
(* the parser sees no end: it is one that has not arrived.                 *)
(***************************************************************************)
EXTENDS Integers, Sequences

CONSTANT RespMax      \* OTLP_HTTP_RESP_MAX

Octet(kind) == [kind |-> kind, n |-> 0]
Data        == Octet("data")
Cr          == Octet("cr")
Lf          == Octet("lf")
Semi        == Octet("semi")
Hex(n)      == [kind |-> "hex", n |-> n]
Octets      == [kind : {"data", "cr", "lf", "semi", "hex"}, n : 0..15]

HeaderLines   == [name : STRING, num : Nat, word : STRING]
ResponseHeads == [statusLine : BOOLEAN, status : Nat, http11 : BOOLEAN,
                  lines : Seq(HeaderLines)]

HeadUnit(head) == [kind |-> "head", head |-> head]
Units == Octets \cup [kind : {"head"}, head : ResponseHeads]

\* "\r\n" at position i; find_substring of "\r\n\r\n" from there on.
LineEnd(buf, i) == i + 1 <= Len(buf) /\ buf[i] = Cr /\ buf[i + 1] = Lf
EmptyLine(buf, from) == \E i \in from..Len(buf) : LineEnd(buf, i) /\ LineEnd(buf, i + 2)

\* The verdicts of the parser: complete, need more, malformed.
Complete == 1
NeedMore == 0
Bad      == -1

(***************************************************************************)
(* The header scan, line by line                                           *)
(***************************************************************************)
NoLength == -1

ScanLine(scan, line) ==
  CASE line.name = "Content-Length" ->
         [scan EXCEPT !.bad = @ \/ line.num > RespMax
                                \/ (scan.length # NoLength /\ scan.length # line.num),
                      !.length = line.num]
    [] line.name = "Transfer-Encoding" ->
         [scan EXCEPT !.te = TRUE, !.chunked = @ \/ line.word = "chunked"]
    [] line.name = "Connection" ->
         [scan EXCEPT !.keepalive = CASE line.word = "close" -> FALSE
                                      [] line.word = "keep-alive" -> TRUE
                                      [] OTHER -> @]
    [] OTHER -> scan

NoLines(head) == [length |-> NoLength, te |-> FALSE, chunked |-> FALSE, bad |-> FALSE,
                  keepalive |-> head.http11]

ScanHeaders(head) ==
  LET scan[i \in 0..Len(head.lines)] ==
        IF i = 0 THEN NoLines(head) ELSE ScanLine(scan[i - 1], head.lines[i])
  IN scan[Len(head.lines)]

(***************************************************************************)
(* decode_chunked_in_place.  The decoded octets are compacted to the front *)
(* of the buffer, behind what is still to be read: a call reads the buffer *)
(* as it came, and leaves another one.                                     *)
(***************************************************************************)
\* The first octet of one of these kinds, or the end of the buffer.
FirstOf(buf, from, kinds) ==
  CHOOSE i \in from..(Len(buf) + 1) :
    /\ i = Len(buf) + 1 \/ buf[i].kind \in kinds
    /\ \A j \in from..(i - 1) : buf[j].kind \notin kinds

\* The number the digits from..stop-1 are, as far as it is not over the limit.
ChunkSize(buf, from, stop) ==
  LET value[i \in 0..(stop - from)] ==
        IF i = 0 THEN 0
        ELSE LET v == 16 * value[i - 1] + buf[from + i - 1].n
             IN IF v > RespMax THEN RespMax + 1 ELSE v
  IN value[stop - from]

\* Behind the last chunk: an empty line, after trailers or at once.
EndOfTrailers(buf, from) ==
  \E i \in from..Len(buf) : LineEnd(buf, i) /\ (i = from \/ LineEnd(buf, i + 2))

\* A chunk's octets and where the next one begins; the last one has none behind
\* it, and of a chunk that is bad or not all there only that is known.
Chunk(octets, next) == [rc |-> Complete, octets |-> octets, next |-> next]
LastOrNone(rc)      == [rc |-> rc, octets |-> <<>>, next |-> 0]

\* The chunk-size line is digits, an extension that is skipped and a line end.
\* The chunk's octets begin behind it, and at `end` their own line end is due.
DecodeChunk(buf, src) ==
  LET stop  == FirstOf(buf, src, {"cr", "semi", "data", "lf", "head"})
      first == FirstOf(buf, src, {"cr"}) + 2
      size  == ChunkSize(buf, src, stop)
      end   == first + size
  IN IF \/ size \notin 0..RespMax
        \/ stop <= Len(buf) /\ buf[stop] \notin {Cr, Semi}
       THEN LastOrNone(Bad)
     ELSE IF stop = src \/ first > Len(buf) + 1 THEN LastOrNone(NeedMore)
     ELSE IF buf[first - 1] # Lf THEN LastOrNone(Bad)
     ELSE IF size = 0
       THEN LastOrNone(IF EndOfTrailers(buf, first) THEN Complete ELSE NeedMore)
     ELSE IF end + 1 > Len(buf) THEN LastOrNone(NeedMore)
     ELSE IF ~LineEnd(buf, end) THEN LastOrNone(Bad)
     ELSE Chunk(SubSeq(buf, first, end - 1), end + 2)

\* The chunks' verdict and the octets decoded so far, from the octet src on.
Decoded(rc, body) == [rc |-> rc, body |-> body]

DecodeFrom(buf) ==
  LET chunks[src \in 1..(Len(buf) + 1)] ==
        LET c == DecodeChunk(buf, src) IN
        IF c.next = 0 THEN Decoded(c.rc, <<>>)
        ELSE [chunks[c.next] EXCEPT !.body = c.octets \o @]
  IN chunks

\* The buffer with the decoded octets moved to its front, over the framing.
Compact(buf, body) == [i \in DOMAIN buf |-> IF i \in DOMAIN body THEN body[i] ELSE buf[i]]

decode_chunked_in_place(buf) == DecodeFrom(buf)[1]

(***************************************************************************)
(* otlp_http_resp_parse.  The result says what has become of the buffer,   *)
(* too.                                                                    *)
(***************************************************************************)
Verdict(rc, buf, body, keepalive) ==
  [rc |-> rc, buf |-> buf, body |-> body, keepalive |-> keepalive]

Undecided(rc, buf) == Verdict(rc, buf, <<>>, FALSE)

\* A body of known length; mutant: one octet short.
LengthOneShort(buf, length, keepalive) ==
  IF Len(buf) + 1 < length THEN Undecided(NeedMore, buf)
  ELSE Verdict(Complete, buf, buf, keepalive)

ParseLength(buf, length, keepalive) ==
  IF Len(buf) < length THEN Undecided(NeedMore, buf)
  ELSE Verdict(Complete, buf, SubSeq(buf, 1, length), keepalive)

\* A body that ends with the connection; mutant: it ends with the buffer.
UntilNow(buf, at_eof) == Verdict(Complete, buf, buf, FALSE)

ParseUntilEof(buf, at_eof) ==
  IF at_eof THEN Verdict(Complete, buf, buf, FALSE) ELSE Undecided(NeedMore, buf)

ParseChunked(buf, keepalive) ==
  LET d == decode_chunked_in_place(buf)
  IN Verdict(d.rc, Compact(buf, d.body), d.body, keepalive)

\* A head and the octets behind it.
ParseBody(head, buf, at_eof) ==
  LET scan == ScanHeaders(head)
      malformed == \/ ~head.statusLine \/ scan.bad
                   \/ scan.te /\ (scan.length # NoLength \/ ~scan.chunked)
      length == ~scan.te /\ scan.length # NoLength
  IN CASE malformed -> Undecided(Bad, buf)
       [] ~malformed /\ scan.te -> ParseChunked(buf, scan.keepalive)
       [] ~malformed /\ length -> ParseLength(buf, scan.length, scan.keepalive)
       [] OTHER -> ParseUntilEof(buf, at_eof)

\* An empty line ends the header block, which must begin like a head.
HeadEnds(buf) == EmptyLine(buf, 1) \/ \E i \in DOMAIN buf : buf[i].kind = "head"

otlp_http_resp_parse(buf, at_eof) ==
  CASE ~HeadEnds(buf) -> Undecided(NeedMore, buf)
    [] HeadEnds(buf) /\ buf[1].kind # "head" -> Undecided(Bad, buf)
    [] OTHER -> LET v == ParseBody(buf[1].head, Tail(buf), at_eof)
                IN [v EXCEPT !.buf = <<buf[1]>> \o @]
===========================================================================
