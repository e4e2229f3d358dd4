---- MODULE MCHttpRequest ----
(* Small instances of HttpRequest for TLC: what the collector may send. *)
EXTENDS HttpRequest, TLC

Line(name, num, word) == [name |-> name, num |-> num, word |-> word]
ContentLength(n) == Line("Content-Length", n, "")
Coding(word) == Line("Transfer-Encoding", 0, word)
Connection(word) == Line("Connection", 0, word)

Http11(code, lines) == [statusLine |-> TRUE, status |-> code, http11 |-> TRUE, lines |-> lines]
Answer(head, units) == [head |-> head, units |-> units]

\* Bodies by length, by the end of the connection, and none; payload that is the
\* framing of something else.
Simple == {Answer(Http11(200, <<ContentLength(2)>>), <<Data, Data>>),
           Answer(Http11(200, <<ContentLength(4)>>), <<Cr, Lf, Cr, Lf>>),
           Answer(Http11(503, <<ContentLength(0)>>), <<>>),
           Answer(Http11(200, <<>>), <<Data>>)}

\* More octets than announced: a line end behind the body, a second body.
Surplus == {Answer(Http11(200, <<ContentLength(0)>>), <<Cr, Lf>>),
            Answer(Http11(200, <<ContentLength(1)>>), <<Hex(1), Data>>)}

\* "408 Request Timeout" to a connection that was idle for long.
IdleTimeout == {Answer(Http11(408, <<ContentLength(0), Connection("close")>>), <<>>)}

\* A chunk; with payload that looks like the last chunk; none, with an extension
\* and a trailer; and bad ones: no size, too large a size, no line end.
Chunked(units) == Answer(Http11(200, <<Coding("chunked")>>), units)
LastChunk == <<Hex(0), Cr, Lf, Cr, Lf>>
OneChunk == Chunked(<<Hex(1), Cr, Lf, Data, Cr, Lf>> \o LastChunk)
NoChunk == Chunked(<<Hex(0), Semi, Data, Cr, Lf, Data, Cr, Lf, Cr, Lf>>)
FramingChunk == Chunked(<<Hex(5), Cr, Lf>> \o LastChunk \o <<Cr, Lf>> \o LastChunk)
BadChunks == {Chunked(<<Cr, Lf>>), Chunked(<<Hex(1), Hex(0), Cr, Lf>>), Chunked(<<Hex(0), Cr, Data>>),
             Chunked(<<Hex(1), Cr, Lf, Data, Data, Cr>>), Chunked(<<Data>>)}

\* Heads that differ in version, framing and persistence.
Heads == {Http11(200, <<l, m>>) :
            l \in {ContentLength(1), ContentLength(2), Coding("chunked"), Connection("close")},
            m \in {ContentLength(1), ContentLength(2), Connection("keep-alive")}}
         \cup {Http11(200, <<ContentLength(99)>>), Http11(200, <<Coding("gzip")>>),
               [Http11(200, <<ContentLength(1)>>) EXCEPT !.http11 = FALSE],
               [Http11(200, <<ContentLength(1)>>) EXCEPT !.statusLine = FALSE]}
Headed == {Answer(h, <<Data>>) : h \in Heads}

\* Everything above.
AnyAnswer == Simple \cup Surplus \cup Headed \cup BadChunks \cup {NoChunk, OneChunk}
\* One answer whose chunks are read in pieces, in full.
JustOneChunk == {OneChunk}
JustFraming == {FramingChunk}
====
