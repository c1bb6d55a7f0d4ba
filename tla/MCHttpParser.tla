---------------------------- MODULE MCHttpParser ----------------------------
(* Instances of HttpParser for TLC. *)
EXTENDS HttpParser

Byte(n)   == <<"byte", n>>
Field(n)  == <<"header", n>>
Length(n) == <<"length", n>>

Message(code, lines, payload, body, chunks, trailer) ==
  [wire |-> Line(<<"status", code>>) \o Lines(lines) \o Eol \o payload,
   ok |-> TRUE, code |-> code, lines |-> lines, headers |-> FieldsIn(lines),
   body |-> body, chunks |-> chunks, trailer |-> trailer, framed |-> TRUE]

Plain(code, lines, body) == Message(code, lines, body, body, <<>>, <<>>)

Split(code, lines, chunks, trailer) ==
  Message(code, lines, InChunks([chunks |-> chunks, trailer |-> trailer]),
          FlattenSeq(chunks), chunks, trailer)

\* A body with a length, which looks like the end of a line.
Identity == Plain(200, <<Length(3)>>, <<Byte(1), CR, LF>>)

\* Two chunks; a length given beside them is not used.
Chunked ==
  Split(200, <<Length(1), <<"chunked", 0>>>>, <<<<CR, Byte(2)>>, <<Byte(3)>>>>, <<>>)

\* A trailer of one line.
Trailered == Split(500, <<<<"chunked", 0>>>>, <<<<Byte(4)>>>>, <<Field(0)>>)

\* No body; more headers than are kept, and a line that is none.
Empty == Plain(404, <<Length(0), <<"junk", 0>>, Field(1), Field(2)>>, <<>>)

\* Neither a length nor chunks, but a header twice.
Bare == Plain(204, <<Field(1), Field(2)>>, <<>>)

Malformed ==
  [Plain(0, <<>>, <<>>) EXCEPT !.ok = FALSE, !.wire = Line(<<"junk", 0>>) \o Eol]

\* The length is in a header that is not kept.
LateLength ==
  [Plain(200, <<Field(1), Field(2), Length(1)>>, <<Byte(5)>>) EXCEPT !.framed = FALSE]

\* An interim response comes first.
Interim ==
  LET final == Plain(200, <<Length(0)>>, <<>>)
  IN  [final EXCEPT !.wire = Line(<<"status", 100>>) \o Eol \o @, !.framed = FALSE]

EveryMessage ==
  {Identity, Chunked, Trailered, Empty, Bare, Malformed, LateLength, Interim}
ChunkedOnly  == {Chunked}
=============================================================================
