------------------------------ MODULE HttpParser ------------------------------
(***************************************************************************)
(* The incremental HTTP response parser (src/src/js_http_parser.c), fed    *)
(* with whatever segments the network makes of the byte stream, and the    *)
(* client above it that asks for one response after another on persistent  *)
(* connections (worker_on_read and worker_conn_process in js_worker.c), or *)
(* makes each of them into the Response of a fetch on a connection of its  *)
(* own (js_fetch_on_read and js_fetch_complete in js_fetch.c).             *)
(*                                                                         *)
(* The stream is a sequence of tokens <<kind, number>>: the text of a line *)
(* is one token ("status" with its code, "length" with its value,          *)
(* "chunked", "header" for any other header, "size" with a chunk size,     *)
(* "junk" for text without a colon), and so are CR, LF and each byte of a  *)
(* body ("byte", numbered).  A segment that ends inside a text parses like *)
(* one that ends before it, as every line is looked for by its CRLF.       *)
(*                                                                         *)
(* js_http_response_feed is a loop; its iterations are the Parse actions,  *)
(* and nothing else happens before it returns.                             *)
(***************************************************************************)
EXTENDS WebObjects

CONSTANTS
  Messages,      \* external: the responses a server may send, records of
                 \*   wire  its tokens
                 \*   ok    whether it is well formed
                 \*   code  its status
                 \*   lines  its lines between the status and the empty line
                 \*   headers  those of them that are headers
                 \*   body  its body
                 \*   chunks  the parts the body is sent in, if it is chunked,
                 \*   trailer  and the headers after the last of them
                 \*   framed  whether its end is where the parser looks for it
  MaxHeaders,    \* JS_MAX_HEADERS
  Requests,      \* bound: the number of requests made
  PeerCloses,    \* whether the server may close a connection
  WholeTrailers  \* whether no segment ends after a line of the end of a chunked
                 \* body that is not its last

Kinds  == {"status", "length", "chunked", "header", "size", "junk", "cr", "lf", "byte"}
Tokens == Kinds \X Nat
Texts  == (Kinds \ {"cr", "lf", "byte"}) \X Nat
Fields == {"length", "chunked", "header"} \X Nat
CR == <<"cr", 0>>
LF == <<"lf", 0>>

-----------------------------------------------------------------------------
(* What servers send *)

Eol          == <<CR, LF>>
Line(text)   == <<text>> \o Eol
Lines(texts) == FlattenSeq([i \in DOMAIN texts |-> Line(texts[i])])

\* The headers among the lines; the parser keeps the first of them.
FieldsIn(lines) ==
  FlattenSeq([i \in DOMAIN lines |->
                IF lines[i] \in Fields THEN <<lines[i]>> ELSE <<>>])
Kept(m) == SubSeq(m.headers, 1, Min({MaxHeaders, Len(m.headers)}))

\* How the body is sent.
IsChunked(m) == "chunked" \in Names(Kept(m))
LengthOf(m)  == IF "length" \in Names(Kept(m)) THEN Get(Kept(m), "length") ELSE 0
Chunk(data)  == Line(<<"size", Len(data)>>) \o data \o Eol
Chunks(list) == FlattenSeq([i \in DOMAIN list |-> Chunk(list[i])])
Ending(m)    == Lines(m.trailer) \o Eol
InChunks(m)  == Chunks(m.chunks) \o Line(<<"size", 0>>) \o Ending(m)

\* A response that ends where the parser looks for its end.
WellFormed(m) ==
  /\ m.headers = FieldsIn(m.lines)
  /\ m.wire = Line(<<"status", m.code>>) \o Lines(m.lines) \o Eol
               \o (IF IsChunked(m) THEN InChunks(m) ELSE m.body)
  /\ IF IsChunked(m) THEN m.body = FlattenSeq(m.chunks) ELSE Len(m.body) = LengthOf(m)

\* One whose first line is no status line.
IllFormed(m) ==
  /\ m.wire[1][1] # "status"
  /\ \E i \in 1 .. Len(m.wire) - 1 : m.wire[i] = CR /\ m.wire[i + 1] = LF

ASSUME MessagesAssumption ==
  \A m \in Messages :
    /\ DOMAIN m = {"wire", "ok", "code", "lines", "headers", "body", "chunks",
                   "trailer", "framed"}
    /\ m.ok \in BOOLEAN /\ m.framed \in BOOLEAN /\ m.code \in Nat
    /\ m.wire \in Seq(Tokens) /\ m.wire # <<>>
    /\ m.lines \in Seq(Texts) /\ m.headers \in Seq(Tokens)
    /\ m.body \in Seq(Tokens) /\ m.chunks \in Seq(Seq(Tokens) \ {<<>>})
    /\ m.trailer \in Seq(Fields)
    /\ m.framed => IF m.ok THEN WellFormed(m) ELSE IllFormed(m)
ASSUME LimitsAssumption ==
  /\ MaxHeaders \in Nat /\ Requests \in Nat \ {0}
  /\ PeerCloses \in BOOLEAN /\ WholeTrailers \in BOOLEAN

-----------------------------------------------------------------------------
VARIABLES
  r,        \* js_http_response_t
  feeding,  \* in js_http_response_feed
  stream,   \* external: what the server sent on the connection, not yet read
  fin,      \* external: the server has closed it after that
  cut,      \* external: and has left out part of the response
  lost,     \* external: the connection has carried one whose end is elsewhere
  asked,    \* history: the response the server had for each request
  results   \* what was made of it: recorded as a response or counted as error

net  == <<stream, fin, cut, lost>>
vars == <<r, feeding, net, asked, results>>

ParseStates ==
  {"status_line", "header_line", "body_identity", "chunk_size", "chunk_data",
   "chunk_trailer", "done", "error"}

TypeOK ==
  /\ DOMAIN r = {"state", "code", "headers", "body", "length", "remaining", "buf"}
  /\ r.state \in ParseStates
  /\ r.code \in Nat /\ r.length \in Nat /\ r.remaining \in Nat
  /\ r.headers \in Seq(Tokens) /\ Len(r.headers) <= MaxHeaders
  /\ r.body \in Seq(Tokens) /\ r.buf \in Seq(Tokens)
  /\ {feeding, fin, cut, lost} \subseteq BOOLEAN
  /\ stream \in Seq(Tokens)
  /\ asked \in Seq(Messages)
  /\ \A k \in DOMAIN results :
       /\ DOMAIN results[k] = {"made", "response", "cut", "lost"}
       /\ results[k].response.body \in Seq(Tokens)
       /\ results[k].response.headers \in Seq(Tokens)

\* Mutant: the body of the last response stays.
ResponseResetKeepsBody(p) ==
  [state |-> "status_line", code |-> 0, headers |-> <<>>, body |-> p.body,
   length |-> 0, remaining |-> 0, buf |-> <<>>]

\* js_http_response_reset: the buffer and all that was parsed are dropped.
ResponseReset(p) ==
  [state |-> "status_line", code |-> 0, headers |-> <<>>, body |-> <<>>,
   length |-> 0, remaining |-> 0, buf |-> <<>>]

Init ==
  \E m \in Messages :
    /\ r = [state |-> "status_line", code |-> 0, headers |-> <<>>, body |-> <<>>,
            length |-> 0, remaining |-> 0, buf |-> <<>>]
    /\ feeding = FALSE
    /\ stream = m.wire
    /\ fin = FALSE
    /\ cut = FALSE
    /\ lost = ~m.framed
    /\ asked = <<m>>
    /\ results = <<>>

-----------------------------------------------------------------------------
(* The buffer *)

\* Mutant: one at the very start is not seen.
FindCrlfLate(buf) ==
  LET At == {i \in 2 .. Len(buf) - 1 : buf[i] = CR /\ buf[i + 1] = LF}
  IN  IF At = {} THEN 0 ELSE CHOOSE i \in At : \A j \in At : i <= j

\* The first CRLF in the buffer, 0 if there is none.
FindCrlf(buf) ==
  LET At == {i \in 1 .. Len(buf) - 1 : buf[i] = CR /\ buf[i + 1] = LF}
  IN  IF At = {} THEN 0 ELSE CHOOSE i \in At : \A j \in At : i <= j

LineOf(buf, pos)  == SubSeq(buf, 1, pos - 1)
Consume(buf, n)   == SubSeq(buf, n + 1, Len(buf))
AfterLine(buf, pos) == Consume(buf, pos + 1)

\* js_http_response_header: the first header of the kind, or none.
HeadersOf(kind) == {i \in DOMAIN r.headers : r.headers[i][1] = kind}
HasHeader(kind) == HeadersOf(kind) # {}
HeaderValue(kind) ==
  r.headers[CHOOSE i \in HeadersOf(kind) : \A j \in HeadersOf(kind) : i <= j][2]

\* strtoul: text that is no number is 0.
SizeOf(line) == IF line # <<>> /\ line[1][1] = "size" THEN line[1][2] ELSE 0

\* A line with a colon is a header; one that is not just the header it looks
\* like has another name.
HasColon(line) ==
  \E i \in DOMAIN line : line[i][1] \in {"length", "chunked", "header"}
HeaderOf(line) == IF Len(line) = 1 THEN line[1] ELSE <<"header", 0>>

-----------------------------------------------------------------------------
(* js_http_response_feed *)

\* The loop is at an iteration in the given state.
At(state) == feeding /\ r.state = state

\* The iteration leaves p and the loop goes on;
Parse(p) ==
  /\ r' = p
  /\ UNCHANGED <<feeding, net, asked, results>>

\* or js_http_response_feed returns for more data.
Starve(p) ==
  /\ r' = p
  /\ feeding' = FALSE
  /\ UNCHANGED <<net, asked, results>>

IsStatus(line) == line # <<>> /\ line[1][1] = "status"

StatusLine ==
  LET pos  == FindCrlf(r.buf)
      line == LineOf(r.buf, pos)
  IN
  /\ At("status_line")
  /\ \/ pos = 0 /\ Starve(r)
     \/ /\ pos > 0
        /\ IsStatus(line)
        /\ Parse([r EXCEPT !.code = line[1][2],
                              !.buf = AfterLine(r.buf, pos),
                              !.state = "header_line"])
     \/ /\ pos > 0
        /\ ~IsStatus(line)
        /\ Parse([r EXCEPT !.state = "error"])

\* The headers are complete: how the body is framed, if there is one.
BodyMode(p) ==
  CASE HasHeader("chunked") -> [p EXCEPT !.state = "chunk_size"]
    [] ~HasHeader("chunked") /\ HasHeader("length") ->
         [p EXCEPT !.length = HeaderValue("length"),
                   !.state = IF HeaderValue("length") = 0 THEN "done"
                             ELSE "body_identity"]
    [] OTHER -> [p EXCEPT !.state = "done"]

HeaderLine ==
  LET pos   == FindCrlf(r.buf)
      line  == LineOf(r.buf, pos)
      after == [r EXCEPT !.buf = AfterLine(r.buf, pos)]
  IN
  /\ At("header_line")
  /\ \/ pos = 0 /\ Starve(r)
     \/ pos = 1 /\ Parse(BodyMode(after))
     \/ /\ pos > 1
        /\ HasColon(line) /\ Len(r.headers) < MaxHeaders
        /\ Parse([after EXCEPT !.headers = Append(@, HeaderOf(line))])
     \/ /\ pos > 1
        /\ ~HasColon(line) \/ Len(r.headers) >= MaxHeaders
        /\ Parse(after)

\* Mutant: all of the buffer is taken, however little is wanted.
LeastFirst(a, b) == a

Least(a, b) == IF a < b THEN a ELSE b

\* So much of the buffer goes to the body.
TakeBody(n) ==
  [r EXCEPT !.body = @ \o SubSeq(r.buf, 1, n), !.buf = Consume(r.buf, n)]

BodyIdentity ==
  LET avail == Least(Len(r.buf), r.length - Len(r.body))
      p     == TakeBody(avail)
  IN
  /\ At("body_identity")
  /\ \/ /\ Len(p.body) >= r.length
        /\ Parse([p EXCEPT !.state = "done"])
     \/ /\ Len(p.body) < r.length
        /\ Starve(p)

ChunkSize ==
  LET pos   == FindCrlf(r.buf)
      size  == SizeOf(LineOf(r.buf, pos))
      after == [r EXCEPT !.buf = AfterLine(r.buf, pos)]
  IN
  /\ At("chunk_size")
  /\ \/ pos = 0 /\ Starve(r)
     \/ /\ pos > 0 /\ size = 0
        /\ Parse([after EXCEPT !.state = "chunk_trailer"])
     \/ /\ pos > 0 /\ size > 0
        /\ Parse([after EXCEPT !.remaining = size, !.state = "chunk_data"])

\* The two bytes after the data of a chunk, if they are there.
ChunkEnd(p) ==
  IF p.remaining = 0 /\ Len(p.buf) >= 2
    THEN [p EXCEPT !.buf = Consume(p.buf, 2), !.state = "chunk_size"]
    ELSE p

ChunkData ==
  LET avail == Least(Len(r.buf), r.remaining)
      p     == ChunkEnd([TakeBody(avail) EXCEPT !.remaining = @ - avail])
  IN
  /\ At("chunk_data")
  /\ \/ p.state = "chunk_size" /\ Parse(p)
     \/ p.state = "chunk_data" /\ Starve(p)

\* Mutant: any line of the trailer ends it.
TrailerLineLast(pos) == pos > 0

\* The empty line that ends the trailer.
TrailerLine(pos) == pos = 1

ChunkTrailer ==
  LET pos   == FindCrlf(r.buf)
      after == [r EXCEPT !.buf = AfterLine(r.buf, pos)]
  IN
  /\ At("chunk_trailer")
  /\ \/ /\ pos = 0 /\ r.buf = <<>>
        /\ Parse([r EXCEPT !.state = "done"])
     \/ /\ pos = 0 /\ r.buf # <<>>
        /\ Starve(r)
     \/ /\ pos > 0 /\ TrailerLine(pos)
        /\ Parse([after EXCEPT !.state = "done"])
     \/ /\ pos > 0 /\ ~TrailerLine(pos)
        /\ Parse(after)

-----------------------------------------------------------------------------
(* The client *)

Current == asked[Len(asked)]

\* A segment of n tokens ends after a line at the end of a chunked body.
EndsInTrailer(n) ==
  /\ IsChunked(Current)
  /\ stream[n] = LF
  /\ Len(stream) - n \in 1 .. Len(Ending(Current))

\* js_conn_read has drained what has arrived into the input buffer, which is
\* appended to the parser's.
Read(n) ==
  /\ ~feeding
  /\ r.state \notin {"done", "error"}
  /\ WholeTrailers => ~EndsInTrailer(n)
  /\ r' = [r EXCEPT !.buf = @ \o SubSeq(stream, 1, n)]
  /\ stream' = Consume(stream, n)
  /\ feeding' = TRUE
  /\ UNCHANGED <<fin, cut, lost, asked, results>>

\* The peer closed before the response was complete (rc == 1).
ReadEof ==
  /\ ~feeding
  /\ r.state \notin {"done", "error"}
  /\ stream = <<>> /\ fin
  /\ r' = [r EXCEPT !.state = IF r.state = "body_identity" \/ r.body # <<>>
                              THEN "done" ELSE "error"]
  /\ UNCHANGED <<feeding, net, asked, results>>

\* The response m to the next request: on the same connection, where nothing
\* comes if the server has closed it meanwhile, or on a new one.
KeepAlive(m) ==
  /\ stream' = IF fin THEN stream ELSE stream \o m.wire
  /\ fin' = fin
  /\ cut' = fin
  /\ lost' = (lost \/ ~m.framed)

Reconnect(m) ==
  /\ stream' = m.wire
  /\ fin' = FALSE
  /\ cut' = FALSE
  /\ lost' = ~m.framed

\* What was made of the response: a Response, or an error.
Result(made) ==
  [made |-> made, response |-> ResponseNew(r), cut |-> cut, lost |-> lost]

\* worker_conn_process, when the response is complete, or js_fetch_complete.
Complete ==
  /\ r.state = "done"
  /\ Len(results) < Len(asked)
  /\ results' = Append(results, Result(TRUE))
  /\ r' = ResponseReset(r)
  /\ feeding' = FALSE
  /\ \/ /\ Len(asked) < Requests
        /\ \E m \in Messages :
             /\ asked' = Append(asked, m)
             /\ KeepAlive(m) \/ Reconnect(m)
     \/ /\ Len(asked) = Requests
        /\ UNCHANGED <<net, asked>>

\* worker_conn_process, when it failed.
Fail ==
  /\ r.state = "error"
  /\ results' = Append(results, Result(FALSE))
  /\ r' = ResponseReset(r)
  /\ feeding' = FALSE
  /\ \/ /\ Len(asked) < Requests
        /\ \E m \in Messages : asked' = Append(asked, m) /\ Reconnect(m)
     \/ /\ Len(asked) = Requests
        /\ UNCHANGED <<net, asked>>

Working == Len(results) < Requests

\* The server closes the connection after k of the tokens not read yet.
Close(k) ==
  /\ PeerCloses
  /\ ~fin
  /\ fin' = TRUE
  /\ stream' = SubSeq(stream, 1, k)
  /\ cut' = (k < Len(stream))
  /\ UNCHANGED <<r, feeding, lost, asked, results>>

FeedNext ==
  \/ StatusLine
  \/ HeaderLine
  \/ BodyIdentity
  \/ ChunkSize
  \/ ChunkData
  \/ ChunkTrailer

ClientNext ==
  /\ Working
  /\ \/ FeedNext
     \/ \E n \in 1 .. Len(stream) : Read(n)
     \/ ReadEof
     \/ Complete
     \/ Fail

ServerNext == Working /\ \E k \in 0 .. Len(stream) : Close(k)

\* The requests were all made.
Finished == ~Working /\ UNCHANGED vars

Next == ClientNext \/ ServerNext \/ Finished

Spec == Init /\ [][Next]_vars

\* The thread runs, and what the server sent arrives.
FairSpec == Spec /\ WF_vars(ClientNext)

-----------------------------------------------------------------------------
(* Properties *)

IsPrefixOf(s, t) == Len(s) <= Len(t) /\ s = SubSeq(t, 1, Len(s))

\* Whatever segments the stream comes in, every response that arrived whole is
\* recorded with its status and its body or, if malformed, counted as an
\* error; one that the peer cut short is recorded with what there was of its
\* body at most.  A response that ends elsewhere than the parser thinks spoils
\* those that follow it on its connection, but none on another.
Faithful ==
  \A k \in DOMAIN results :
    LET m        == asked[k]
        made     == results[k].made
        response == results[k].response
    IN  ~results[k].lost =>
          /\ ~results[k].cut => made = m.ok
          /\ made /\ ~results[k].cut => response.body = m.body
          /\ made => /\ m.ok /\ response.code = m.code
                     /\ response.ok = (m.code \in 200 .. 299)
                     /\ IsPrefixOf(response.body, m.body)

\* h has each name of the list once, in the order of their first lines, with the
\* value of its last line.
Summarises(h, list) ==
  LET FirstLine(name) == Min({i \in DOMAIN list : list[i][1] = name})
      LastLine(name)  == Max({i \in DOMAIN list : list[i][1] = name})
  IN  /\ Names(h) = Names(list)
      /\ \A name \in Names(h) : Get(h, name) = list[LastLine(name)][2]
      /\ \A i, j \in DOMAIN h : i < j => FirstLine(h[i][1]) < FirstLine(h[j][1])

\* The Headers of a Response summarise the headers that are kept.
HeadersReported ==
  \A k \in DOMAIN results :
    results[k].made /\ ~results[k].lost =>
      Summarises(results[k].response.headers, Kept(asked[k]))

\* A response is complete when all of it has been taken off the connection and
\* not before, so the next one on the connection starts where it ended; only one
\* that the peer cut short is taken for complete with a rest in the buffer.
Framed == r.state = "done" /\ ~cut /\ ~lost => stream = <<>> /\ r.buf = <<>>

\* The client never waits for more of a response it has all of: nothing would
\* wake it, as a connection of the C path has no timeout.
NoStarvation == ~feeding /\ stream = <<>> /\ ~fin => ~Working \/ r.state = "done"

\* js_http_response_feed always returns, and every request is settled.
Settles == <>(~Working)
=============================================================================
