-------------------------------- MODULE Conn --------------------------------
(***************************************************************************)
(* One client connection: the non-blocking socket the kernel keeps, the    *)
(* js_conn_t state machine above it (src/src/js_conn.c) and the mapping of *)
(* OpenSSL results to it (src/src/js_tls.c).  Everything is an operator on *)
(* two records, so that the modules that own connections (the C-path       *)
(* worker, the fetch loop) can use it for each of theirs.                  *)
(*                                                                         *)
(*   c : js_conn_t                                                         *)
(*     state      conn_state_t; "none" is a slot whose js_conn_create      *)
(*                returned NULL and "freed" one js_conn_free has released  *)
(*     fd         whether socket.fd is open                                *)
(*     req_index  the request the connection is on                         *)
(*     out, left  the request in the output buffer, and how much of it is  *)
(*                not written yet (out.len - out.pos), in units of ReqLen  *)
(*     rsp        how far the response parser is: "head" until a body byte *)
(*                was seen, "body" after (HTTP_PARSE_BODY_IDENTITY or      *)
(*                body_len > 0)                                            *)
(*                                                                         *)
(*   s : the socket, external to the program                               *)
(*     st    "closed", "syn", "est", "fail" (connect failed, SO_ERROR set) *)
(*           or "rst" (reset by the peer)                                  *)
(*     rx    the unread bytes, by how far they take the response           *)
(*     fin   the peer has closed its side                                  *)
(*     full  the send buffer is full                                       *)
(*     tls   the handshake: "none", "hello" (ours sent), "flight" (the     *)
(*           peer's answer unread), "bad" (an alert unread), "up"          *)
(*     wire  the request whose bytes were last sent on the socket          *)
(*     sent  how far the peer's response to it has been sent               *)
(***************************************************************************)
EXTENDS Integers

CONSTANTS
  RequestCount,  \* cfg->request_count
  ReqLen         \* the length of a request, in units one write can accept

ASSUME RequestCountAssumption == RequestCount \in Nat \ {0}
ASSUME ReqLenAssumption == ReqLen \in Nat \ {0}

Reqs  == 0 .. RequestCount - 1
NoReq == -1

LiveStates == {"connecting", "tls_handshake", "writing", "reading"}
ConnStates == LiveStates \cup {"none", "done", "error", "freed"}
Pieces     == {"head", "body", "end", "bad"}

ConnType ==
  [state : ConnStates, fd : BOOLEAN, req_index : Reqs, out : Reqs,
   left : 0 .. ReqLen, rsp : {"head", "body"}]

SockType ==
  [st : {"closed", "syn", "est", "fail", "rst"}, rx : Pieces \cup {"none"},
   fin : BOOLEAN, full : BOOLEAN, tls : {"none", "hello", "flight", "bad", "up"},
   wire : Reqs \cup {NoReq}, sent : Pieces \cup {"none"}]

-----------------------------------------------------------------------------
(* The kernel's side *)

\* A socket after close(), and one after a connect() that did not fail at
\* once: still in the three-way handshake, or already established.
ClosedSock ==
  [st |-> "closed", rx |-> "none", fin |-> FALSE, full |-> FALSE,
   tls |-> "none", wire |-> NoReq, sent |-> "none"]

FreshSocks == {[ClosedSock EXCEPT !.st = x] : x \in {"syn", "est"}}

\* The readiness epoll_wait would report for the socket.  EPOLLERR and
\* EPOLLHUP are reported whatever the interest.
Mask(s) ==
  (IF s.st = "est" /\ ~s.full THEN {"out"} ELSE {})
    \cup (IF s.st = "est" /\ (s.rx # "none" \/ s.fin \/ s.tls \in {"flight", "bad"})
            THEN {"in"} ELSE {})
    \cup (IF s.st \in {"fail", "rst"} THEN {"err"} ELSE {})

\* What of it an entry with the given interest is told; {} is "no entry".
Deliverable(interest, s) ==
  IF interest = {} THEN {} ELSE Mask(s) \cap (interest \cup {"err"})

-----------------------------------------------------------------------------
(* js_conn_t *)

NoConn ==
  [state |-> "none", fd |-> FALSE, req_index |-> 0, out |-> 0, left |-> 0,
   rsp |-> "head"]

\* Mutant: the buffer is rewound and keeps the request it held.
SetOutputStale(c, r) == [c EXCEPT !.left = ReqLen]

\* js_conn_set_output: the request replaces what the buffer held.
SetOutput(c, r) == [c EXCEPT !.out = r, !.left = ReqLen]

\* SSL_connect through js_tls_handshake: 1 (want more), 0 or an error.
TryHandshake(c, s) ==
  CASE \/ s.st # "est"
       \/ s.tls = "bad"
       \/ (s.fin /\ s.tls # "flight") ->
         [c |-> [c EXCEPT !.state = "error"], s |-> s]
    [] s.st = "est" /\ s.tls = "flight" ->
         [c |-> [c EXCEPT !.state = "writing"], s |-> [s EXCEPT !.tls = "up"]]
    [] OTHER ->
         [c |-> [c EXCEPT !.state = "tls_handshake"],
          s |-> [s EXCEPT !.tls = "hello"]]

\* The write loop: it stops at EAGAIN (the buffer has become full), at an
\* error, or when the whole request is out and the connection reads.
DoWrite(c, s) ==
  IF c.left = 0 THEN {[c |-> [c EXCEPT !.state = "reading"], s |-> s]}
  ELSE IF s.st \in {"rst", "fail", "closed"}
    THEN {[c |-> [c EXCEPT !.state = "error"], s |-> s]}
  ELSE IF s.st = "syn" \/ s.full THEN {[c |-> c, s |-> s]}
  ELSE {[c |-> [c EXCEPT !.left = c.left - n,
                         !.state = IF n = c.left THEN "reading" ELSE c.state],
         s |-> [s EXCEPT !.full = n < c.left,
                         !.wire = c.out,
                         !.sent = IF c.left = ReqLen THEN "none" ELSE s.sent]]
          : n \in 1 .. c.left}

\* The handshake step of the write path goes on to write once it is done.
HandshakeThenWrite(c, s) ==
  LET h == TryHandshake(c, s)
  IN  IF h.c.state = "writing" THEN DoWrite(h.c, h.s) ELSE {h}

\* js_conn_write: the outcomes, as records of the connection and the socket.
ConnWrite(c, s, tls) ==
  CASE c.state = "connecting" /\ s.st \in {"fail", "rst"} ->
         {[c |-> [c EXCEPT !.state = "error"], s |-> s]}
    [] c.state = "connecting" /\ s.st \notin {"fail", "rst"} /\ tls ->
         HandshakeThenWrite([c EXCEPT !.state = "tls_handshake"], s)
    [] c.state = "connecting" /\ s.st \notin {"fail", "rst"} /\ ~tls ->
         DoWrite([c EXCEPT !.state = "writing"], s)
    [] c.state = "tls_handshake" -> HandshakeThenWrite(c, s)
    [] c.state = "writing" -> DoWrite(c, s)
    [] OTHER -> {[c |-> c, s |-> s]}

\* The read loop: it drains the socket into the input buffer until EAGAIN
\* (0), the peer's close (1) or an error (-1).  A close that TLS did not
\* announce is an error of SSL_read.
DoRead(c, s, tls) ==
  IF s.st # "est"
    THEN {[c |-> [c EXCEPT !.state = "error"], s |-> s, in |-> "none", rc |-> -1]}
    ELSE LET drained == [s EXCEPT !.rx = "none"]
             eof == [c |-> c, s |-> drained, in |-> s.rx, rc |-> 1]
         IN  IF ~s.fin THEN {[eof EXCEPT !.rc = 0]}
             ELSE {eof} \cup
                  (IF tls THEN {[eof EXCEPT !.c = [c EXCEPT !.state = "error"],
                                            !.rc = -1]}
                   ELSE {})

\* js_conn_read: the outcomes, with the bytes read and the return code.
ConnRead(c, s, tls) ==
  CASE c.state = "tls_handshake" ->
         LET h == TryHandshake(c, s)
         IN  {[c |-> h.c, s |-> h.s, in |-> "none", rc |-> 0]}
    [] c.state = "reading" -> DoRead(c, s, tls)
    [] OTHER -> {[c |-> c, s |-> s, in |-> "none", rc |-> 0]}

\* js_conn_reuse: the same socket, for another request.
ConnReuse(c) == [c EXCEPT !.state = "writing", !.left = ReqLen]

\* js_conn_reset: a new socket in place of the old one; socket() or connect()
\* may fail at once.
ConnResetOk(c) ==
  [c EXCEPT !.state = "connecting", !.fd = TRUE, !.left = ReqLen]
ConnResetFailed(c) == [c EXCEPT !.state = "error", !.fd = FALSE]

-----------------------------------------------------------------------------
(* The response the connection waits for (js_http_response_feed), by what  *)
(* it returns: complete, malformed or not yet.                             *)
Feed(c, in) ==
  CASE in = "end"  -> [c EXCEPT !.state = "done"]
    [] in = "bad"  -> [c EXCEPT !.state = "error"]
    [] in = "body" -> [c EXCEPT !.rsp = "body"]
    [] OTHER       -> c

\* The peer closed before the response was complete.
AtClose(c) == [c EXCEPT !.state = IF c.rsp = "body" THEN "done" ELSE "error"]

\* What a read handler makes of what js_conn_read returned.
AfterRead(r) ==
  LET fed == IF r.c.state = "reading" THEN Feed(r.c, r.in) ELSE r.c
  IN  IF r.rc = 1 /\ fed.state = "reading" THEN AtClose(fed) ELSE fed

\* js_http_response_reset
ResponseReset(c) == [c EXCEPT !.rsp = "head"]
-----------------------------------------------------------------------------
(* What a connection waits for *)

InOut == {"in", "out"}

\* Mutant: nothing is asked for while reading.
InterestOfSilent(state) ==
  IF state \in {"connecting", "writing", "tls_handshake"} THEN InOut ELSE {}

\* Mutant: a connection that is writing is not asked for EPOLLOUT.
InterestOfWriting(state) ==
  IF state \in {"connecting", "tls_handshake"} THEN InOut ELSE {"in"}

\* What the handlers ask epoll for, by the state they leave a connection in
\* (worker_conn_process and js_fetch_process alike).
InterestOf(state) ==
  IF state \in {"connecting", "writing", "tls_handshake"} THEN InOut ELSE {"in"}

Live(c) == c.state \in LiveStates

\* What the socket has that the connection waits for.
CanProgress(c, s) ==
  \/ Live(c) /\ s.st \in {"fail", "rst"}
  \/ c.state = "connecting" /\ s.st = "est"
  \/ c.state = "tls_handshake" /\ s.st = "est"
       /\ (s.tls \in {"flight", "bad"} \/ s.fin)
  \/ c.state = "writing" /\ s.st = "est" /\ ~s.full
  \/ c.state = "reading" /\ s.st = "est" /\ (s.rx # "none" \/ s.fin)
=============================================================================
