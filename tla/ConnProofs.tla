----------------------------- MODULE ConnProofs -----------------------------
(***************************************************************************)
(* Lemmas about Conn, for the proofs about the modules that own            *)
(* connections: what js_conn_read and js_conn_write make of a live         *)
(* connection, whatever the socket, and that a connection which can go on  *)
(* has something epoll_wait reports.                                       *)
(***************************************************************************)
EXTENDS Conn, TLAPS

\* A live connection and its socket between two handlers: the output buffer
\* holds the request the connection is on, how much of it is written fits the
\* state, and once some of it is, it is what the server was sent.
LiveOK(c, s) ==
  /\ Live(c)
  /\ c.fd
  /\ c.out = c.req_index
  /\ c.left < ReqLen => s.wire = c.out
  /\ c.state \in {"connecting", "tls_handshake"} => c.left = ReqLen /\ s.full = FALSE
  /\ c.state = "writing" => c.left > 0
  /\ c.state = "reading" => c.left = 0

-----------------------------------------------------------------------------
(* Lemmas about the operators *)

\* The index of the next request is one of the requests.
LEMMA ModInReqs == \A n \in Nat : n % RequestCount \in Reqs
  BY RequestCountAssumption DEF Reqs

\* A handshake step on a live connection leaves it live or failed, on the
\* same request.
LEMMA HandshakeOutcome ==
  ASSUME NEW c \in ConnType, NEW s \in SockType,
         c.state = "tls_handshake", LiveOK(c, s)
  PROVE  LET h == TryHandshake(c, s)
         IN  /\ h.c \in ConnType
             /\ h.s \in SockType
             /\ h.c.req_index = c.req_index
             /\ h.s.wire = s.wire
             /\ h.s.st = s.st
             /\ h.c.state = "error" \/ LiveOK(h.c, h.s)
             /\ h.c.state \in {"error", "writing", "tls_handshake"}
  BY ReqLenAssumption
  DEF ConnType, SockType, TryHandshake, LiveOK, Live, LiveStates, ConnStates

\* The write loop on a connection that is writing leaves it live or failed,
\* on the same request.
LEMMA DoWriteOutcome ==
  ASSUME NEW c \in ConnType, NEW s \in SockType,
         c.state = "writing", LiveOK(c, s), NEW w \in DoWrite(c, s)
  PROVE  /\ w.c \in ConnType
         /\ w.s \in SockType
         /\ w.c.req_index = c.req_index
         /\ w.s.st = s.st
         /\ w.c.state = "error" \/ LiveOK(w.c, w.s)
  <1> DEFINE error == [c |-> [c EXCEPT !.state = "error"], s |-> s]
             wrote(n) ==
               [c |-> [c EXCEPT !.left = c.left - n,
                                !.state = IF n = c.left THEN "reading" ELSE c.state],
                s |-> [s EXCEPT !.full = n < c.left,
                                !.wire = c.out,
                                !.sent = IF c.left = ReqLen THEN "none" ELSE s.sent]]
  <1>1. c.left \in 1 .. ReqLen /\ c.out \in Reqs /\ c.out = c.req_index /\ c.fd
    BY DEF LiveOK, ConnType
  <1>2. c.left # 0
    BY <1>1
  <1>3. CASE s.st \in {"rst", "fail", "closed"}
    <2>1. w = error
      BY <1>1, <1>3 DEF DoWrite
    <2> QED
      BY <2>1 DEF ConnType, ConnStates
  <1>4. CASE s.st \notin {"rst", "fail", "closed"} /\ (s.st = "syn" \/ s.full)
    <2>1. w = [c |-> c, s |-> s]
      BY <1>2, <1>4, Zenon DEF DoWrite
    <2> QED
      BY <2>1
  <1>5. CASE s.st \notin {"rst", "fail", "closed"} /\ ~(s.st = "syn" \/ s.full)
    <2>1. DoWrite(c, s) = {wrote(n) : n \in 1 .. c.left}
      BY <1>2, <1>5, Zenon DEF DoWrite
    <2>2. PICK n \in 1 .. c.left : w = wrote(n)
      BY <2>1
    <2>3. c.left - n \in 0 .. ReqLen /\ c.left - n < ReqLen
      BY <1>1, ReqLenAssumption
    <2>4. w.c \in ConnType
      BY <2>2, <2>3 DEF ConnType, ConnStates, LiveStates
    <2> DEFINE full == n < c.left
               sent == IF c.left = ReqLen THEN "none" ELSE s.sent
    <2>7. full \in BOOLEAN /\ sent \in Pieces \cup {"none"} /\ c.out \in Reqs \cup {NoReq}
      BY <1>1 DEF SockType
    <2>8. w.s = [s EXCEPT !.full = full, !.wire = c.out, !.sent = sent]
      BY <2>2
    <2>9. w.s \in SockType
      <3> HIDE DEF full, sent
      <3> QED
        BY <2>7, <2>8 DEF SockType
    <2>5. w.c.req_index = c.req_index /\ w.s.st = s.st
      BY <2>2 DEF ConnType, SockType
    <2>6. LiveOK(w.c, w.s)
      <3>1. /\ w.c.fd = c.fd /\ w.c.out = c.out /\ w.c.left = c.left - n
            /\ w.c.state = IF n = c.left THEN "reading" ELSE "writing"
            /\ w.s.wire = c.out
        BY <2>2 DEF ConnType, SockType
      <3> QED
        BY <1>1, <2>3, <2>5, <3>1 DEF LiveOK, Live, LiveStates
    <2> QED
      BY <2>4, <2>5, <2>6, <2>9
  <1> QED
    BY <1>3, <1>4, <1>5

\* js_conn_write on a live connection leaves it live or failed, on the same
\* request.
LEMMA ConnWriteOutcome ==
  ASSUME NEW c \in ConnType, NEW s \in SockType, NEW tls \in BOOLEAN,
         LiveOK(c, s), NEW w \in ConnWrite(c, s, tls)
  PROVE  /\ w.c \in ConnType
         /\ w.s \in SockType
         /\ w.c.req_index = c.req_index
         /\ w.s.st = s.st
         /\ w.c.state = "error" \/ LiveOK(w.c, w.s)
  <1> DEFINE ch == [c EXCEPT !.state = "tls_handshake"]
             cw == [c EXCEPT !.state = "writing"]
  <1>1. ASSUME NEW d \in ConnType, d.state = "tls_handshake", LiveOK(d, s),
               d.req_index = c.req_index, w \in HandshakeThenWrite(d, s)
        PROVE  /\ w.c \in ConnType
               /\ w.s \in SockType
               /\ w.c.req_index = c.req_index
               /\ w.s.st = s.st
               /\ w.c.state = "error" \/ LiveOK(w.c, w.s)
    <2> DEFINE h == TryHandshake(d, s)
    <2>1. /\ h.c \in ConnType /\ h.s \in SockType
          /\ h.c.req_index = c.req_index
          /\ h.s.st = s.st
          /\ h.c.state = "error" \/ LiveOK(h.c, h.s)
      BY <1>1, HandshakeOutcome
    <2>2. CASE h.c.state = "writing"
      <3>1. w \in DoWrite(h.c, h.s) /\ LiveOK(h.c, h.s)
        BY <1>1, <2>1, <2>2 DEF HandshakeThenWrite
      <3> QED
        BY <2>1, <2>2, <3>1, DoWriteOutcome
    <2>3. CASE h.c.state # "writing"
      <3>1. w = h
        BY <1>1, <2>3 DEF HandshakeThenWrite
      <3> QED
        BY <2>1, <3>1
    <2> QED
      BY <2>2, <2>3
  <1>2. CASE c.state = "connecting" /\ s.st \in {"fail", "rst"}
    BY <1>2 DEF ConnWrite, ConnType, ConnStates
  <1>3. CASE c.state = "connecting" /\ s.st \notin {"fail", "rst"}
    <2>1. ch \in ConnType /\ ch.state = "tls_handshake" /\ LiveOK(ch, s)
            /\ ch.req_index = c.req_index
      BY <1>3 DEF LiveOK, Live, LiveStates, ConnType, ConnStates
    <2>2. cw \in ConnType /\ cw.state = "writing" /\ LiveOK(cw, s)
            /\ cw.req_index = c.req_index
      BY <1>3, ReqLenAssumption DEF LiveOK, Live, LiveStates, ConnType, ConnStates
    <2>3. IF tls THEN w \in HandshakeThenWrite(ch, s) ELSE w \in DoWrite(cw, s)
      BY <1>3 DEF ConnWrite
    <2> QED
      BY <1>1, <2>1, <2>2, <2>3, DoWriteOutcome
  <1>4. CASE c.state = "tls_handshake"
    <2>1. w \in HandshakeThenWrite(c, s)
      BY <1>4 DEF ConnWrite
    <2> QED
      BY <1>1, <1>4, <2>1
  <1>5. CASE c.state = "writing"
    <2>1. w \in DoWrite(c, s)
      BY <1>5 DEF ConnWrite
    <2> QED
      BY <1>5, <2>1, DoWriteOutcome
  <1>6. CASE c.state = "reading"
    <2>1. w = [c |-> c, s |-> s]
      BY <1>6 DEF ConnWrite
    <2> QED
      BY <2>1
  <1> QED
    BY <1>2, <1>3, <1>4, <1>5, <1>6 DEF LiveOK, Live, LiveStates

\* js_conn_read and what the read handler makes of it leave a live connection
\* live, failed, or done with the response to the request it is on.
LEMMA ConnReadOutcome ==
  ASSUME NEW c \in ConnType, NEW s \in SockType, NEW tls \in BOOLEAN,
         LiveOK(c, s), NEW r \in ConnRead(c, s, tls)
  PROVE  /\ AfterRead(r) \in ConnType
         /\ r.s \in SockType
         /\ AfterRead(r).req_index = c.req_index
         /\ r.s.wire = s.wire
         /\ r.s.st = s.st
         /\ \/ AfterRead(r).state = "error"
            \/ /\ AfterRead(r).state = "done" /\ AfterRead(r).fd
               /\ s.wire = c.req_index
            \/ LiveOK(AfterRead(r), r.s)
  <1>1. CASE c.state = "tls_handshake"
    <2> DEFINE h == TryHandshake(c, s)
    <2>1. r = [c |-> h.c, s |-> h.s, in |-> "none", rc |-> 0]
      BY <1>1 DEF ConnRead
    <2>2. /\ h.c \in ConnType /\ h.s \in SockType
          /\ h.c.req_index = c.req_index /\ h.s.wire = s.wire /\ h.s.st = s.st
          /\ h.c.state = "error" \/ LiveOK(h.c, h.s)
          /\ h.c.state \in {"error", "writing", "tls_handshake"}
      BY <1>1, HandshakeOutcome
    <2>3. AfterRead(r) = h.c
      BY <2>1, <2>2 DEF AfterRead
    <2> QED
      BY <2>1, <2>2, <2>3
  <1>2. CASE c.state = "reading"
    <2>1. r \in DoRead(c, s, tls)
      BY <1>2 DEF ConnRead
    <2>2. s.wire = c.req_index /\ c.left = 0 /\ c.out = c.req_index /\ c.fd
      BY <1>2, ReqLenAssumption DEF LiveOK
    <2> DEFINE failed == [c EXCEPT !.state = "error"]
               drained == [s EXCEPT !.rx = "none"]
    <2>3. /\ r.c = c \/ r.c = [c EXCEPT !.state = "error"]
          /\ r.s = s \/ r.s = [s EXCEPT !.rx = "none"]
      <3>1. \/ r = [c |-> failed, s |-> s, in |-> "none", rc |-> -1]
            \/ r = [c |-> c, s |-> drained, in |-> s.rx, rc |-> 0]
            \/ r = [c |-> c, s |-> drained, in |-> s.rx, rc |-> 1]
            \/ r = [c |-> failed, s |-> drained, in |-> s.rx, rc |-> -1]
        BY <2>1 DEF DoRead
      <3> QED
        BY <3>1
    <2>4. r.s \in SockType /\ r.s.wire = s.wire /\ r.s.st = s.st
      BY <2>3 DEF SockType
    <2>5. CASE r.c = [c EXCEPT !.state = "error"]
      <3>1. AfterRead(r) = r.c
        BY <2>5 DEF AfterRead, ConnType
      <3> QED
        BY <2>4, <2>5, <3>1 DEF ConnType, ConnStates
    <2>6. CASE r.c = c
      <3> DEFINE fed == Feed(c, r.in)
      <3>1. AfterRead(r) = IF r.rc = 1 /\ fed.state = "reading" THEN AtClose(fed) ELSE fed
        BY <1>2, <2>6 DEF AfterRead
      <3>2. /\ fed \in ConnType
            /\ fed.state \in {"reading", "done", "error"}
            /\ fed.req_index = c.req_index
            /\ fed.fd /\ fed.left = 0 /\ fed.out = c.req_index
        BY <1>2, <2>2 DEF Feed, ConnType, ConnStates
      <3>3. /\ AtClose(fed) \in ConnType
            /\ AtClose(fed).state \in {"done", "error"}
            /\ AtClose(fed).req_index = c.req_index
            /\ AtClose(fed).fd
        BY <3>2 DEF AtClose, ConnType, ConnStates
      <3> HIDE DEF fed
      <3>4. CASE r.rc = 1 /\ fed.state = "reading"
        BY <2>2, <2>4, <3>1, <3>3, <3>4
      <3>5. CASE ~(r.rc = 1 /\ fed.state = "reading")
        <4>1. fed.state = "reading" => LiveOK(fed, r.s)
          BY <2>2, <2>4, <3>2 DEF LiveOK, Live, LiveStates
        <4> QED
          BY <2>2, <2>4, <3>1, <3>2, <3>5, <4>1
      <3> QED
        BY <3>4, <3>5
    <2> QED
      BY <2>3, <2>5, <2>6
  <1>3. CASE c.state \in {"connecting", "writing"}
    <2>1. r = [c |-> c, s |-> s, in |-> "none", rc |-> 0]
      BY <1>3 DEF ConnRead
    <2>2. AfterRead(r) = c
      BY <1>3, <2>1 DEF AfterRead
    <2> QED
      BY <2>1, <2>2
  <1> QED
    BY <1>1, <1>2, <1>3 DEF LiveOK, Live, LiveStates

\* A connection that can go on has something epoll_wait will report.
LEMMA ProgressIsDeliverable ==
  ASSUME NEW c \in ConnType, NEW s \in SockType, NEW ev \in SUBSET {"in", "out"},
         LiveOK(c, s), InterestOf(c.state) \subseteq ev, CanProgress(c, s)
  PROVE  Deliverable(ev, s) # {}
  <1>1. "in" \in ev /\ (c.state # "reading" => "out" \in ev)
    BY DEF InterestOf, InOut, LiveOK, Live, LiveStates
  <1>2. CASE s.st \in {"fail", "rst"}
    BY <1>1, <1>2 DEF Deliverable, Mask
  <1>3. CASE s.st = "est"
    <2>1. CASE c.state \in {"connecting", "writing"}
      <3>1. ~s.full
        BY <1>3, <2>1 DEF LiveOK, CanProgress
      <3> QED
        BY <1>1, <1>3, <2>1, <3>1 DEF Deliverable, Mask
    <2>2. CASE c.state \in {"tls_handshake", "reading"}
      BY <1>1, <1>3, <2>2 DEF CanProgress, Deliverable, Mask
    <2> QED
      BY <2>1, <2>2 DEF LiveOK, Live, LiveStates
  <1> QED
    BY <1>2, <1>3 DEF CanProgress
=============================================================================
