------------------------------ MODULE WebObjects ------------------------------
(***************************************************************************)
(* The objects a script gets from fetch(), as operators: Headers           *)
(* (src/src/js_headers.c) and Response (src/src/js_response.c).            *)
(*                                                                         *)
(* A header is a pair of a name and a value, and names are equal when they *)
(* are but for case; a Headers object is a sequence of headers.  Values    *)
(* longer than their fields are left out.                                  *)
(***************************************************************************)
EXTENDS Integers, Sequences, SequencesExt

NotFound == 0

Names(h) == {h[i][1] : i \in DOMAIN h}

\* The loop that each function begins with.
Find(h, name) ==
  IF name \in Names(h) THEN Min({i \in DOMAIN h : h[i][1] = name}) ELSE NotFound

Has(h, name) == Find(h, name) # NotFound
Get(h, name) == h[Find(h, name)][2]

\* Mutant: a header that is there is not looked for.
SetAppends(h, name, value) == Append(h, <<name, value>>)

\* js_headers_set
Set(h, name, value) ==
  IF Has(h, name) THEN [h EXCEPT ![Find(h, name)][2] = value]
  ELSE Append(h, <<name, value>>)

\* Mutant: the entries behind it are not moved up; the last one goes.
DeleteLast(h, name) == IF Has(h, name) THEN SubSeq(h, 1, Len(h) - 1) ELSE h

\* js_headers_delete
Delete(h, name) == IF Has(h, name) THEN RemoveAt(h, Find(h, name)) ELSE h

\* js_headers_from_http: made[n] is what the loop has made of the first n lines.
HeadersFromHttp(list) ==
  LET made[n \in 0 .. Len(list)] ==
        IF n = 0 THEN <<>> ELSE Set(made[n - 1], list[n][1], list[n][2])
  IN  made[Len(list)]

\* js_response_new: a copy of all that is in the parser.
ResponseNew(p) ==
  [ok      |-> p.code \in 200 .. 299,
   code    |-> p.code,
   body    |-> p.body,
   headers |-> HeadersFromHttp(p.headers)]
=============================================================================
