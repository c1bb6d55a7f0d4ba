---------------------------- MODULE ResponseScript ----------------------------
(***************************************************************************)
(* A script with the Response of a fetch: what the parser made of the last *)
(* response of HttpParser, and a script that works on its Headers,         *)
(* from the callback of a forEach too (src/src/js_headers.c).              *)
(***************************************************************************)
EXTENDS HttpParser

CONSTANTS
  NewValues,  \* the values a script gives to headers
  MaxOps      \* bound: how often the script changes the headers

ASSUME ScriptAssumption == NewValues \subseteq Nat /\ MaxOps \in Nat

VARIABLES
  headers,  \* h of the Headers object
  given,    \* i of js_headers_forEach: the entry whose callback runs, 0 if none does
  loop,     \* history: the loop so far, a record of
            \*   seen    the names given to the callback, in turn
            \*   stayed  the names that were there all the time
            \*   behind  whether one was deleted that had been given already
            \*   over    whether the loop has come to its end
  ops       \* history: how often the headers were changed

script    == <<headers, given, loop, ops>>
scripted  == <<vars, script>>

NoLoop  == [seen |-> <<>>, stayed |-> {}, behind |-> FALSE, over |-> FALSE]
NameSet == {"length", "chunked", "header"}

ScriptInit ==
  /\ Init
  /\ headers = <<>>
  /\ given = 0
  /\ loop = NoLoop
  /\ ops = 0

-----------------------------------------------------------------------------

\* The last response was one, and the script has it.
HasResponse == ~Working /\ results[Len(results)].made

\* The promise of the fetch is fulfilled with the last response.
Receive ==
  /\ ClientNext
  /\ headers' = IF Working' THEN <<>> ELSE results'[Len(results')].response.headers
  /\ UNCHANGED <<given, loop, ops>>

Change(h) ==
  /\ HasResponse
  /\ ops < MaxOps
  /\ headers' = h
  /\ ops' = ops + 1
  /\ UNCHANGED <<given, vars>>

SetHeader(name, value) ==
  Change(Set(headers, name, value)) /\ UNCHANGED loop

DeleteHeader(name) ==
  /\ Has(headers, name)
  /\ Change(Delete(headers, name))
  /\ loop' = [loop EXCEPT !.stayed = @ \ {name},
                          !.behind = @ \/ Find(headers, name) <= given]

\* The loop gives the callback the entry at i, or ends.
Give(i, l) ==
  /\ IF i <= Len(headers)
       THEN given' = i /\ loop' = [l EXCEPT !.seen = Append(@, headers[i][1])]
       ELSE given' = 0 /\ loop' = [l EXCEPT !.over = TRUE]
  /\ UNCHANGED <<headers, ops, vars>>

\* The script calls forEach,
ForEach ==
  /\ HasResponse
  /\ given = 0 /\ loop = NoLoop
  /\ Give(1, [NoLoop EXCEPT !.stayed = Names(headers)])

\* the callback returns,
CallbackReturns == given > 0 /\ Give(given + 1, loop)

\* or it throws, and forEach with it.
CallbackThrows ==
  /\ given > 0
  /\ given' = 0
  /\ UNCHANGED <<headers, loop, ops, vars>>

ScriptNext ==
  \/ \E name \in NameSet, value \in NewValues : SetHeader(name, value)
  \/ \E name \in NameSet : DeleteHeader(name)
  \/ ForEach
  \/ CallbackReturns
  \/ CallbackThrows

ServerActs == ServerNext /\ UNCHANGED script
Idle       == Finished /\ UNCHANGED script

ScriptedNext == Receive \/ ServerActs \/ ScriptNext \/ Idle

ScriptedSpec == ScriptInit /\ [][ScriptedNext]_scripted

\* The thread runs, and what the server sent arrives.
FairScriptedSpec == ScriptedSpec /\ WF_scripted(Receive)

-----------------------------------------------------------------------------
(* Properties *)

Times(name) == Cardinality({i \in DOMAIN loop.seen : loop.seen[i] = name})

\* However the callback changes the headers, forEach gives it every header that
\* is there all the time, and at most once; deleting one that has been given
\* already, the current one included, may make it miss others, but never gives
\* one again.  No name is ever twice in the headers.
ForEachVisits ==
  /\ Cardinality(Names(headers)) = Len(headers)
  /\ \A name \in loop.stayed : Times(name) <= 1
  /\ loop.over /\ ~loop.behind => \A name \in loop.stayed : Times(name) = 1
=============================================================================
