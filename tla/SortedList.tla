------------------------------ MODULE SortedList ------------------------------
(***************************************************************************)
(* What the tree of the timers promises: a list in the order of the keys   *)
(* and, among equal keys, in the order of insertion, from which any entry  *)
(* can be taken, or all those at the front up to a key.                    *)
(***************************************************************************)
EXTENDS Integers, Sequences, SequencesExt

CONSTANTS
  Nodes,  \* what can be listed
  Key     \* the key of each of them

VARIABLE list

Init == list = <<>>

\* The entries of the list s whose key is at most k: those at its front.
UpTo(s, k) == Cardinality({i \in DOMAIN s : Key[s[i]] <= k})

Inserted(s, n) == InsertAt(s, UpTo(s, Key[n]) + 1, n)

\* One operation takes the list from s to t.
Step(s, t) ==
  \/ \E n \in Nodes \ ToSet(s) : t = Inserted(s, n)
  \/ \E i \in DOMAIN s : t = RemoveAt(s, i)
  \/ \E k \in {Key[n] : n \in Nodes} : t = SubSeq(s, UpTo(s, k) + 1, Len(s))

Next == Step(list, list')

Spec == Init /\ [][Next]_list
=============================================================================
