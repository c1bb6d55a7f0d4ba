---------------------------- MODULE MCFetchLoop ----------------------------
(* Instances of FetchLoop for TLC. *)
EXTENDS FetchLoop, TLC

CONSTANTS f1, f2

OneFetch   == {f1}
TwoFetches == {f1, f2}
AnyFetch   == Permutations(TwoFetches)
Plain      == {FALSE}
PlainOrTls == {FALSE, TRUE}
MostParts  == {"body", "end", "bad"}
FewParts   == {"body", "end"}
NoFault    == {{}}
Faulty     == {{"poll"}, {"job", "call"}}
=============================================================================
