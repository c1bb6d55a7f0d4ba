--------------------------- MODULE MCResponseScript ---------------------------
(* The responses of MCHttpParser and a script that works on them, for TLC. *)
EXTENDS MCHttpParser, ResponseScript
=============================================================================
