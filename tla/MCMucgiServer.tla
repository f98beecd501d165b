---------------------------- MODULE MCMucgiServer ----------------------------
(* Instances of MucgiServer for TLC. *)
EXTENDS MucgiServer

CONSTANTS c1, c2
MCConns == {c1, c2}
TwoAndNone == [c \in MCConns |-> IF c = c1 THEN 2 ELSE 0]
OneThread == <<"io1">>
=============================================================================
