---------------------------- MODULE MCCocgiServer ----------------------------
(* Instances of CocgiServer for TLC. *)
EXTENDS CocgiServer, TLC

CONSTANTS t1, t2, k1, k2

MCTasks == {t1, t2}
MCTask1 == {t1}
MCConns == {k1, k2}

MCNoFd == -1

FlagsPlain == {0, 1}
=============================================================================
