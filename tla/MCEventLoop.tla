----------------------------- MODULE MCEventLoop -----------------------------
(* Instances of EventLoop for TLC. *)
EXTENDS EventLoop

CONSTANTS a, b, f1, f2, f3
MCThreads == {a, b}
MCFunctors3 == {f1, f2, f3}
=============================================================================
