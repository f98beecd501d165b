----------------------------- MODULE MCTimerQueue -----------------------------
(* Instances of TimerQueue for TLC. *)
EXTENDS TimerQueue, TLC

CONSTANTS other
MCThreads == {other}
NoThreads == {}
=============================================================================
