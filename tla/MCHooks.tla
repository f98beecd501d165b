------------------------------- MODULE MCHooks -------------------------------
(* An instance of Hooks and CoSpecific for TLC. *)
EXTENDS CoSpecific

CONSTANTS co1, co2, co3

\* The sockets and the per-coroutine data do not influence each other: states
\* in which both are in use are not explored further, and one hooked coroutine
\* with sockets is enough beside one without hooks.
OneOfThem ==
    \/ \A fd \in Fds : user[fd] = None
    \/ /\ \A fd \in Fds : user[fd] # co2
       /\ g_co_sysenv = None /\ environ = NoValues
       /\ \A co \in Cos : answer[co] = None /\ resolving[co] = None
=============================================================================
