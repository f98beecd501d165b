------------------------------- MODULE MCLibco -------------------------------
(* An instance of Libco for TLC. *)
EXTENDS Libco

CONSTANTS co1, co2, fd1, fd2
MCOwner == (fd1 :> co1) @@ (fd2 :> co1)
MCPollTimeouts == {1, -1}

\* Copying stacks does not depend on time: with coroutines on a shared stack
\* only the states in which the clock has not moved yet are explored further.
SharedStackWithoutTime == cIsShareStack # {} => clock = 1 /\ ready = {}
=============================================================================
