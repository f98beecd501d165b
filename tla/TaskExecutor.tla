---------------------------- MODULE TaskExecutor ----------------------------
(***************************************************************************)
(* What an EventLoop promises to the threads that hand it functors: each   *)
(* functor is executed at most once, after it was submitted, and in the    *)
(* order of submission (the callbacks of queueInLoop and of runInLoop from *)
(* another thread, mucgi/muduo_net/EventLoop.h).                           *)
(***************************************************************************)
EXTENDS Naturals, Sequences

CONSTANT Functors

VARIABLES
    submitted,  \* functors in the order in which they were queued
    ran         \* functors in the order in which they were executed

Init == submitted = <<>> /\ ran = <<>>

Submit ==
    /\ \E f \in Functors : submitted' = Append(submitted, f)
    /\ UNCHANGED ran

Execute ==
    /\ Len(ran) < Len(submitted)
    /\ ran' = Append(ran, submitted[Len(ran) + 1])
    /\ UNCHANGED submitted

\* A functor that queues another one while it runs does both at once.
ExecuteAndSubmit ==
    /\ Len(ran) < Len(submitted)
    /\ ran' = Append(ran, submitted[Len(ran) + 1])
    /\ \E f \in Functors : submitted' = Append(submitted, f)

Next == Submit \/ Execute \/ ExecuteAndSubmit

Spec == Init /\ [][Next]_<<submitted, ran>>
=============================================================================
