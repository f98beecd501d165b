------------------------------ MODULE EventLoop ------------------------------
(***************************************************************************)
(* muduo's EventLoop (mucgi/muduo_net/EventLoop.cc): the loop thread polls,*)
(* handles the active channels and runs the pending functors, while other  *)
(* threads queue functors and may ask it to quit.                          *)
(*                                                                         *)
(* queueInLoop() pushes under mutex_, unlocks, and only then writes to the *)
(* eventfd; the loop may be anywhere in between.  What the loop thread     *)
(* does alone between two points another thread can observe is one step.   *)
(***************************************************************************)
EXTENDS Naturals, Sequences, FiniteSets

CONSTANTS
    Threads,   \* threads other than the loop thread
    Functors   \* functors that may be queued, each once (bound)

VARIABLES
    \* the EventLoop object
    pendingFunctors_,
    callingPendingFunctors_,
    eventHandling_,
    quit_,
    looping_,
    wakeupFd_,       \* value of the eventfd counter
    activeChannels_, \* subset of {"wakeup", "io"}
    \* the loop thread
    pc,
    functors,        \* local of doPendingFunctors: functors still to run
    \* the other threads: inside queueInLoop() or quit(), before wakeup()
    tpc,
    quitted,         \* threads that have called quit() (bound: once each)
    \* history
    submitted,
    ran

loopVars == <<callingPendingFunctors_, eventHandling_, looping_, activeChannels_, pc>>
vars == <<pendingFunctors_, quit_, wakeupFd_, functors, loopVars, tpc, quitted,
          submitted, ran>>

\* Types, and that each flag of the loop is up exactly where its name says.
TypeOK ==
    /\ pendingFunctors_ \in Seq(Functors)
    /\ callingPendingFunctors_ = (pc = "run")
    /\ eventHandling_ = (pc = "events")
    /\ looping_ = (pc \notin {"created", "stopped"})
    /\ quit_ \in BOOLEAN
    /\ wakeupFd_ \in Nat
    /\ activeChannels_ \in SUBSET {"wakeup", "io"}
    /\ pc \in {"created", "test", "poll", "events", "swap", "run", "stopped"}
    /\ functors \in Seq(Functors)
    /\ tpc \in [Threads -> {"out", "pushed", "quitting"}]
    /\ quitted \in SUBSET Threads
    /\ submitted \in Seq(Functors)
    /\ ran \in Seq(Functors)

Init ==
    /\ pendingFunctors_ = <<>>
    /\ callingPendingFunctors_ = FALSE
    /\ eventHandling_ = FALSE
    /\ quit_ = FALSE
    /\ looping_ = FALSE
    /\ wakeupFd_ = 0
    /\ activeChannels_ = {}
    /\ pc = "created"
    /\ functors = <<>>
    /\ tpc = [t \in Threads |-> "out"]
    /\ quitted = {}
    /\ submitted = <<>>
    /\ ran = <<>>

New == {f \in Functors : \A i \in DOMAIN submitted : submitted[i] # f}

-----------------------------------------------------------------------------
(* Other threads. *)

\* queueInLoop, the locked part.  runInLoop from another thread is the same.
Push(f) ==
    /\ pendingFunctors_' = Append(pendingFunctors_, f)
    /\ submitted' = Append(submitted, f)

QueueInLoopSilent(t) ==  \* mutant: no wakeup()
    /\ tpc[t] = "out"
    /\ \E f \in New : Push(f)
    /\ UNCHANGED <<tpc, quit_, wakeupFd_, functors, loopVars, quitted, ran>>

QueueInLoop(t) ==
    /\ tpc[t] = "out"
    /\ \E f \in New : Push(f)
    /\ tpc' = [tpc EXCEPT ![t] = "pushed"]
    /\ UNCHANGED <<quit_, wakeupFd_, functors, loopVars, quitted, ran>>

\* quit: the flag first, then the wakeup.
QuitSilent(t) ==  \* mutant: no wakeup()
    /\ tpc[t] = "out"
    /\ t \notin quitted
    /\ quit_' = TRUE
    /\ quitted' = quitted \cup {t}
    /\ UNCHANGED <<tpc, pendingFunctors_, wakeupFd_, functors, loopVars, submitted, ran>>

Quit(t) ==
    /\ tpc[t] = "out"
    /\ t \notin quitted
    /\ quit_' = TRUE
    /\ tpc' = [tpc EXCEPT ![t] = "quitting"]
    /\ quitted' = quitted \cup {t}
    /\ UNCHANGED <<pendingFunctors_, wakeupFd_, functors, loopVars, submitted, ran>>

\* wakeup: eight bytes added to the eventfd, end of queueInLoop() or quit().
Wakeup(t) ==
    /\ tpc[t] # "out"
    /\ wakeupFd_' = wakeupFd_ + 1
    /\ tpc' = [tpc EXCEPT ![t] = "out"]
    /\ UNCHANGED <<pendingFunctors_, quit_, functors, loopVars, quitted, submitted, ran>>

-----------------------------------------------------------------------------
(* The loop thread. *)

\* loop(): looping_ and quit_ are set, whatever was there before.
EnterLoop ==
    /\ pc = "created"
    /\ looping_' = TRUE
    /\ quit_' = FALSE
    /\ pc' = "test"
    /\ UNCHANGED <<pendingFunctors_, wakeupFd_, functors, callingPendingFunctors_,
                   eventHandling_, activeChannels_, tpc, quitted, submitted, ran>>

\* while (!quit_): poll again, or leave.
Test ==
    /\ pc = "test"
    /\ \/ ~quit_ /\ pc' = "poll" /\ UNCHANGED looping_
       \/ quit_ /\ pc' = "stopped" /\ looping_' = FALSE
    /\ activeChannels_' = {}
    /\ UNCHANGED <<pendingFunctors_, quit_, wakeupFd_, functors, callingPendingFunctors_,
                   eventHandling_, tpc, quitted, submitted, ran>>

\* poll() returns: with the wakeup channel when the eventfd is readable (level
\* triggered) and with whatever descriptors are ready, or after kPollTimeMs.
PollReturns(ready) ==
    /\ pc = "poll"
    /\ activeChannels_' = ready
    /\ eventHandling_' = TRUE
    /\ pc' = "events"
    /\ UNCHANGED <<pendingFunctors_, quit_, wakeupFd_, functors, callingPendingFunctors_,
                   looping_, tpc, quitted, submitted, ran>>

PollWakeup == wakeupFd_ > 0 /\ \E io \in SUBSET {"io"} : PollReturns({"wakeup"} \cup io)
PollIo == wakeupFd_ = 0 /\ PollReturns({"io"})
PollTimeout == wakeupFd_ = 0 /\ PollReturns({})

\* handleRead of the wakeup channel: the counter is read and becomes 0.
HandleRead ==
    /\ pc = "events"
    /\ "wakeup" \in activeChannels_
    /\ wakeupFd_' = 0
    /\ activeChannels_' = activeChannels_ \ {"wakeup"}
    /\ UNCHANGED <<pendingFunctors_, quit_, functors, callingPendingFunctors_, eventHandling_,
                   looping_, pc, tpc, quitted, submitted, ran>>

\* Another channel's handler: it may queue a functor, and since this is the
\* loop thread and no functor is being called there is no wakeup(), or it may
\* call quit(), also without wakeup().
HandleIo ==
    /\ pc = "events"
    /\ "io" \in activeChannels_
    /\ activeChannels_' = activeChannels_ \ {"io"}
    /\ \/ UNCHANGED <<pendingFunctors_, submitted, quit_>>
       \/ (\E f \in New : Push(f)) /\ UNCHANGED quit_
       \/ quit_' = TRUE /\ UNCHANGED <<pendingFunctors_, submitted>>
    /\ UNCHANGED <<wakeupFd_, functors, callingPendingFunctors_, eventHandling_, looping_, pc,
                   tpc, quitted, ran>>

EventsDone ==
    /\ pc = "events"
    /\ activeChannels_ = {}
    /\ eventHandling_' = FALSE
    /\ pc' = "swap"
    /\ UNCHANGED <<pendingFunctors_, quit_, wakeupFd_, functors, callingPendingFunctors_,
                   looping_, activeChannels_, tpc, quitted, submitted, ran>>

\* doPendingFunctors: swap under mutex_.

SwapPending ==
    /\ pc = "swap"
    /\ callingPendingFunctors_' = TRUE
    /\ functors' = pendingFunctors_
    /\ pendingFunctors_' = <<>>
    /\ pc' = "run"
    /\ UNCHANGED <<quit_, wakeupFd_, eventHandling_, looping_, activeChannels_, tpc, quitted,
                   submitted, ran>>

\* The loop thread's own queueInLoop while callingPendingFunctors_: with wakeup().
QueueFromFunctorSilent ==  \* mutant: wakeup() only for other threads
    /\ \E f \in New : Push(f)
    /\ UNCHANGED wakeupFd_

QueueFromFunctor ==
    /\ \E f \in New : Push(f)
    /\ wakeupFd_' = wakeupFd_ + 1

\* functors[i](): it may queue another functor, or call quit() (no wakeup()).
RunFunctorLast ==  \* mutant: the vector is run from its end
    /\ pc = "run"
    /\ functors # <<>>
    /\ ran' = Append(ran, functors[Len(functors)])
    /\ functors' = SubSeq(functors, 1, Len(functors) - 1)
    /\ UNCHANGED <<pendingFunctors_, submitted, wakeupFd_, quit_, loopVars, tpc, quitted>>

RunFunctor ==
    /\ pc = "run"
    /\ functors # <<>>
    /\ ran' = Append(ran, Head(functors))
    /\ functors' = Tail(functors)
    /\ \/ QueueFromFunctor /\ UNCHANGED quit_
       \/ quit_' = TRUE /\ UNCHANGED <<pendingFunctors_, submitted, wakeupFd_>>
       \/ UNCHANGED <<pendingFunctors_, submitted, wakeupFd_, quit_>>
    /\ UNCHANGED <<loopVars, tpc, quitted>>

FunctorsDone ==
    /\ pc = "run"
    /\ functors = <<>>
    /\ callingPendingFunctors_' = FALSE
    /\ pc' = "test"
    /\ UNCHANGED <<pendingFunctors_, quit_, wakeupFd_, functors, eventHandling_, looping_,
                   activeChannels_, tpc, quitted, submitted, ran>>

-----------------------------------------------------------------------------
\* Steps of the loop thread that need nothing but the processor.
LoopStep ==
    \/ EnterLoop \/ Test \/ PollWakeup \/ HandleRead \/ HandleIo \/ EventsDone
    \/ SwapPending \/ RunFunctor \/ FunctorsDone

Next ==
    \/ LoopStep
    \/ PollIo \/ PollTimeout
    \/ \E t \in Threads : QueueInLoop(t) \/ Quit(t) \/ Wakeup(t)

\* The threads are scheduled; nothing is assumed of ready descriptors or of the
\* ten-second poll timeout.
Fairness ==
    /\ WF_vars(LoopStep)
    /\ \A t \in Threads : WF_vars(Wakeup(t))

Spec == Init /\ [][Next]_vars
FairSpec == Spec /\ Fairness

-----------------------------------------------------------------------------
(***************************************************************************)
(* Properties.                                                             *)
(***************************************************************************)

\* No lost wakeup: when the loop is blocked in poll() and a functor is pending,
\* the eventfd is readable or a thread is about to write to it.  The functor
\* never waits for the poll timeout (queueInLoop's condition for wakeup()).
NoLostWakeup ==
    pc = "poll" /\ pendingFunctors_ # <<>>
        => wakeupFd_ > 0 \/ \E t \in Threads : tpc[t] = "pushed"

\* The same for quit(): a loop blocked in poll() that was told to quit is, or
\* is about to be, woken up.
NoLostQuit ==
    pc = "poll" /\ quit_
        => wakeupFd_ > 0 \/ \E t \in Threads : tpc[t] = "quitting"

\* A functor is never lost or doubled by the swap of doPendingFunctors while
\* others push: what was queued is what ran, what is being run and what is
\* pending, in this order.
NothingLost == submitted = ran \o functors \o pendingFunctors_

\* The loop executes the functors as the abstract executor does.
Executor == INSTANCE TaskExecutor
ImplementsExecutor == Executor!Spec

\* "It wakes up the loop, and run the cb" (EventLoop.h): a queued functor runs,
\* without help from descriptors or the poll timeout, unless the loop quits.
QueuedFunctorRuns ==
    \A f \in Functors :
        (\E i \in DOMAIN submitted : submitted[i] = f)
            ~> (quit_ \/ pc = "stopped" \/ \E i \in DOMAIN ran : ran[i] = f)

=============================================================================
