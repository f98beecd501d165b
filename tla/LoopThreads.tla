----------------------------- MODULE LoopThreads -----------------------------
(***************************************************************************)
(* EventLoopThreadPool: the base thread starts threads, each of which      *)
(* makes an EventLoop on its stack and publishes its address through       *)
(* loop_, mutex_ and cond_ of its EventLoopThread; the destructor ends the *)
(* loop and joins the thread.  MutexLock and Condition are modelled with   *)
(* the holder_ they keep for assertions, pthread underneath is external.   *)
(***************************************************************************)
EXTENDS Integers, Sequences, FiniteSets

CONSTANTS
    NumThreads,   \* numThreads_
    MaxNext       \* bound: connections handed out

ASSUME ThreadConstants == NumThreads \in Nat /\ MaxNext \in Nat

Threads == 1 .. NumThreads
Nobody == 0
Base == NumThreads + 1   \* the thread of the base loop
NULL == 0

VARIABLES
    base,     \* where the base thread is, and with which EventLoopThread
    pc,       \* where each thread is
    tid_,     \* Thread::tid_, 0 until the thread ran
    loop_,    \* EventLoopThread::loop_
    mutex,    \* who has locked mutex_, as pthread knows it
    holder_,  \* MutexLock::holder_
    quit_,    \* EventLoop::quit_
    wakeups,  \* the loop's eventfd is readable
    loops_,   \* EventLoopThreadPool::loops_
    next_,    \* EventLoopThreadPool::next_
    given     \* how often getNextLoop returned each loop

vars == <<base, pc, tid_, loop_, mutex, holder_, quit_, wakeups, loops_, next_, given>>
poolVars == <<loops_, next_, given>>

Init ==
    /\ base = [at |-> "start", i |-> 1]
    /\ pc = [t \in Threads |-> "none"]
    /\ tid_ = [t \in Threads |-> 0]
    /\ loop_ = [t \in Threads |-> NULL]
    /\ mutex = [t \in Threads |-> Nobody]
    /\ holder_ = [t \in Threads |-> Nobody]
    /\ quit_ = [t \in Threads |-> FALSE]
    /\ wakeups = [t \in Threads |-> FALSE]
    /\ loops_ = <<>> /\ next_ = 0
    /\ given = [t \in Threads |-> 0]

\* The EventLoop on the stack of thread t exists.
LoopAlive(t) ==
    pc[t] \in {"lock", "publish", "enter", "test", "poll", "returned", "~EventLoop"}

-----------------------------------------------------------------------------
(* MutexLock: holder_ is written inside the lock. *)

lock(t, who) ==
    /\ mutex[t] = Nobody
    /\ mutex' = [mutex EXCEPT ![t] = who] /\ holder_' = [holder_ EXCEPT ![t] = who]

unlock(t) == mutex' = [mutex EXCEPT ![t] = Nobody] /\ holder_' = [holder_ EXCEPT ![t] = Nobody]

\* Condition::wait gives the lock up: the UnassignGuard before pthread does.
WaitUnlock(t) == unlock(t)

-----------------------------------------------------------------------------
(* The base thread. *)

Goto(at) == base' = [base EXCEPT !.at = at]
At(at) == base.at = at /\ base.i <= NumThreads

\* startLoop of the next EventLoopThread: Thread::start
StartThread ==
    /\ At("start")
    /\ pc' = [pc EXCEPT ![base.i] = "created"] /\ Goto("lock")
    /\ UNCHANGED <<tid_, loop_, mutex, holder_, quit_, wakeups, poolVars>>

LockStart ==
    /\ At("lock") /\ lock(base.i, Base) /\ Goto("while")
    /\ UNCHANGED <<pc, tid_, loop_, quit_, wakeups, poolVars>>

\* while (loop_ == NULL) cond_.wait()
MustWait == loop_[base.i] = NULL
WaitLoop ==
    /\ At("while") /\ MustWait /\ WaitUnlock(base.i) /\ Goto("wait")
    /\ UNCHANGED <<pc, tid_, loop_, quit_, wakeups, poolVars>>

\* pthread_cond_wait returns with the lock, after a notify or for no reason.
WaitReturns(at) ==
    /\ At(at) /\ lock(base.i, Base) /\ Goto("while")
    /\ UNCHANGED <<pc, tid_, loop_, quit_, wakeups, poolVars>>

StartReturns ==
    /\ At("while") /\ ~MustWait /\ unlock(base.i)
    /\ loops_' = Append(loops_, loop_[base.i])
    /\ base' = [at |-> "start", i |-> base.i + 1]
    /\ UNCHANGED <<pc, tid_, loop_, quit_, wakeups, next_, given>>

\* getNextLoop, for each connection
NextIndex == IF next_ + 1 >= Len(loops_) THEN 0 ELSE next_ + 1

GetNextLoop ==
    /\ base = [at |-> "start", i |-> NumThreads + 1] /\ loops_ # <<>>
    /\ given' = [given EXCEPT ![loops_[next_ + 1]] = @ + 1]
    /\ given'[loops_[next_ + 1]] <= MaxNext
    /\ next_' = NextIndex
    /\ UNCHANGED <<base, pc, tid_, loop_, mutex, holder_, quit_, wakeups, loops_>>

\* The pool is destroyed, and its EventLoopThreads one after the other.
DestroyPool ==
    /\ base = [at |-> "start", i |-> NumThreads + 1]
    /\ base' = [at |-> "~EventLoopThread", i |-> 1]
    /\ UNCHANGED <<pc, tid_, loop_, mutex, holder_, quit_, wakeups, poolVars>>

\* ~EventLoopThread reads loop_ without the lock.
Destroy ==
    /\ At("~EventLoopThread")
    /\ IF loop_[base.i] # NULL THEN Goto("quit")
       ELSE base' = [at |-> "~EventLoopThread", i |-> base.i + 1]
    /\ UNCHANGED <<pc, tid_, loop_, mutex, holder_, quit_, wakeups, poolVars>>

\* quit(), then wakeup()
QuitLoop ==
    /\ At("quit") /\ quit_' = [quit_ EXCEPT ![base.i] = TRUE] /\ Goto("wakeup")
    /\ UNCHANGED <<pc, tid_, loop_, mutex, holder_, wakeups, poolVars>>

WakeupLoop ==
    /\ At("wakeup") /\ wakeups' = [wakeups EXCEPT ![base.i] = TRUE] /\ Goto("join")
    /\ UNCHANGED <<pc, tid_, loop_, mutex, holder_, quit_, poolVars>>

JoinedAtOnce(t) == TRUE  \* mutant
Joined(t) == pc[t] = "done"

JoinThread ==
    /\ At("join") /\ Joined(base.i)
    /\ base' = [at |-> "~EventLoopThread", i |-> base.i + 1]
    /\ UNCHANGED <<pc, tid_, loop_, mutex, holder_, quit_, wakeups, poolVars>>

StartLoop ==
    StartThread \/ LockStart \/ WaitLoop \/ WaitReturns("notified") \/ StartReturns
DestroyLoop == Destroy \/ QuitLoop \/ WakeupLoop \/ JoinThread

-----------------------------------------------------------------------------
(* A thread of the pool. *)

ThreadGoes(t, from, to) == pc[t] = from /\ pc' = [pc EXCEPT ![t] = to]

\* runInThread up to threadFunc, which makes the EventLoop and calls callback_.
RunInThread(t) ==
    /\ ThreadGoes(t, "created", "lock") /\ tid_' = [tid_ EXCEPT ![t] = t]
    /\ UNCHANGED <<base, loop_, mutex, holder_, quit_, wakeups, poolVars>>

LockPublish(t) ==
    /\ ThreadGoes(t, "lock", "publish") /\ lock(t, t)
    /\ UNCHANGED <<base, tid_, loop_, quit_, wakeups, poolVars>>

\* loop_ = &loop; cond_.notify() wakes the base thread if it is waiting.
WokenNobody(t) == base  \* mutant
Woken(t) == IF At("wait") /\ base.i = t THEN [base EXCEPT !.at = "notified"] ELSE base

Publish(t) ==
    /\ ThreadGoes(t, "publish", "enter") /\ unlock(t)
    /\ loop_' = [loop_ EXCEPT ![t] = t] /\ base' = Woken(t)
    /\ UNCHANGED <<tid_, quit_, wakeups, poolVars>>

\* loop(): quit_ is cleared, whatever quit() did before.
EnterLoop(t) ==
    /\ ThreadGoes(t, "enter", "test") /\ quit_' = [quit_ EXCEPT ![t] = FALSE]
    /\ UNCHANGED <<base, tid_, loop_, mutex, holder_, wakeups, poolVars>>

QuitSeenIfWoken(t) == quit_[t] /\ wakeups[t]  \* mutant
QuitSeen(t) == quit_[t]

TestQuit(t) ==
    /\ ThreadGoes(t, "test", IF QuitSeen(t) THEN "returned" ELSE "poll")
    /\ UNCHANGED <<base, tid_, loop_, mutex, holder_, quit_, wakeups, poolVars>>

\* poll() returns for the eventfd, for input or after its timeout.
PollOnce(t) ==
    /\ ThreadGoes(t, "poll", "test") /\ wakeups' = [wakeups EXCEPT ![t] = FALSE]
    /\ UNCHANGED <<base, tid_, loop_, mutex, holder_, quit_, poolVars>>

\* loop_ = NULL, without the lock; then the loop is destroyed.
ClearLoop(t) ==
    /\ ThreadGoes(t, "returned", "~EventLoop") /\ loop_' = [loop_ EXCEPT ![t] = NULL]
    /\ UNCHANGED <<base, tid_, mutex, holder_, quit_, wakeups, poolVars>>

EndThread(t) ==
    /\ ThreadGoes(t, "~EventLoop", "done")
    /\ UNCHANGED <<base, tid_, loop_, mutex, holder_, quit_, wakeups, poolVars>>

ThreadFunc(t) ==
    \/ RunInThread(t) \/ LockPublish(t) \/ Publish(t) \/ EnterLoop(t)
    \/ TestQuit(t) \/ PollOnce(t) \/ ClearLoop(t) \/ EndThread(t)

Next ==
    \/ StartLoop \/ WaitReturns("wait") \/ GetNextLoop \/ DestroyPool \/ DestroyLoop
    \/ \E t \in Threads : ThreadFunc(t)

Spec == Init /\ [][Next]_vars

\* Every thread runs; a wait need not end without a notify; whoever is blocked
\* on a mutex that becomes free again and again gets it.
FairSpec ==
    /\ Spec /\ WF_vars(StartLoop) /\ WF_vars(DestroyLoop)
    /\ \A t \in Threads : WF_vars(ThreadFunc(t)) /\ SF_vars(LockPublish(t))

-----------------------------------------------------------------------------
(* Properties. *)

TypeOK ==
    /\ base \in [at : {"start", "lock", "while", "wait", "notified", "~EventLoopThread",
                       "quit", "wakeup", "join"},
                 i : 1 .. NumThreads + 1]
    /\ pc \in [Threads -> {"none", "created", "lock", "publish", "enter", "test", "poll",
                           "returned", "~EventLoop", "done"}]
    /\ tid_ \in [Threads -> Threads \cup {0}]
    /\ loop_ \in [Threads -> Threads \cup {NULL}]
    /\ mutex \in [Threads -> Threads \cup {Nobody, Base}]
    /\ holder_ \in [Threads -> Threads \cup {Nobody, Base}]
    /\ quit_ \in [Threads -> BOOLEAN] /\ wakeups \in [Threads -> BOOLEAN]
    /\ loops_ \in Seq(Threads) /\ next_ \in Nat
    /\ given \in [Threads -> Nat]

Destroying == base.at \in {"~EventLoopThread", "quit", "wakeup", "join"}

\* isLockedByThisThread() tells the truth, Condition::wait() included: holder_
\* never names a thread that does not have the mutex.
HolderOwns == \A t \in Threads : holder_[t] # Nobody => mutex[t] = holder_[t]

\* startLoop() returns the loop of the thread it started, whose tid is known by
\* then, and that loop lives until the EventLoopThread is destroyed: no
\* connection is given to a loop that is not there yet or not there any more.
LoopsLive ==
    \A i \in DOMAIN loops_ :
        /\ loops_[i] = i /\ tid_[i] = i
        /\ ~Destroying \/ base.i < i => LoopAlive(i)

\* The destructor calls quit() on a loop that exists, although it reads loop_
\* without the lock, and when it is done the thread will not touch the
\* EventLoopThread again.
DestroySafe ==
    /\ base.at = "quit" => LoopAlive(base.i)
    /\ \A t \in Threads : Destroying /\ t < base.i => pc[t] \in {"~EventLoop", "done"}

\* Connections are spread evenly over the loops.
RoundRobin == \A t, u \in Threads : given[t] <= given[u] + 1

\* From the start of the pool to its destruction every loop that is used, by
\* whichever thread, is there.
LoopsSafe == TypeOK /\ HolderOwns /\ LoopsLive /\ DestroySafe /\ RoundRobin

\* No notify is lost: all threads of the pool get started.
AllStart == <>(Len(loops_) = NumThreads)

\* A destructor that finds the loop running gets its thread to end (a quit()
\* before loop() is lost, and join() then waits for ever).
DestroyEnds ==
    \A t \in Threads :
        base = [at |-> "quit", i |-> t] /\ pc[t] \in {"test", "poll"}
            ~> Destroying /\ base.i > t
=============================================================================
