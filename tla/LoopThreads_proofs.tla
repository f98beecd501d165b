-------------------------- MODULE LoopThreads_proofs --------------------------
(***************************************************************************)
(* The pool of loop threads is safe for every number of threads: whoever   *)
(* uses an EventLoop, the base thread or the destructor, finds it alive.   *)
(***************************************************************************)
EXTENDS LoopThreads, TLAPS

Run == {"enter", "test", "poll"}

\* Thread t is started and its loop is being waited for.
Starting(t) == ~Destroying /\ t = base.i /\ base.at # "start"

\* quit() was called on the loop of thread t, and join() has not returned.
Ending(t) == t = base.i /\ base.at \in {"wakeup", "join"}

\* Where each thread is, by where the base thread is.
Phase ==
    \A t \in Threads :
        /\ ~Destroying /\ t < base.i => pc[t] \in Run
        /\ Starting(t) => pc[t] \in {"created", "lock", "publish"} \cup Run
        /\ ~Destroying /\ t >= base.i /\ ~Starting(t) => pc[t] = "none"
        /\ Destroying /\ t >= base.i /\ ~Ending(t) => pc[t] \in Run
        /\ Ending(t) => pc[t] \in Run \cup {"returned", "~EventLoop", "done"}
        /\ Destroying /\ t < base.i => pc[t] = "done"

\* loop_ and tid_ are what the thread has written so far.
Published ==
    \A t \in Threads :
        /\ loop_[t] = IF pc[t] \in Run \cup {"returned"} THEN t ELSE NULL
        /\ tid_[t] = IF pc[t] \in {"none", "created"} THEN 0 ELSE t

\* Only the destructor asks a loop to end.
QuitByDestructor ==
    \A t \in Threads : quit_[t] => Destroying /\ (t < base.i \/ Ending(t))

\* The base thread deals with an EventLoopThread of the pool.
BaseInPool ==
    base.at \notin {"start", "~EventLoopThread"} => base.i <= NumThreads

\* The loops of the threads started so far, in their order.
LoopsExact ==
    /\ Len(loops_) = IF Destroying THEN NumThreads ELSE base.i - 1
    /\ \A i \in 1 .. Len(loops_) : loops_[i] = i

\* Loops before next_ have been given one connection more than the others.
Turns ==
    /\ ~Destroying /\ base.i <= NumThreads =>
        next_ = 0 /\ \A t \in Threads : given[t] = 0
    /\ next_ = 0 \/ next_ < NumThreads
    /\ \A t, u \in Threads :
        given[t] = IF t <= next_ /\ next_ < u THEN given[u] + 1
                   ELSE IF u <= next_ /\ next_ < t THEN given[u] - 1 ELSE given[u]

SameHolder == mutex = holder_

IInv ==
    /\ TypeOK /\ SameHolder /\ Phase /\ Published /\ QuitByDestructor /\ BaseInPool
    /\ LoopsExact /\ Turns

-----------------------------------------------------------------------------
(* One lemma per step of the base thread and of a thread of the pool. *)

\* startLoop() starts the next thread of the pool.
LEMMA StartThreadStep ==
  ASSUME IInv, StartThread
  PROVE  IInv'
<1> USE ThreadConstants DEF IInv, TypeOK, Threads, Base, Nobody, NULL, poolVars,
       StartThread, At, Goto
<1>1. base.i \in Threads /\ pc[base.i] = "none"
  BY DEF Phase, Starting, Destroying
<1>2. loop_[base.i] = NULL /\ tid_[base.i] = 0
  BY <1>1 DEF Published, Run
<1>3. TypeOK'
  OBVIOUS
<1>4. SameHolder'
  BY DEF SameHolder
<1>5. Phase'
  BY <1>1 DEF Phase, Starting, Ending, Destroying, Run
<1>6. Published'
  <2> SUFFICES ASSUME NEW t \in Threads
               PROVE  /\ loop_[t] = IF pc'[t] \in Run \cup {"returned"} THEN t ELSE NULL
                      /\ tid_[t] = IF pc'[t] \in {"none", "created"} THEN 0 ELSE t
    BY DEF Published
  <2>1. CASE t = base.i
    BY <1>1, <1>2, <2>1 DEF Run
  <2>2. CASE t # base.i
    BY <2>2 DEF Published
  <2> QED BY <2>1, <2>2
<1>7. QuitByDestructor' /\ BaseInPool'
  BY DEF QuitByDestructor, BaseInPool, Ending, Destroying
<1>8. LoopsExact' /\ Turns'
  BY DEF LoopsExact, Turns, Destroying
<1> QED BY <1>3, <1>4, <1>5, <1>6, <1>7, <1>8

\* startLoop() takes mutex_ of the thread it started.
LEMMA LockStartStep ==
  ASSUME IInv, LockStart
  PROVE  IInv'
<1> USE ThreadConstants DEF IInv, TypeOK, Threads, Base, Nobody, NULL, poolVars,
       LockStart, lock, At, Goto
<1>1. TypeOK'
  OBVIOUS
<1>2. SameHolder'
  BY DEF SameHolder
<1>3. Phase'
  BY DEF Phase, Starting, Ending, Destroying, Run, Published, QuitByDestructor,
         BaseInPool
<1>4. Published'
  BY DEF Phase, Starting, Ending, Destroying, Run, Published
<1>5. QuitByDestructor'
  BY DEF QuitByDestructor, Phase, Starting, Ending, Destroying, Run
<1>6. BaseInPool'
  BY DEF BaseInPool
<1>7. LoopsExact'
  BY DEF LoopsExact, Destroying, BaseInPool, Published, Phase, Starting, Ending, Run
<1>8. Turns'
  BY DEF Turns, Destroying, LoopsExact, BaseInPool
<1> QED BY <1>1, <1>2, <1>3, <1>4, <1>5, <1>6, <1>7, <1>8

\* startLoop() waits: Condition::wait gives mutex_ up.
LEMMA WaitLoopStep ==
  ASSUME IInv, WaitLoop
  PROVE  IInv'
<1> USE ThreadConstants DEF IInv, TypeOK, Threads, Base, Nobody, NULL, poolVars,
       WaitLoop, WaitUnlock, unlock, MustWait, At, Goto
<1>1. TypeOK'
  OBVIOUS
<1>2. SameHolder'
  BY DEF SameHolder
<1>3. Phase'
  BY DEF Phase, Starting, Ending, Destroying, Run, Published, QuitByDestructor,
         BaseInPool
<1>4. Published'
  BY DEF Phase, Starting, Ending, Destroying, Run, Published
<1>5. QuitByDestructor'
  BY DEF QuitByDestructor, Phase, Starting, Ending, Destroying, Run
<1>6. BaseInPool'
  BY DEF BaseInPool
<1>7. LoopsExact'
  BY DEF LoopsExact, Destroying, BaseInPool, Published, Phase, Starting, Ending, Run
<1>8. Turns'
  BY DEF Turns, Destroying, LoopsExact, BaseInPool
<1> QED BY <1>1, <1>2, <1>3, <1>4, <1>5, <1>6, <1>7, <1>8

\* A notified wait returns with mutex_.
LEMMA NotifiedWaitStep ==
  ASSUME IInv, WaitReturns("notified")
  PROVE  IInv'
<1> USE ThreadConstants DEF IInv, TypeOK, Threads, Base, Nobody, NULL, poolVars,
       WaitReturns, lock, At, Goto
<1>1. TypeOK'
  OBVIOUS
<1>2. SameHolder'
  BY DEF SameHolder
<1>3. Phase'
  BY DEF Phase, Starting, Ending, Destroying, Run, Published, QuitByDestructor,
         BaseInPool
<1>4. Published'
  BY DEF Phase, Starting, Ending, Destroying, Run, Published
<1>5. QuitByDestructor'
  BY DEF QuitByDestructor, Phase, Starting, Ending, Destroying, Run
<1>6. BaseInPool'
  BY DEF BaseInPool
<1>7. LoopsExact'
  BY DEF LoopsExact, Destroying, BaseInPool, Published, Phase, Starting, Ending, Run
<1>8. Turns'
  BY DEF Turns, Destroying, LoopsExact, BaseInPool
<1> QED BY <1>1, <1>2, <1>3, <1>4, <1>5, <1>6, <1>7, <1>8

\* startLoop() returns the loop its thread has published.
LEMMA StartReturnsStep ==
  ASSUME IInv, StartReturns
  PROVE  IInv'
<1> USE ThreadConstants DEF IInv, TypeOK, Threads, Base, Nobody, NULL, poolVars,
       StartReturns, unlock, MustWait, At
<1>1. base.i \in Threads /\ pc[base.i] \in {"created", "lock", "publish"} \cup Run
  BY DEF Phase, Starting, Destroying
<1>2. loop_[base.i] = base.i /\ pc[base.i] \in Run
  BY <1>1 DEF Published, Run
<1>3. /\ base.i \in Int /\ base'.at = "start" /\ base'.i = base.i + 1 /\ base.at = "while"
      /\ ~Destroying /\ ~Destroying' /\ pc' = pc
  BY DEF Destroying
<1>4. TypeOK'
  <2>1. base.i + 1 \in 1 .. NumThreads + 1
    BY <1>1
  <2>2. loops_' \in Seq(Threads)
    BY <1>1, <1>2
  <2> QED BY <2>1, <2>2
<1>5. SameHolder' /\ Published'
  BY DEF SameHolder, Published
<1>6. Phase'
  <2> SUFFICES ASSUME NEW t \in Threads
               PROVE  (t < base.i + 1 => pc[t] \in Run) /\ (t >= base.i + 1 => pc[t] = "none")
    BY <1>3 DEF Phase, Starting, Ending, Destroying
  <2>1. t < base.i + 1 <=> t < base.i \/ t = base.i
    BY <1>3
  <2>2. t < base.i + 1 => pc[t] \in Run
    BY <1>2, <1>3, <2>1 DEF Phase
  <2>3. t >= base.i + 1 => t >= base.i /\ t # base.i
    BY <1>3
  <2>4. t >= base.i + 1 => pc[t] = "none"
    BY <1>3, <2>3 DEF Phase, Starting
  <2> QED BY <2>2, <2>4
<1>7. QuitByDestructor' /\ BaseInPool'
  BY DEF QuitByDestructor, BaseInPool, Ending, Destroying
<1>8. LoopsExact' /\ Turns'
  BY <1>1, <1>2 DEF LoopsExact, Turns, Destroying
<1> QED BY <1>4, <1>5, <1>6, <1>7, <1>8

\* A wait that nobody notified returns with mutex_.
LEMMA SpuriousWaitStep ==
  ASSUME IInv, WaitReturns("wait")
  PROVE  IInv'
<1> USE ThreadConstants DEF IInv, TypeOK, Threads, Base, Nobody, NULL, poolVars,
       WaitReturns, lock, At, Goto
<1>1. TypeOK'
  OBVIOUS
<1>2. SameHolder'
  BY DEF SameHolder
<1>3. Phase'
  BY DEF Phase, Starting, Ending, Destroying, Run, Published, QuitByDestructor,
         BaseInPool
<1>4. Published'
  BY DEF Phase, Starting, Ending, Destroying, Run, Published
<1>5. QuitByDestructor'
  BY DEF QuitByDestructor, Phase, Starting, Ending, Destroying, Run
<1>6. BaseInPool'
  BY DEF BaseInPool
<1>7. LoopsExact'
  BY DEF LoopsExact, Destroying, BaseInPool, Published, Phase, Starting, Ending, Run
<1>8. Turns'
  BY DEF Turns, Destroying, LoopsExact, BaseInPool
<1> QED BY <1>1, <1>2, <1>3, <1>4, <1>5, <1>6, <1>7, <1>8

\* getNextLoop() gives a connection to the loop whose turn it is.
LEMMA GetNextLoopStep ==
  ASSUME IInv, GetNextLoop
  PROVE  IInv'
<1> USE ThreadConstants DEF IInv, TypeOK, Threads, Base, Nobody, NULL, poolVars,
       GetNextLoop, NextIndex, At
<1>1. /\ base.i = NumThreads + 1 /\ ~Destroying /\ Len(loops_) = NumThreads /\ NumThreads >= 1
      /\ next_ + 1 \in Threads /\ loops_[next_ + 1] = next_ + 1
  BY DEF LoopsExact, Turns, Destroying
<1>2. /\ given' = [given EXCEPT ![next_ + 1] = @ + 1]
      /\ next_' = IF next_ + 1 = NumThreads THEN 0 ELSE next_ + 1
  BY <1>1
<1>3. next_' \in Nat /\ given' \in [Threads -> Nat]
  BY <1>1, <1>2
<1>4. TypeOK'
  BY <1>3
<1>5. SameHolder' /\ Phase' /\ Published' /\ QuitByDestructor' /\ BaseInPool' /\ LoopsExact'
  BY DEF SameHolder, Phase, Published, QuitByDestructor, BaseInPool, LoopsExact,
         Starting, Ending, Destroying
<1>6. Turns'
  BY <1>1, <1>2 DEF Turns, Destroying
<1> QED BY <1>4, <1>5, <1>6

\* The destruction of the pool begins with all threads in their loops.
LEMMA DestroyPoolStep ==
  ASSUME IInv, DestroyPool
  PROVE  IInv'
<1> USE ThreadConstants DEF IInv, TypeOK, Threads, Base, Nobody, NULL, poolVars,
       DestroyPool, At
<1>1. TypeOK'
  OBVIOUS
<1>2. SameHolder'
  BY DEF SameHolder
<1>3. Phase'
  BY DEF Phase, Starting, Ending, Destroying, Run, Published, QuitByDestructor,
         BaseInPool
<1>4. Published'
  BY DEF Phase, Starting, Ending, Destroying, Run, Published
<1>5. QuitByDestructor'
  BY DEF QuitByDestructor, Phase, Starting, Ending, Destroying, Run
<1>6. BaseInPool'
  BY DEF BaseInPool
<1>7. LoopsExact'
  BY DEF LoopsExact, Destroying, BaseInPool, Published, Phase, Starting, Ending, Run
<1>8. Turns'
  BY DEF Turns, Destroying, LoopsExact, BaseInPool
<1> QED BY <1>1, <1>2, <1>3, <1>4, <1>5, <1>6, <1>7, <1>8

\* ~EventLoopThread finds loop_ set, without the lock.
LEMMA DestroyStep ==
  ASSUME IInv, Destroy
  PROVE  IInv'
<1> USE ThreadConstants DEF IInv, TypeOK, Threads, Base, Nobody, NULL, poolVars,
       Destroy, At, Goto
<1>1. base.i \in Threads /\ pc[base.i] \in Run
  BY DEF Phase, Ending, Destroying
<1>2. loop_[base.i] # NULL
  BY <1>1 DEF Published
<1>3. base'.at = "quit" /\ base'.i = base.i /\ pc' = pc
  BY <1>2
<1>4. TypeOK'
  BY <1>2
<1>5. SameHolder' /\ Published'
  BY DEF SameHolder, Published
<1>6. Phase' /\ QuitByDestructor' /\ BaseInPool'
  BY <1>3 DEF Phase, QuitByDestructor, BaseInPool, Starting, Ending, Destroying
<1>7. LoopsExact' /\ Turns'
  BY <1>3 DEF LoopsExact, Turns, Destroying
<1> QED BY <1>4, <1>5, <1>6, <1>7

\* quit() of the loop that the destructor found.
LEMMA QuitLoopStep ==
  ASSUME IInv, QuitLoop
  PROVE  IInv'
<1> USE ThreadConstants DEF IInv, TypeOK, Threads, Base, Nobody, NULL, poolVars,
       QuitLoop, At, Goto
<1>1. TypeOK'
  OBVIOUS
<1>2. SameHolder'
  BY DEF SameHolder
<1>3. Phase'
  BY DEF Phase, Starting, Ending, Destroying, Run, Published, QuitByDestructor,
         BaseInPool
<1>4. Published'
  BY DEF Phase, Starting, Ending, Destroying, Run, Published
<1>5. QuitByDestructor'
  BY DEF QuitByDestructor, Phase, Starting, Ending, Destroying, Run
<1>6. BaseInPool'
  BY DEF BaseInPool
<1>7. LoopsExact'
  BY DEF LoopsExact, Destroying, BaseInPool, Published, Phase, Starting, Ending, Run
<1>8. Turns'
  BY DEF Turns, Destroying, LoopsExact, BaseInPool
<1> QED BY <1>1, <1>2, <1>3, <1>4, <1>5, <1>6, <1>7, <1>8

\* wakeup() after quit(); the loop may have ended in between.
LEMMA WakeupLoopStep ==
  ASSUME IInv, WakeupLoop
  PROVE  IInv'
<1> USE ThreadConstants DEF IInv, TypeOK, Threads, Base, Nobody, NULL, poolVars,
       WakeupLoop, At, Goto
<1>1. TypeOK'
  OBVIOUS
<1>2. SameHolder'
  BY DEF SameHolder
<1>3. Phase'
  BY DEF Phase, Starting, Ending, Destroying, Run, Published, QuitByDestructor,
         BaseInPool
<1>4. Published'
  BY DEF Phase, Starting, Ending, Destroying, Run, Published
<1>5. QuitByDestructor'
  BY DEF QuitByDestructor, Phase, Starting, Ending, Destroying, Run
<1>6. BaseInPool'
  BY DEF BaseInPool
<1>7. LoopsExact'
  BY DEF LoopsExact, Destroying, BaseInPool, Published, Phase, Starting, Ending, Run
<1>8. Turns'
  BY DEF Turns, Destroying, LoopsExact, BaseInPool
<1> QED BY <1>1, <1>2, <1>3, <1>4, <1>5, <1>6, <1>7, <1>8

\* join() returns when the thread has ended.
LEMMA JoinThreadStep ==
  ASSUME IInv, JoinThread
  PROVE  IInv'
<1> USE ThreadConstants DEF IInv, TypeOK, Threads, Base, Nobody, NULL, poolVars,
       JoinThread, Joined, At
<1>1. base.i \in Threads /\ pc[base.i] = "done" /\ Ending(base.i) /\ Destroying
  BY DEF Ending, Destroying
<1>2. /\ base.i \in Int /\ base'.at = "~EventLoopThread" /\ base'.i = base.i + 1
      /\ Destroying' /\ pc' = pc /\ quit_' = quit_
  BY DEF Destroying
<1>3. TypeOK'
  <2>1. base.i + 1 \in 1 .. NumThreads + 1
    BY <1>1
  <2> QED BY <2>1
<1>4. SameHolder' /\ Published' /\ BaseInPool'
  BY DEF SameHolder, Published, BaseInPool
<1>5. \A t \in Threads : (t < base.i + 1 <=> t < base.i \/ t = base.i)
  BY <1>2
<1>6. Phase'
  <2> SUFFICES ASSUME NEW t \in Threads
               PROVE  (t < base.i + 1 => pc[t] = "done") /\ (t >= base.i + 1 => pc[t] \in Run)
    BY <1>2 DEF Phase, Starting, Ending
  <2>1. t < base.i + 1 => pc[t] = "done"
    BY <1>1, <1>5 DEF Phase
  <2>2. t >= base.i + 1 => t >= base.i /\ t # base.i
    BY <1>2
  <2>3. t >= base.i + 1 => pc[t] \in Run
    BY <1>1, <2>2 DEF Phase, Ending
  <2> QED BY <2>1, <2>3
<1>7. QuitByDestructor'
  <2> SUFFICES ASSUME NEW t \in Threads, quit_[t]
               PROVE  t < base.i + 1
    BY <1>2 DEF QuitByDestructor
  <2>1. t < base.i \/ t = base.i
    BY DEF QuitByDestructor, Ending
  <2> QED BY <1>5, <2>1
<1>8. LoopsExact' /\ Turns'
  BY <1>1, <1>2 DEF LoopsExact, Turns
<1> QED BY <1>3, <1>4, <1>6, <1>7, <1>8

\* The thread makes its EventLoop.
LEMMA RunInThreadStep ==
  ASSUME IInv, NEW t \in Threads, RunInThread(t)
  PROVE  IInv'
<1> USE ThreadConstants DEF IInv, TypeOK, Threads, Base, Nobody, NULL, poolVars,
       RunInThread, ThreadGoes
<1>1. TypeOK'
  OBVIOUS
<1>2. SameHolder'
  BY DEF SameHolder
<1>3. Phase'
  BY DEF Phase, Starting, Ending, Destroying, Run, Published, QuitByDestructor,
         BaseInPool
<1>4. Published'
  BY DEF Phase, Starting, Ending, Destroying, Run, Published
<1>5. QuitByDestructor'
  BY DEF QuitByDestructor, Phase, Starting, Ending, Destroying, Run
<1>6. BaseInPool'
  BY DEF BaseInPool
<1>7. LoopsExact'
  BY DEF LoopsExact, Destroying, BaseInPool, Published, Phase, Starting, Ending, Run
<1>8. Turns'
  BY DEF Turns, Destroying, LoopsExact, BaseInPool
<1> QED BY <1>1, <1>2, <1>3, <1>4, <1>5, <1>6, <1>7, <1>8

\* threadFunc takes mutex_.
LEMMA LockPublishStep ==
  ASSUME IInv, NEW t \in Threads, LockPublish(t)
  PROVE  IInv'
<1> USE ThreadConstants DEF IInv, TypeOK, Threads, Base, Nobody, NULL, poolVars,
       LockPublish, lock, ThreadGoes
<1>1. TypeOK'
  OBVIOUS
<1>2. SameHolder'
  BY DEF SameHolder
<1>3. Phase'
  BY DEF Phase, Starting, Ending, Destroying, Run, Published, QuitByDestructor,
         BaseInPool
<1>4. Published'
  BY DEF Phase, Starting, Ending, Destroying, Run, Published
<1>5. QuitByDestructor'
  BY DEF QuitByDestructor, Phase, Starting, Ending, Destroying, Run
<1>6. BaseInPool'
  BY DEF BaseInPool
<1>7. LoopsExact'
  BY DEF LoopsExact, Destroying, BaseInPool, Published, Phase, Starting, Ending, Run
<1>8. Turns'
  BY DEF Turns, Destroying, LoopsExact, BaseInPool
<1> QED BY <1>1, <1>2, <1>3, <1>4, <1>5, <1>6, <1>7, <1>8

\* threadFunc sets loop_ and notifies the base thread.
LEMMA PublishStep ==
  ASSUME IInv, NEW t \in Threads, Publish(t)
  PROVE  IInv'
<1> USE ThreadConstants DEF IInv, TypeOK, Threads, Base, Nobody, NULL, poolVars,
       Publish, unlock, Woken, ThreadGoes, At
<1>1. TypeOK'
  OBVIOUS
<1>2. SameHolder'
  BY DEF SameHolder
<1>3. Phase'
  BY DEF Phase, Starting, Ending, Destroying, Run, Published, QuitByDestructor,
         BaseInPool
<1>4. Published'
  BY DEF Phase, Starting, Ending, Destroying, Run, Published
<1>5. QuitByDestructor'
  BY DEF QuitByDestructor, Phase, Starting, Ending, Destroying, Run
<1>6. BaseInPool'
  BY DEF BaseInPool
<1>7. LoopsExact'
  BY DEF LoopsExact, Destroying, BaseInPool, Published, Phase, Starting, Ending, Run
<1>8. Turns'
  BY DEF Turns, Destroying, LoopsExact, BaseInPool
<1> QED BY <1>1, <1>2, <1>3, <1>4, <1>5, <1>6, <1>7, <1>8

\* loop() clears quit_.
LEMMA EnterLoopStep ==
  ASSUME IInv, NEW t \in Threads, EnterLoop(t)
  PROVE  IInv'
<1> USE ThreadConstants DEF IInv, TypeOK, Threads, Base, Nobody, NULL, poolVars,
       EnterLoop, ThreadGoes
<1>1. TypeOK'
  OBVIOUS
<1>2. SameHolder'
  BY DEF SameHolder
<1>3. Phase'
  BY DEF Phase, Starting, Ending, Destroying, Run, Published, QuitByDestructor,
         BaseInPool
<1>4. Published'
  BY DEF Phase, Starting, Ending, Destroying, Run, Published
<1>5. QuitByDestructor'
  BY DEF QuitByDestructor, Phase, Starting, Ending, Destroying, Run
<1>6. BaseInPool'
  BY DEF BaseInPool
<1>7. LoopsExact'
  BY DEF LoopsExact, Destroying, BaseInPool, Published, Phase, Starting, Ending, Run
<1>8. Turns'
  BY DEF Turns, Destroying, LoopsExact, BaseInPool
<1> QED BY <1>1, <1>2, <1>3, <1>4, <1>5, <1>6, <1>7, <1>8

\* loop() returns only when the destructor has called quit().
LEMMA TestQuitStep ==
  ASSUME IInv, NEW t \in Threads, TestQuit(t)
  PROVE  IInv'
<1> USE ThreadConstants DEF IInv, TypeOK, Threads, Base, Nobody, NULL, poolVars,
       TestQuit, QuitSeen, ThreadGoes
<1>1. TypeOK'
  OBVIOUS
<1>2. SameHolder'
  BY DEF SameHolder
<1>3. Phase'
  BY DEF Phase, Starting, Ending, Destroying, Run, Published, QuitByDestructor,
         BaseInPool
<1>4. Published'
  BY DEF Phase, Starting, Ending, Destroying, Run, Published
<1>5. QuitByDestructor'
  BY DEF QuitByDestructor, Phase, Starting, Ending, Destroying, Run
<1>6. BaseInPool'
  BY DEF BaseInPool
<1>7. LoopsExact'
  BY DEF LoopsExact, Destroying, BaseInPool, Published, Phase, Starting, Ending, Run
<1>8. Turns'
  BY DEF Turns, Destroying, LoopsExact, BaseInPool
<1> QED BY <1>1, <1>2, <1>3, <1>4, <1>5, <1>6, <1>7, <1>8

\* poll() returns.
LEMMA PollOnceStep ==
  ASSUME IInv, NEW t \in Threads, PollOnce(t)
  PROVE  IInv'
<1> USE ThreadConstants DEF IInv, TypeOK, Threads, Base, Nobody, NULL, poolVars,
       PollOnce, ThreadGoes
<1>1. TypeOK'
  OBVIOUS
<1>2. SameHolder'
  BY DEF SameHolder
<1>3. Phase'
  BY DEF Phase, Starting, Ending, Destroying, Run, Published, QuitByDestructor,
         BaseInPool
<1>4. Published'
  BY DEF Phase, Starting, Ending, Destroying, Run, Published
<1>5. QuitByDestructor'
  BY DEF QuitByDestructor, Phase, Starting, Ending, Destroying, Run
<1>6. BaseInPool'
  BY DEF BaseInPool
<1>7. LoopsExact'
  BY DEF LoopsExact, Destroying, BaseInPool, Published, Phase, Starting, Ending, Run
<1>8. Turns'
  BY DEF Turns, Destroying, LoopsExact, BaseInPool
<1> QED BY <1>1, <1>2, <1>3, <1>4, <1>5, <1>6, <1>7, <1>8

\* threadFunc clears loop_, without the lock.
LEMMA ClearLoopStep ==
  ASSUME IInv, NEW t \in Threads, ClearLoop(t)
  PROVE  IInv'
<1> USE ThreadConstants DEF IInv, TypeOK, Threads, Base, Nobody, NULL, poolVars,
       ClearLoop, ThreadGoes
<1>1. TypeOK'
  OBVIOUS
<1>2. SameHolder'
  BY DEF SameHolder
<1>3. Phase'
  BY DEF Phase, Starting, Ending, Destroying, Run, Published, QuitByDestructor,
         BaseInPool
<1>4. Published'
  BY DEF Phase, Starting, Ending, Destroying, Run, Published
<1>5. QuitByDestructor'
  BY DEF QuitByDestructor, Phase, Starting, Ending, Destroying, Run
<1>6. BaseInPool'
  BY DEF BaseInPool
<1>7. LoopsExact'
  BY DEF LoopsExact, Destroying, BaseInPool, Published, Phase, Starting, Ending, Run
<1>8. Turns'
  BY DEF Turns, Destroying, LoopsExact, BaseInPool
<1> QED BY <1>1, <1>2, <1>3, <1>4, <1>5, <1>6, <1>7, <1>8

\* The EventLoop is destroyed and the thread ends.
LEMMA EndThreadStep ==
  ASSUME IInv, NEW t \in Threads, EndThread(t)
  PROVE  IInv'
<1> USE ThreadConstants DEF IInv, TypeOK, Threads, Base, Nobody, NULL, poolVars,
       EndThread, ThreadGoes
<1>1. TypeOK'
  OBVIOUS
<1>2. SameHolder'
  BY DEF SameHolder
<1>3. Phase'
  BY DEF Phase, Starting, Ending, Destroying, Run, Published, QuitByDestructor,
         BaseInPool
<1>4. Published'
  BY DEF Phase, Starting, Ending, Destroying, Run, Published
<1>5. QuitByDestructor'
  BY DEF QuitByDestructor, Phase, Starting, Ending, Destroying, Run
<1>6. BaseInPool'
  BY DEF BaseInPool
<1>7. LoopsExact'
  BY DEF LoopsExact, Destroying, BaseInPool, Published, Phase, Starting, Ending, Run
<1>8. Turns'
  BY DEF Turns, Destroying, LoopsExact, BaseInPool
<1> QED BY <1>1, <1>2, <1>3, <1>4, <1>5, <1>6, <1>7, <1>8

-----------------------------------------------------------------------------
\* The inductive invariant holds for every number of threads.
THEOREM Invariance == Spec => []IInv
<1>1. Init => IInv
  BY ThreadConstants
     DEF Init, IInv, TypeOK, SameHolder, Phase, Published, QuitByDestructor, BaseInPool,
         LoopsExact, Turns, Starting, Ending, Destroying, Run, Threads, NULL, Nobody, Base
<1>2. IInv /\ [Next]_vars => IInv'
  <2> SUFFICES ASSUME IInv, [Next]_vars PROVE IInv'
    OBVIOUS
  <2>1. CASE StartLoop
    BY <2>1, StartThreadStep, LockStartStep, WaitLoopStep, NotifiedWaitStep,
           StartReturnsStep DEF StartLoop
  <2>2. CASE WaitReturns("wait")
    BY <2>2, SpuriousWaitStep
  <2>3. CASE GetNextLoop
    BY <2>3, GetNextLoopStep
  <2>4. CASE DestroyPool
    BY <2>4, DestroyPoolStep
  <2>5. CASE DestroyLoop
    BY <2>5, DestroyStep, QuitLoopStep, WakeupLoopStep, JoinThreadStep DEF DestroyLoop
  <2>6. ASSUME NEW t \in Threads, ThreadFunc(t) PROVE IInv'
    BY <2>6, RunInThreadStep, LockPublishStep, PublishStep, EnterLoopStep, TestQuitStep,
           PollOnceStep, ClearLoopStep, EndThreadStep DEF ThreadFunc
  <2>7. CASE UNCHANGED vars
    BY <2>7
       DEF vars, IInv, TypeOK, SameHolder, Phase, Published, QuitByDestructor, BaseInPool,
           LoopsExact, Turns, Starting, Ending, Destroying
  <2> QED BY <2>1, <2>2, <2>3, <2>4, <2>5, <2>6, <2>7 DEF Next
<1> QED BY <1>1, <1>2, PTL DEF Spec

\* What the proof is for: from the first startLoop() to the last join(), a loop
\* that the base thread hands out, quits or wakes is the loop of its thread and
\* alive, no thread touches an EventLoopThread that is gone, holder_ tells the
\* truth and getNextLoop() is fair, for every numThreads_.
THEOREM PoolSafe == Spec => []LoopsSafe
<1>1. IInv => LoopsSafe
  <2> SUFFICES ASSUME IInv PROVE LoopsSafe
    OBVIOUS
  <2> USE ThreadConstants DEF IInv, TypeOK, Threads, Nobody
  <2>1. TypeOK
    OBVIOUS
  <2>2. HolderOwns
    BY DEF HolderOwns, SameHolder
  <2>3. LoopsLive
    <3> SUFFICES ASSUME NEW i \in DOMAIN loops_
                 PROVE  /\ loops_[i] = i /\ tid_[i] = i
                        /\ ~Destroying \/ base.i < i => LoopAlive(i)
      BY DEF LoopsLive
    <3>1. DOMAIN loops_ = 1 .. Len(loops_) /\ Len(loops_) <= NumThreads
      BY DEF LoopsExact
    <3>2. i \in Threads /\ loops_[i] = i /\ (~Destroying => i < base.i)
      BY <3>1 DEF LoopsExact
    <3>3. i < base.i \/ i >= base.i
      BY <3>2
    <3>4. ~Destroying \/ base.i < i => pc[i] \in Run
      <4>1. base.i < i => i >= base.i /\ i # base.i
        BY <3>2
      <4> QED BY <3>2, <4>1 DEF Phase, Ending
    <3>5. Destroying => pc[i] \in Run \cup {"returned", "~EventLoop", "done"}
      BY <3>2, <3>3 DEF Phase
    <3>6. pc[i] \notin {"none", "created"}
      BY <3>4, <3>5 DEF Run
    <3> QED BY <3>2, <3>4, <3>6 DEF Published, LoopAlive, Run
  <2>4. DestroySafe
    BY DEF DestroySafe, Phase, LoopAlive, Destroying, Ending, BaseInPool, Run
  <2>5. RoundRobin
    BY DEF RoundRobin, Turns
  <2> QED BY <2>1, <2>2, <2>3, <2>4, <2>5 DEF LoopsSafe
<1> QED BY <1>1, Invariance, PTL
=============================================================================
