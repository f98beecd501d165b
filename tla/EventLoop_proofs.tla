--------------------------- MODULE EventLoop_proofs ---------------------------
(***************************************************************************)
(* For any number of threads and functors: no wakeup is lost, no functor   *)
(* is lost or doubled, and the loop implements TaskExecutor.               *)
(***************************************************************************)
EXTENDS EventLoop, SequenceTheorems, TLAPS

\* Where no further look at pendingFunctors_ is certain before the next poll(),
\* a pending functor has a wakeup on its way.
WakeupOnItsWay ==
    pc \in {"created", "test", "poll", "run"} /\ pendingFunctors_ # <<>>
        => wakeupFd_ > 0 \/ \E t \in Threads : tpc[t] = "pushed"

\* The local vector of doPendingFunctors exists only while it is run.
LocalVector == pc # "run" => functors = <<>>

IndInv == TypeOK /\ WakeupOnItsWay /\ NoLostQuit /\ LocalVector /\ NothingLost

-----------------------------------------------------------------------------
\* A push at the end of pendingFunctors_ is a push at the end of the whole.
LEMMA PushAtEnd ==
    ASSUME NEW S, NEW r \in Seq(S), NEW q \in Seq(S), NEW p \in Seq(S), NEW f \in S
    PROVE  (r \o q \o p) \o <<f>> = r \o q \o (p \o <<f>>)
  <1>1. r \o q \in Seq(S) /\ <<f>> \in Seq(S)
    BY ConcatProperties
  <1> QED  BY <1>1, ConcatAssociative

\* Running the head of the vector moves it to the end of what ran.
LEMMA RunHead ==
    ASSUME NEW S, NEW r \in Seq(S), NEW q \in Seq(S), NEW p \in Seq(S), q # <<>>
    PROVE  /\ r \o q \o p = Append(r, Head(q)) \o Tail(q) \o p
           /\ Len(r) < Len(r \o q \o p)
           /\ (r \o q \o p)[Len(r) + 1] = Head(q)
  <1>1. /\ Head(q) \in S /\ Tail(q) \in Seq(S) /\ <<Head(q)>> \in Seq(S)
        /\ Len(q) \in Nat \ {0} /\ Len(r) \in Nat /\ Len(p) \in Nat
    BY HeadTailProperties, EmptySeq, LenProperties
  <1>2. q = <<Head(q)>> \o Tail(q)
    <2>1. /\ Len(<<Head(q)>> \o Tail(q)) = 1 + (Len(q) - 1)
          /\ <<Head(q)>> \o Tail(q) \in Seq(S)
          /\ \A i \in 1..(1 + (Len(q) - 1)) : (<<Head(q)>> \o Tail(q))[i] =
                IF i <= 1 THEN <<Head(q)>>[i] ELSE Tail(q)[i - 1]
      BY <1>1, ConcatProperties, HeadTailProperties
    <2>2. \A i \in 1..Len(Tail(q)) : Tail(q)[i] = q[i + 1]
      BY HeadTailProperties
    <2>3. Len(Tail(q)) = Len(q) - 1 /\ Head(q) = q[1]
      BY HeadTailProperties
    <2>4. \A i \in 1..Len(q) : q[i] = (<<Head(q)>> \o Tail(q))[i]
      <3> SUFFICES ASSUME NEW i \in 1..Len(q) PROVE q[i] = (<<Head(q)>> \o Tail(q))[i]
        OBVIOUS
      <3>1. CASE i = 1
        BY <3>1, <2>1, <2>3, <1>1
      <3>2. CASE i # 1
        <4>1. i - 1 \in 1..Len(Tail(q)) /\ (i - 1) + 1 = i /\ ~(i <= 1)
          BY <3>2, <2>3, <1>1
        <4> QED  BY <4>1, <2>1, <2>2, <1>1
      <3> QED  BY <3>1, <3>2
    <2> QED  BY <1>1, <2>1, <2>4, SeqEqual
  <1>3. Append(r, Head(q)) = r \o <<Head(q)>>
    BY <1>1, AppendIsConcat
  <1>4. r \o q = (r \o <<Head(q)>>) \o Tail(q)
    BY <1>1, <1>2, ConcatAssociative
  <1>5. /\ r \o q \in Seq(S) /\ Len(r \o q) = Len(r) + Len(q)
        /\ \A i \in 1..(Len(r) + Len(q)) : (r \o q)[i] = IF i <= Len(r) THEN r[i] ELSE q[i - Len(r)]
    BY ConcatProperties
  <1>6. /\ Len((r \o q) \o p) = Len(r \o q) + Len(p)
        /\ \A i \in 1..(Len(r \o q) + Len(p)) : ((r \o q) \o p)[i] =
              IF i <= Len(r \o q) THEN (r \o q)[i] ELSE p[i - Len(r \o q)]
    BY <1>5, ConcatProperties
  <1>7. (r \o q \o p)[Len(r) + 1] = q[1]
    <2>1. Len(r) + 1 \in 1..(Len(r) + Len(q)) /\ Len(r) + 1 <= Len(r \o q)
          /\ Len(r) + 1 \in 1..(Len(r \o q) + Len(p)) /\ ~(Len(r) + 1 <= Len(r))
          /\ (Len(r) + 1) - Len(r) = 1
      BY <1>1, <1>5
    <2> QED  BY <2>1, <1>5, <1>6
  <1> QED  BY <1>1, <1>3, <1>4, <1>5, <1>6, <1>7

\* Concatenation with the empty sequence, as the swap needs it.
LEMMA SwapEmpty ==
    ASSUME NEW S, NEW r \in Seq(S), NEW p \in Seq(S)
    PROVE  r \o <<>> \o p = r \o p \o <<>>
  <1>1. r \o <<>> = r /\ r \o p \in Seq(S)
    BY ConcatEmptySeq, ConcatProperties
  <1>2. (r \o p) \o <<>> = r \o p
    BY <1>1, ConcatEmptySeq
  <1> QED  BY <1>1, <1>2

-----------------------------------------------------------------------------
\* A loop that has just started satisfies the inductive invariant.
LEMMA InitInd == Init => IndInv
  <1> SUFFICES ASSUME Init PROVE IndInv
    OBVIOUS
  <1> USE DEF Init
  <1>1. <<>> \in Seq(Functors) /\ <<>> \o <<>> \o <<>> = <<>>
    BY EmptySeq, ConcatEmptySeq
  <1>2. TypeOK
    BY <1>1 DEF TypeOK
  <1>3. WakeupOnItsWay /\ NoLostQuit /\ LocalVector
    BY DEF WakeupOnItsWay, NoLostQuit, LocalVector
  <1>4. NothingLost
    BY <1>1 DEF NothingLost
  <1> QED  BY <1>2, <1>3, <1>4 DEF IndInv

\* A push of a new functor keeps the types and the account of functors.
LEMMA PushKeeps ==
    ASSUME TypeOK, NothingLost, NEW f \in Functors, Push(f), UNCHANGED <<functors, ran>>
    PROVE  /\ pendingFunctors_' \in Seq(Functors)
           /\ pendingFunctors_' # <<>>
           /\ submitted' \in Seq(Functors)
           /\ NothingLost'
  <1>1. /\ pendingFunctors_ \in Seq(Functors) /\ functors \in Seq(Functors)
        /\ ran \in Seq(Functors) /\ submitted \in Seq(Functors)
    BY DEF TypeOK
  <1>2. /\ pendingFunctors_' = Append(pendingFunctors_, f)
        /\ submitted' = Append(submitted, f)
    BY DEF Push
  <1>3. NothingLost'
    <2>1. (ran \o functors \o pendingFunctors_) \o <<f>>
            = ran \o functors \o (pendingFunctors_ \o <<f>>)
      <3>1. ran \in Seq(Functors) /\ functors \in Seq(Functors) /\ pendingFunctors_ \in Seq(Functors)
        BY <1>1
      <3> QED  BY ONLY <3>1, f \in Functors, PushAtEnd
    <2>2. /\ pendingFunctors_' = pendingFunctors_ \o <<f>>
          /\ submitted' = submitted \o <<f>>
      BY <1>1, <1>2, AppendIsConcat
    <2>3. submitted' = ran \o functors \o pendingFunctors_'
      BY <2>1, <2>2 DEF NothingLost
    <2> QED  BY <2>3 DEF NothingLost
  <1>4. /\ pendingFunctors_' \in Seq(Functors) /\ Len(pendingFunctors_') = Len(pendingFunctors_) + 1
        /\ submitted' \in Seq(Functors)
    BY <1>1, <1>2, AppendProperties
  <1>5. pendingFunctors_' # <<>>
    BY <1>1, <1>4, LenProperties, EmptySeq
  <1> QED  BY <1>3, <1>4, <1>5

\* The head of the vector runs: the account moves on by one.
LEMMA RunKeeps ==
    ASSUME TypeOK, NothingLost, functors # <<>>,
           ran' = Append(ran, Head(functors)), functors' = Tail(functors)
    PROVE  /\ ran' \in Seq(Functors) /\ functors' \in Seq(Functors)
           /\ submitted = ran' \o functors' \o pendingFunctors_
           /\ Len(ran) < Len(submitted)
           /\ submitted[Len(ran) + 1] = Head(functors)
  <1>1. /\ pendingFunctors_ \in Seq(Functors) /\ functors \in Seq(Functors)
        /\ ran \in Seq(Functors) /\ submitted = ran \o functors \o pendingFunctors_
    BY DEF TypeOK, NothingLost
  <1>2. Head(functors) \in Functors /\ Tail(functors) \in Seq(Functors)
    BY <1>1, HeadTailProperties
  <1>3. Append(ran, Head(functors)) \in Seq(Functors)
    BY <1>1, <1>2, AppendProperties
  <1>4. /\ ran \o functors \o pendingFunctors_
              = Append(ran, Head(functors)) \o Tail(functors) \o pendingFunctors_
        /\ Len(ran) < Len(ran \o functors \o pendingFunctors_)
        /\ (ran \o functors \o pendingFunctors_)[Len(ran) + 1] = Head(functors)
    BY <1>1, RunHead
  <1>5. submitted = ran' \o functors' \o pendingFunctors_
    BY <1>1, <1>4
  <1> QED  BY <1>1, <1>2, <1>3, <1>4, <1>5

\* Every step of the loop and of the threads that queue functors preserves it.
LEMMA StepInd == IndInv /\ [Next]_vars => IndInv'
  <1> SUFFICES ASSUME IndInv, [Next]_vars PROVE IndInv'
    OBVIOUS
  <1>0. TypeOK /\ WakeupOnItsWay /\ NoLostQuit /\ LocalVector /\ NothingLost
    BY DEF IndInv
  <1>1. CASE EnterLoop
    <2>1. TypeOK'
      BY <1>0, <1>1 DEF EnterLoop, TypeOK
    <2>2. WakeupOnItsWay' /\ NoLostQuit' /\ LocalVector' /\ NothingLost'
      BY <1>0, <1>1 DEF EnterLoop, WakeupOnItsWay, NoLostQuit, LocalVector, NothingLost
    <2> QED  BY <2>1, <2>2 DEF IndInv
  <1>2. CASE Test
    <2>1. TypeOK'
      BY <1>0, <1>2 DEF Test, TypeOK
    <2>2. WakeupOnItsWay' /\ LocalVector' /\ NothingLost'
      BY <1>0, <1>2 DEF Test, WakeupOnItsWay, LocalVector, NothingLost
    <2>3. NoLostQuit'
      BY <1>0, <1>2 DEF Test, NoLostQuit
    <2> QED  BY <2>1, <2>2, <2>3 DEF IndInv
  <1>3. ASSUME NEW ready \in SUBSET {"wakeup", "io"}, PollReturns(ready)
        PROVE  IndInv'
    <2>1. TypeOK'
      BY <1>0, <1>3 DEF PollReturns, TypeOK
    <2>2. WakeupOnItsWay' /\ NoLostQuit' /\ LocalVector' /\ NothingLost'
      BY <1>0, <1>3 DEF PollReturns, WakeupOnItsWay, NoLostQuit, LocalVector, NothingLost
    <2> QED  BY <2>1, <2>2 DEF IndInv
  <1>4. CASE HandleRead
    <2>1. TypeOK'
      BY <1>0, <1>4 DEF HandleRead, TypeOK
    <2>2. WakeupOnItsWay' /\ NoLostQuit' /\ LocalVector' /\ NothingLost'
      BY <1>0, <1>4 DEF HandleRead, WakeupOnItsWay, NoLostQuit, LocalVector, NothingLost
    <2> QED  BY <2>1, <2>2 DEF IndInv
  <1>5. CASE HandleIo
    <2>1. /\ pendingFunctors_' \in Seq(Functors) /\ submitted' \in Seq(Functors)
          /\ NothingLost' /\ quit_' \in BOOLEAN
      <3>1. CASE UNCHANGED <<pendingFunctors_, submitted>>
        BY <1>0, <1>5, <3>1 DEF HandleIo, TypeOK, NothingLost
      <3>2. CASE \E f \in New : Push(f)
        BY <1>0, <1>5, <3>2, PushKeeps DEF HandleIo, New, TypeOK
      <3> QED  BY <1>5, <3>1, <3>2 DEF HandleIo
    <2>2. TypeOK'
      BY <1>0, <1>5, <2>1 DEF HandleIo, TypeOK
    <2>3. WakeupOnItsWay' /\ NoLostQuit' /\ LocalVector'
      BY <1>0, <1>5 DEF HandleIo, WakeupOnItsWay, NoLostQuit, LocalVector
    <2> QED  BY <2>1, <2>2, <2>3 DEF IndInv
  <1>6. CASE EventsDone
    <2>1. TypeOK'
      BY <1>0, <1>6 DEF EventsDone, TypeOK
    <2>2. WakeupOnItsWay' /\ NoLostQuit' /\ LocalVector' /\ NothingLost'
      BY <1>0, <1>6 DEF EventsDone, WakeupOnItsWay, NoLostQuit, LocalVector, NothingLost
    <2> QED  BY <2>1, <2>2 DEF IndInv
  <1>7. CASE SwapPending
    <2>1. TypeOK'
      BY <1>0, <1>7, EmptySeq DEF SwapPending, TypeOK
    <2>2. WakeupOnItsWay' /\ NoLostQuit' /\ LocalVector'
      BY <1>0, <1>7 DEF SwapPending, WakeupOnItsWay, NoLostQuit, LocalVector
    <2>3. NothingLost'
      <3>1. functors = <<>>
        BY <1>0, <1>7 DEF LocalVector, SwapPending
      <3>2. ran \in Seq(Functors) /\ pendingFunctors_ \in Seq(Functors)
        BY <1>0 DEF TypeOK
      <3> QED  BY <1>0, <1>7, <3>1, <3>2, SwapEmpty DEF SwapPending, NothingLost
    <2> QED  BY <2>1, <2>2, <2>3 DEF IndInv
  <1>8. CASE RunFunctor
    <2>1. /\ pc = "run" /\ functors # <<>> /\ UNCHANGED <<loopVars, tpc, quitted>>
          /\ ran' = Append(ran, Head(functors)) /\ functors' = Tail(functors)
      BY <1>8 DEF RunFunctor
    <2>2. /\ ran' \in Seq(Functors) /\ functors' \in Seq(Functors)
          /\ submitted = ran' \o functors' \o pendingFunctors_
      BY <1>0, <2>1, RunKeeps
    <2>3. CASE UNCHANGED <<pendingFunctors_, submitted, wakeupFd_>>
      <3>1. quit_' \in BOOLEAN
        BY <1>0, <1>8 DEF RunFunctor, TypeOK
      <3>2. TypeOK'
        BY <1>0, <2>1, <2>2, <2>3, <3>1 DEF TypeOK, loopVars
      <3>3. WakeupOnItsWay' /\ NoLostQuit' /\ LocalVector'
        BY <1>0, <2>1, <2>3 DEF WakeupOnItsWay, NoLostQuit, LocalVector, loopVars
      <3>4. NothingLost'
        BY <2>2, <2>3 DEF NothingLost
      <3> QED  BY <3>2, <3>3, <3>4 DEF IndInv
    <2>4. CASE QueueFromFunctor /\ UNCHANGED quit_
      <3>1. PICK f \in Functors : Push(f)
        BY <2>4 DEF QueueFromFunctor, New
      <3>2. /\ pendingFunctors_' = Append(pendingFunctors_, f)
            /\ submitted' = Append(submitted, f)
        BY <3>1 DEF Push
      <3>3. pendingFunctors_ \in Seq(Functors) /\ submitted \in Seq(Functors)
        BY <1>0 DEF TypeOK
      <3>4. pendingFunctors_' \in Seq(Functors) /\ submitted' \in Seq(Functors)
        BY <3>2, <3>3, AppendProperties
      <3>5. NothingLost'
        <4>1. (ran' \o functors' \o pendingFunctors_) \o <<f>>
                = ran' \o functors' \o (pendingFunctors_ \o <<f>>)
          BY <2>2, <3>3, PushAtEnd
        <4>2. /\ pendingFunctors_' = pendingFunctors_ \o <<f>>
              /\ submitted' = submitted \o <<f>>
          BY <3>2, <3>3, AppendIsConcat
        <4>3. submitted' = ran' \o functors' \o pendingFunctors_'
          BY <2>2, <4>1, <4>2
        <4> QED  BY <4>3 DEF NothingLost
      <3>6. wakeupFd_' \in Nat /\ wakeupFd_' > 0
        BY <1>0, <2>4 DEF QueueFromFunctor, TypeOK
      <3>7. TypeOK'
        BY <1>0, <2>1, <2>2, <2>4, <3>4, <3>6 DEF TypeOK, loopVars
      <3>8. WakeupOnItsWay' /\ NoLostQuit' /\ LocalVector'
        BY <1>0, <2>1, <3>6 DEF WakeupOnItsWay, NoLostQuit, LocalVector, loopVars
      <3> QED  BY <3>5, <3>7, <3>8 DEF IndInv
    <2> QED  BY <1>8, <2>3, <2>4 DEF RunFunctor
  <1>9. CASE FunctorsDone
    <2>1. TypeOK'
      BY <1>0, <1>9 DEF FunctorsDone, TypeOK
    <2>2. WakeupOnItsWay' /\ NoLostQuit' /\ LocalVector' /\ NothingLost'
      BY <1>0, <1>9 DEF FunctorsDone, WakeupOnItsWay, NoLostQuit, LocalVector, NothingLost
    <2> QED  BY <2>1, <2>2 DEF IndInv
  <1>10. ASSUME NEW t \in Threads, QueueInLoop(t)
         PROVE  IndInv'
    <2>1. /\ pendingFunctors_' \in Seq(Functors) /\ submitted' \in Seq(Functors)
          /\ NothingLost'
      BY <1>0, <1>10, PushKeeps DEF QueueInLoop, New
    <2>2. TypeOK'
      BY <1>0, <1>10, <2>1 DEF QueueInLoop, TypeOK, loopVars
    <2>3. tpc'[t] = "pushed" /\ \A u \in Threads : tpc[u] = "quitting" => tpc'[u] = "quitting"
      BY <1>0, <1>10 DEF QueueInLoop, TypeOK
    <2>4. WakeupOnItsWay'
      BY <2>3 DEF WakeupOnItsWay
    <2>5. NoLostQuit' /\ LocalVector'
      BY <1>0, <1>10, <2>3 DEF QueueInLoop, NoLostQuit, LocalVector, loopVars
    <2> QED  BY <2>1, <2>2, <2>4, <2>5 DEF IndInv
  <1>11. ASSUME NEW t \in Threads, Quit(t)
         PROVE  IndInv'
    <2>1. TypeOK'
      BY <1>0, <1>11 DEF Quit, TypeOK, loopVars
    <2>2. tpc'[t] = "quitting" /\ \A u \in Threads : tpc[u] = "pushed" => tpc'[u] = "pushed"
      BY <1>0, <1>11 DEF Quit, TypeOK
    <2>3. NoLostQuit'
      BY <2>2 DEF NoLostQuit
    <2>4. WakeupOnItsWay' /\ LocalVector' /\ NothingLost'
      BY <1>0, <1>11, <2>2 DEF Quit, WakeupOnItsWay, LocalVector, NothingLost, loopVars
    <2> QED  BY <2>1, <2>3, <2>4 DEF IndInv
  <1>12. ASSUME NEW t \in Threads, Wakeup(t)
         PROVE  IndInv'
    <2>1. TypeOK' /\ wakeupFd_' > 0
      BY <1>0, <1>12 DEF Wakeup, TypeOK, loopVars
    <2>2. WakeupOnItsWay' /\ NoLostQuit'
      BY <2>1 DEF WakeupOnItsWay, NoLostQuit
    <2>3. LocalVector' /\ NothingLost'
      BY <1>0, <1>12 DEF Wakeup, LocalVector, NothingLost, loopVars
    <2> QED  BY <2>1, <2>2, <2>3 DEF IndInv
  <1>13. CASE UNCHANGED vars
    <2>1. TypeOK'
      BY <1>0, <1>13 DEF vars, loopVars, TypeOK
    <2>2. WakeupOnItsWay' /\ NoLostQuit' /\ LocalVector' /\ NothingLost'
      BY <1>0, <1>13 DEF vars, loopVars, WakeupOnItsWay, NoLostQuit, LocalVector, NothingLost
    <2> QED  BY <2>1, <2>2 DEF IndInv
  <1>14. CASE PollWakeup \/ PollIo \/ PollTimeout
    BY <1>3, <1>14 DEF PollWakeup, PollIo, PollTimeout
  <1> QED
    BY <1>1, <1>2, <1>4, <1>5, <1>6, <1>7, <1>8, <1>9, <1>10, <1>11, <1>12, <1>13, <1>14
       DEF Next, LoopStep

\* The inductive invariant holds in every reachable state.
LEMMA AlwaysInd == Spec => []IndInv
  BY InitInd, StepInd, PTL DEF Spec

-----------------------------------------------------------------------------
\* Type correctness, with the flags callingPendingFunctors_, eventHandling_ and
\* looping_ up exactly in their parts of loop().
THEOREM TypeCorrect == Spec => []TypeOK
  <1>1. IndInv => TypeOK
    BY DEF IndInv
  <1> QED  BY <1>1, AlwaysInd, PTL

\* queueInLoop() never leaves a functor waiting for the poll timeout, for any
\* number of threads and any interleaving of push, poll and wakeup.
THEOREM WakeupNeverLost == Spec => []NoLostWakeup
  <1>1. IndInv => NoLostWakeup
    BY DEF IndInv, WakeupOnItsWay, NoLostWakeup
  <1> QED  BY <1>1, AlwaysInd, PTL

\* quit() called while loop() polls always gets its wakeup through.
THEOREM QuitNeverLost == Spec => []NoLostQuit
  <1>1. IndInv => NoLostQuit
    BY DEF IndInv
  <1> QED  BY <1>1, AlwaysInd, PTL

\* The swap in doPendingFunctors loses and doubles nothing.
THEOREM FunctorsAccounted == Spec => []NothingLost
  <1>1. IndInv => NothingLost
    BY DEF IndInv
  <1> QED  BY <1>1, AlwaysInd, PTL

\* The event loop implements the in-order, at-most-once executor.
THEOREM LoopImplementsExecutor == Spec => ImplementsExecutor
  <1>1. Init => Executor!Init
    BY DEF Init, Executor!Init
  <1>2. IndInv /\ [Next]_vars => [Executor!Next]_<<submitted, ran>>
    <2> SUFFICES ASSUME IndInv, [Next]_vars
                 PROVE  Executor!Next \/ UNCHANGED <<submitted, ran>>
      OBVIOUS
    <2>0. TypeOK /\ NothingLost
      BY DEF IndInv
    <2>1. CASE RunFunctor
      <3>1. /\ functors # <<>>
            /\ ran' = Append(ran, Head(functors)) /\ functors' = Tail(functors)
        BY <2>1 DEF RunFunctor
      <3>2. Len(ran) < Len(submitted) /\ submitted[Len(ran) + 1] = Head(functors)
        BY <2>0, <3>1, RunKeeps
      <3>3. CASE UNCHANGED submitted
        BY <3>1, <3>2, <3>3 DEF Executor!Next, Executor!Execute
      <3>4. CASE QueueFromFunctor
        <4>1. \E f \in Functors : submitted' = Append(submitted, f)
          BY <3>4 DEF QueueFromFunctor, Push, New
        <4> QED  BY <3>1, <3>2, <4>1 DEF Executor!Next, Executor!ExecuteAndSubmit
      <3> QED  BY <2>1, <3>3, <3>4 DEF RunFunctor
    <2>2. CASE HandleIo
      <3>1. UNCHANGED ran
        BY <2>2 DEF HandleIo
      <3>2. UNCHANGED submitted \/ \E f \in Functors : submitted' = Append(submitted, f)
        BY <2>2 DEF HandleIo, Push, New
      <3> QED  BY <3>1, <3>2 DEF Executor!Next, Executor!Submit
    <2>3. ASSUME NEW t \in Threads, QueueInLoop(t)
          PROVE  Executor!Next
      <3>1. UNCHANGED ran
        BY <2>3 DEF QueueInLoop
      <3>2. \E f \in Functors : submitted' = Append(submitted, f)
        BY <2>3 DEF QueueInLoop, Push, New
      <3> QED  BY <3>1, <3>2 DEF Executor!Next, Executor!Submit
    <2>4. CASE \/ EnterLoop \/ Test \/ PollWakeup \/ HandleRead \/ EventsDone \/ SwapPending
               \/ FunctorsDone \/ PollIo \/ PollTimeout
               \/ \E t \in Threads : Quit(t) \/ Wakeup(t)
               \/ UNCHANGED vars
      BY <2>4 DEF EnterLoop, Test, PollWakeup, HandleRead, EventsDone, SwapPending,
                  FunctorsDone, PollIo, PollTimeout, PollReturns, Quit, Wakeup, vars
    <2> QED  BY <2>1, <2>2, <2>3, <2>4 DEF Next, LoopStep
  <1> QED  BY <1>1, <1>2, AlwaysInd, PTL DEF Spec, ImplementsExecutor, Executor!Spec
=============================================================================
