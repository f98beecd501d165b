------------------------------ MODULE TimerQueue ------------------------------
(***************************************************************************)
(* muduo's TimerQueue (mucgi/muduo_net/TimerQueue.cc): timers ordered by   *)
(* expiration behind one timerfd, raw Timer pointers shared by two sets,   *)
(* and cancellation that may come from any thread, from a callback of the  *)
(* batch that is being run, or for a Timer that is already deleted.        *)
(*                                                                         *)
(* Time is in units of 100 microseconds, the least the timerfd is armed    *)
(* for.  now is the wall clock (gettimeofday), which an administrator may  *)
(* set; armed counts down on the monotonic clock of the timerfd.           *)
(***************************************************************************)
EXTENDS Integers, Sequences

CONSTANTS
    Threads,    \* threads other than the loop thread
    Addrs,      \* heap addresses a Timer may have (naturals: sets order by them)
    Delays,     \* distances from now that timers are set for
    Intervals,  \* repetition intervals, 0 for none
    MaxCreated, \* bound: timers created
    MaxTime,    \* bound: the wall clock stops there
    MaxSets     \* bound: times the wall clock is set

ASSUME TimerConstants ==
    /\ Addrs \subseteq Nat
    /\ Delays \subseteq Nat
    /\ Intervals \subseteq Nat
    /\ MaxCreated \in Nat /\ MaxTime \in Nat /\ MaxSets \in Nat

Freed == [seq |-> 0, when |-> 0, interval |-> 0]

VARIABLES
    timers_,               \* set of [when, timer]
    activeTimers_,         \* set of <<timer, sequence>>
    cancelingTimers_,
    callingExpiredTimers_,
    armed,                 \* what is left on the timerfd, 0 when disarmed
    readable,              \* the timerfd has expirations to read
    heap,                  \* the Timer object at each address
    s_numCreated_,
    now,
    clockSets,
    \* the loop thread
    pc,
    active,                \* poll() reported the timerfd
    expired,               \* locals of handleRead: the batch,
    todo,                  \*   its entries that have not run,
    handleNow,             \*   and the time it was taken
    pendingFunctors_,
    functors,              \* local of doPendingFunctors
    \* the other threads: the Timer of an addTimer() that has not returned
    adding,
    \* TimerIds handed out
    ids,
    \* history
    ran,                   \* sequences of timers that have run
    cancelReq,             \* TimerIds whose cancelInLoop() has been called
    cancelKnown            \*   those that the queue knew of then

setVars == <<timers_, activeTimers_, cancelingTimers_>>
fdVars == <<armed, readable>>
clockVars == <<now, clockSets>>
loopVars == <<pc, active, expired, todo, handleNow, callingExpiredTimers_>>
queueVars == <<pendingFunctors_, functors>>
userVars == <<adding, ids>>
histVars == <<ran, cancelReq, cancelKnown>>
vars == <<setVars, fdVars, heap, s_numCreated_, clockVars, loopVars, queueVars, userVars,
          histVars>>

Seqs == 1 .. MaxCreated
Entries == [when : Nat, timer : Addrs]
Ids == Addrs \X Nat
TimerObjects == [seq : Nat, when : Nat, interval : Nat]
Functors == [op : {"add"}, timer : Addrs] \cup [op : {"cancel"}, id : Ids]
NoAdd == [timer |-> 0, seq |-> 0]

Live == {a \in Addrs : heap[a].seq # 0}
Timers(S) == {e.timer : e \in S}
Entry(a) == [when |-> heap[a].when, timer |-> a]
Active(a) == <<a, heap[a].seq>>

\* Order of std::set<Entry>: by time, then by address.
Precedes(d, e) == d.when < e.when \/ (d.when = e.when /\ d.timer <= e.timer)
First(S) == CHOOSE e \in S : \A d \in S : Precedes(e, d)

Init ==
    /\ timers_ = {} /\ activeTimers_ = {} /\ cancelingTimers_ = {}
    /\ callingExpiredTimers_ = FALSE
    /\ armed = 0 /\ readable = FALSE
    /\ heap = [a \in Addrs |-> Freed]
    /\ s_numCreated_ = 0
    /\ now = 1 /\ clockSets = 0
    /\ pc = "poll" /\ active = FALSE
    /\ expired = {} /\ todo = {} /\ handleNow = 1
    /\ pendingFunctors_ = <<>> /\ functors = <<>>
    /\ adding = [t \in Threads |-> NoAdd]
    /\ ids = {}
    /\ ran = {} /\ cancelReq = {} /\ cancelKnown = {}

-----------------------------------------------------------------------------
(* The timerfd and the two sets. *)

\* howMuchTimeFromNow: at least 100 microseconds.
HowMuchTimeFromNowZero(when) == IF when > now THEN when - now ELSE 0  \* mutant: no minimum
HowMuchTimeFromNow(when) == IF when > now THEN when - now ELSE 1

\* resetTimerfd: timerfd_settime also discards expirations that were not read.
ResetTimerfd(when) == armed' = HowMuchTimeFromNow(when) /\ readable' = FALSE

\* insert: the two sets, and whether the timerfd has to be armed earlier.
EarliestChanged(e) == \A d \in timers_ : e.when < d.when

\* addTimerInLoop for the Timer at a, with the heap h.
AddTimerInLoop(a, h) ==
    LET e == [when |-> h[a].when, timer |-> a]
    IN  /\ timers_' = timers_ \cup {e}
        /\ activeTimers_' = activeTimers_ \cup {<<a, h[a].seq>>}
        /\ \/ EarliestChanged(e) /\ ResetTimerfd(e.when)
           \/ ~EarliestChanged(e) /\ UNCHANGED fdVars
        /\ UNCHANGED cancelingTimers_

\* cancelInLoop: erase and delete the Timer, or note it for reset().
ByAddress(id) ==  \* mutant: the sequence is not compared
    {a \in Addrs : a = id[1] /\ \E s \in Seqs : <<a, s>> \in activeTimers_}
ById(id) == {a \in Addrs : id \in activeTimers_ /\ a = id[1]}

EraseActiveNot(S) == activeTimers_  \* mutant: only timers_ is updated
EraseActive(S) == activeTimers_ \ {Active(a) : a \in S}

DeleteTimer(a) == [heap EXCEPT ![a] = Freed]

CancelInLoop(id) ==
    /\ \/ \E a \in ById(id) :
             /\ timers_' = timers_ \ {Entry(a)}
             /\ activeTimers_' = EraseActive({a})
             /\ heap' = DeleteTimer(a)
             /\ UNCHANGED cancelingTimers_
       \/ /\ ById(id) = {}
          /\ cancelingTimers_' = cancelingTimers_ \cup (IF callingExpiredTimers_ THEN {id} ELSE {})
          /\ UNCHANGED <<timers_, activeTimers_, heap>>
    /\ cancelReq' = cancelReq \cup {id}
    /\ cancelKnown' = cancelKnown \cup
         ({id} \cap {Active(a) : a \in Timers(timers_) \cup Timers(expired)})

-----------------------------------------------------------------------------
(* addTimer() and cancel(). *)

\* new Timer(cb, when, interval)
NewTimer(a, d, i) ==
    /\ s_numCreated_ < MaxCreated
    /\ a \notin Live
    /\ s_numCreated_' = s_numCreated_ + 1
    /\ heap' = [heap EXCEPT ![a] =
                  [seq |-> s_numCreated_ + 1, when |-> now + d, interval |-> i]]

\* The loop thread is in a callback of the user's: an I/O handler, a functor, or
\* a timer that has run.
InCallback == pc \in {"events", "functors"} \/ (pc = "expiring" /\ todo # expired)

\* addTimer in the loop thread: runInLoop calls addTimerInLoop at once.
AddInLoop ==
    /\ InCallback
    /\ \E a \in Addrs, d \in Delays, i \in Intervals :
         /\ NewTimer(a, d, i)
         /\ AddTimerInLoop(a, heap')
         /\ ids' = ids \cup {<<a, s_numCreated_ + 1>>}
    /\ UNCHANGED <<clockVars, loopVars, queueVars, adding, histVars>>

\* cancel in the loop thread.
CancelFromLoop ==
    /\ InCallback
    /\ \E id \in ids : CancelInLoop(id)
    /\ UNCHANGED <<fdVars, s_numCreated_, clockVars, loopVars, queueVars, userVars, ran>>

\* addTimer in another thread: the Timer is created and addTimerInLoop queued ...
AddFromThread(t) ==
    /\ adding[t] = NoAdd
    /\ \E a \in Addrs, d \in Delays, i \in Intervals :
         /\ NewTimer(a, d, i)
         /\ pendingFunctors_' = Append(pendingFunctors_, [op |-> "add", timer |-> a])
         /\ adding' = [adding EXCEPT ![t] = [timer |-> a, seq |-> s_numCreated_ + 1]]
    /\ UNCHANGED <<setVars, fdVars, clockVars, loopVars, functors, ids, histVars>>

\* ... and then timer->sequence() is read for the TimerId: when the loop has
\* deleted the Timer by then, the value read is whatever the memory holds.
AddReturns(t) ==
    /\ adding[t] # NoAdd
    /\ LET a == adding[t].timer
       IN  \E s \in 1 .. s_numCreated_ :
             /\ heap[a].seq = adding[t].seq => s = adding[t].seq
             /\ ids' = ids \cup {<<a, s>>}
    /\ adding' = [adding EXCEPT ![t] = NoAdd]
    /\ UNCHANGED <<setVars, fdVars, heap, s_numCreated_, clockVars, loopVars, queueVars, histVars>>

\* cancel in another thread: cancelInLoop is queued (bound: once per TimerId at a
\* time).
CancelFromThread(t) ==
    /\ adding[t] = NoAdd
    /\ \E id \in ids :
         /\ [op |-> "cancel", id |-> id] \notin {pendingFunctors_[k] : k \in DOMAIN pendingFunctors_}
         /\ pendingFunctors_' = Append(pendingFunctors_, [op |-> "cancel", id |-> id])
    /\ UNCHANGED <<setVars, fdVars, heap, s_numCreated_, clockVars, loopVars, functors, userVars,
                   histVars>>

-----------------------------------------------------------------------------
(* The loop thread. *)

\* poll() returns, with the timerfd when it is readable; other reasons to return
\* are other descriptors, functors and the poll timeout.
Poll ==
    /\ pc = "poll"
    /\ pc' = "events"
    /\ active' = readable
    /\ UNCHANGED <<setVars, fdVars, heap, s_numCreated_, clockVars, expired, todo, handleNow,
                   callingExpiredTimers_, queueVars, userVars, histVars>>

\* handleRead up to the callbacks: read the timerfd, take out what has expired.
Due == {e \in timers_ : e.when <= now}

HandleRead ==
    /\ pc = "events" /\ active
    /\ readable' = FALSE
    /\ expired' = Due
    /\ todo' = Due
    /\ handleNow' = now
    /\ timers_' = timers_ \ Due
    /\ activeTimers_' = EraseActive(Timers(Due))
    /\ callingExpiredTimers_' = TRUE
    /\ cancelingTimers_' = {}
    /\ active' = FALSE
    /\ pc' = "expiring"
    /\ UNCHANGED <<armed, heap, s_numCreated_, clockVars, queueVars, userVars, histVars>>

\* One callback of the batch, in order.
RunTimer ==
    /\ pc = "expiring"
    /\ todo # {}
    /\ todo' = todo \ {First(todo)}
    /\ ran' = ran \cup {heap[First(todo).timer].seq}
    /\ UNCHANGED <<setVars, fdVars, heap, s_numCreated_, clockVars, pc, active, expired, handleNow,
                   callingExpiredTimers_, queueVars, userVars, cancelReq, cancelKnown>>

\* reset: repeating timers that were not cancelled go back, the others are
\* deleted, and the timerfd is armed for the earliest that is left.
RestartableAlways(a) == heap[a].interval > 0  \* mutant: cancelingTimers_ is not asked
Restartable(a) == heap[a].interval > 0 /\ Active(a) \notin cancelingTimers_

Restart(a) == handleNow + heap[a].interval

Reset ==
    LET again == {a \in Timers(expired) : Restartable(a)}
        back == {[when |-> Restart(a), timer |-> a] : a \in again}
    IN  /\ heap' = [a \in Addrs |-> IF a \in again THEN [heap[a] EXCEPT !.when = Restart(a)]
                                    ELSE IF a \in Timers(expired) THEN Freed ELSE heap[a]]
        /\ timers_' = timers_ \cup back
        /\ activeTimers_' = activeTimers_ \cup {Active(a) : a \in again}
        /\ \/ timers_' # {} /\ ResetTimerfd(First(timers_').when)
           \/ timers_' = {} /\ UNCHANGED fdVars

ExpiredDone ==
    /\ pc = "expiring"
    /\ todo = {}
    /\ Reset
    /\ callingExpiredTimers_' = FALSE
    /\ expired' = {}
    /\ pc' = "events"
    /\ UNCHANGED <<cancelingTimers_, s_numCreated_, clockVars, active, todo, handleNow, queueVars,
                   userVars, histVars>>

EventsDone ==
    /\ pc = "events" /\ ~active
    /\ functors' = pendingFunctors_
    /\ pendingFunctors_' = <<>>
    /\ pc' = "functors"
    /\ UNCHANGED <<setVars, fdVars, heap, s_numCreated_, clockVars, active, expired, todo, handleNow,
                   callingExpiredTimers_, userVars, histVars>>

RunAdd ==
    /\ pc = "functors" /\ functors # <<>> /\ Head(functors).op = "add"
    /\ AddTimerInLoop(Head(functors).timer, heap)
    /\ functors' = Tail(functors)
    /\ UNCHANGED <<heap, s_numCreated_, clockVars, loopVars, pendingFunctors_, userVars, histVars>>

RunCancel ==
    /\ pc = "functors" /\ functors # <<>> /\ Head(functors).op = "cancel"
    /\ CancelInLoop(Head(functors).id)
    /\ functors' = Tail(functors)
    /\ UNCHANGED <<fdVars, s_numCreated_, clockVars, loopVars, pendingFunctors_, userVars, ran>>

FunctorsDone ==
    /\ pc = "functors" /\ functors = <<>>
    /\ pc' = "poll"
    /\ UNCHANGED <<setVars, fdVars, heap, s_numCreated_, clockVars, active, expired, todo, handleNow,
                   callingExpiredTimers_, queueVars, userVars, histVars>>

-----------------------------------------------------------------------------
(* Time. *)

\* One unit passes: the timerfd counts down and becomes readable at the end.
Tick ==
    /\ now < MaxTime \/ armed > 0
    /\ now' = IF now < MaxTime THEN now + 1 ELSE now
    /\ armed' = IF armed > 0 THEN armed - 1 ELSE 0
    /\ readable' = (readable \/ armed = 1)
    /\ UNCHANGED <<setVars, heap, s_numCreated_, clockSets, loopVars, queueVars, userVars, histVars>>

\* The wall clock is set; the timerfd does not notice.
SetClock ==
    /\ clockSets < MaxSets
    /\ clockSets' = clockSets + 1
    /\ \E n \in 1 .. MaxTime : n # now /\ now' = n
    /\ UNCHANGED <<setVars, fdVars, heap, s_numCreated_, loopVars, queueVars, userVars, histVars>>

LoopThread ==
    \/ Poll \/ HandleRead \/ RunTimer \/ ExpiredDone
    \/ EventsDone \/ RunAdd \/ RunCancel \/ FunctorsDone

Next ==
    \/ LoopThread
    \/ AddInLoop \/ CancelFromLoop
    \/ \E t \in Threads : AddFromThread(t) \/ AddReturns(t) \/ CancelFromThread(t)
    \/ Tick \/ SetClock

Spec == Init /\ [][Next]_vars

\* The loop thread runs, and time passes.
FairSpec == Spec /\ WF_vars(LoopThread) /\ WF_vars(Tick)

-----------------------------------------------------------------------------
(* Properties. *)

TypeOK ==
    /\ timers_ \in SUBSET Entries /\ expired \in SUBSET Entries /\ todo \in SUBSET expired
    /\ activeTimers_ \in SUBSET Ids /\ cancelingTimers_ \in SUBSET Ids /\ ids \in SUBSET Ids
    /\ callingExpiredTimers_ = (pc = "expiring")
    /\ armed \in Nat /\ now \in Nat /\ handleNow \in Nat
    /\ readable \in BOOLEAN /\ active \in BOOLEAN
    /\ heap \in [Addrs -> TimerObjects]
    /\ s_numCreated_ \in 0 .. MaxCreated /\ clockSets \in 0 .. MaxSets
    /\ pc \in {"poll", "events", "expiring", "functors"}
    /\ pendingFunctors_ \in Seq(Functors) /\ functors \in Seq(Functors)
    /\ adding \in [Threads -> [timer : Addrs \cup {0}, seq : Nat]]
    /\ ran \in SUBSET Seqs /\ cancelReq \in SUBSET Ids /\ cancelKnown \in SUBSET Ids

\* The queued functors in the order they will run, and which of them add a timer.
Queue == functors \o pendingFunctors_
QueuedAdds == {k \in DOMAIN Queue : Queue[k].op = "add"}
QueuedTimers == {Queue[k].timer : k \in QueuedAdds}

\* The two sets describe the same timers, and each entry of timers_ carries its
\* Timer's expiration of the moment, so that the erase in cancelInLoop and in
\* getExpired finds what it looks for (their assert(n == 1)).
SetsAgree ==
    /\ \A e \in timers_ : e = Entry(e.timer)
    /\ activeTimers_ = {Active(a) : a \in Timers(timers_)}

\* Ownership of the raw pointers: every Timer that is not deleted is in exactly
\* one of timers_, the batch being run and the queued addTimerInLoop functors,
\* and these hold no deleted Timer; so none is leaked, deleted twice or run
\* after it was deleted.
TimersOwned ==
    /\ Live = Timers(timers_) \cup Timers(expired) \cup QueuedTimers
    /\ Timers(timers_) \cap Timers(expired) = {}
    /\ (Timers(timers_) \cup Timers(expired)) \cap QueuedTimers = {}
    /\ \A j, k \in QueuedAdds : Queue[j].timer = Queue[k].timer => j = k

\* The two sets and the heap agree, so no raw pointer dangles or leaks, whatever
\* is added, run and cancelled in whichever order.
HeapExact == TypeOK /\ SetsAgree /\ TimersOwned

\* As long as the clock is not set, the timerfd goes off no later than the
\* earliest timer is due (or one unit from now when it is overdue), whatever was
\* added and cancelled: addTimerInLoop re-arms only for a new earliest timer and
\* cancelInLoop never does.
TimerfdCovers ==
    timers_ # {} /\ pc # "expiring" /\ ~readable /\ ~active =>
        /\ armed > 0
        /\ clockSets = 0 => armed <= HowMuchTimeFromNow(First(timers_).when)

\* A timer is deleted only after it has run or a cancel() for it took effect:
\* a TimerId of a deleted Timer whose address was reused cancels nothing else.
NoTimerLost ==
    \A s \in 1 .. s_numCreated_ :
        s \in ran \/ \E a \in Addrs : heap[a].seq = s \/ <<a, s>> \in cancelReq

\* A timer that was added and not cancelled stays, and the timerfd will go off
\* for it.
TimersKept == NoTimerLost /\ TimerfdCovers

\* A timer that was cancelled while the queue knew of it is not scheduled again,
\* also when the cancel came from a callback of its own batch.  (A cancel() in the
\* loop thread that overtakes the queued addTimerInLoop of its timer finds nothing
\* and is forgotten: cancelKnown leaves it out.)
CancelledNotRescheduled ==
    \A a \in Timers(timers_) : Active(a) \notin cancelKnown

\* A scheduled timer whose time the clock reaches runs or is cancelled.
ScheduledTimerRuns ==
    \A s \in Seqs :
        (\E a \in Timers(timers_) : heap[a].seq = s /\ heap[a].when <= MaxTime)
            ~> s \in ran \/ \E a \in Addrs : <<a, s>> \in cancelReq
=============================================================================
