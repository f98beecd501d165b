-------------------------------- MODULE Libco --------------------------------
(***************************************************************************)
(* libco's scheduler (cocgi/libco/co_routine.cpp) in one thread: the call  *)
(* stack of coroutines, co_poll and co_cond_timedwait, the ring of timeout *)
(* slots, co_eventloop, and coroutines that copy their frames in and out   *)
(* of a shared stack.                                                      *)
(*                                                                         *)
(* Nothing runs between two calls of a coroutine but that coroutine: each  *)
(* action is what happens from one point where application code has the    *)
(* processor to the next.  Only the descriptors and the clock change at    *)
(* any time.  A coroutine has at most one item in the lists, so the lists  *)
(* hold coroutines.                                                        *)
(***************************************************************************)
EXTENDS Integers, Sequences, SequencesExt, FiniteSets

CONSTANTS
    Cos,           \* coroutines the application creates
    None,          \* no coroutine, no bytes
    Main,          \* the thread's own context, pCallStack[0]
    Fds,           \* descriptors, each polled by one coroutine
    Owner,         \* [Fds -> Cos]: that coroutine
    Stacks,        \* number of stacks of the stShareStack_t
    RingSize,      \* slots of the timeout ring (60000 in AllocEpoll)
    PollTimeouts,  \* timeouts passed to co_poll
    CondTimeouts,  \* timeouts passed to co_cond_timedwait, 0 for none
    INT_MAX,       \* what a negative timeout stands for
    MaxTime        \* bound: the clock stays in 1..MaxTime

ASSUME LibcoAssumption ==
    /\ Main \notin Cos /\ None \notin Cos \cup {Main} /\ IsFiniteSet(Fds)
    /\ None \notin Cos \X {0, 1}
    /\ None \notin {"created", "running", "polling", "waiting", "yielded", "ended"}
    /\ Owner \in [Fds -> Cos]
    /\ Stacks \in Nat \ {0} /\ RingSize \in Nat \ {0} /\ MaxTime \in Nat \ {0}
    /\ PollTimeouts \subseteq Int \ {0} /\ CondTimeouts \subseteq Nat
    /\ INT_MAX \in Nat

VARIABLES
    clock,         \* GetTickMS(): the wall clock, which may be set
    \* stTimeout_t
    ullStart, llStartIdx, pItems,
    \* stCoEpoll_t and co_eventloop
    pstActiveList,
    phase,         \* the thread's own code: "app", "wait" (epoll_wait), "drain"
    now,           \* co_eventloop's local
    epoll,         \* the coroutine whose item a descriptor is registered with
    ready,         \* descriptors with an event
    \* stCoRoutineEnv_t and stCoRoutine_t
    pCallStack,
    state,         \* what each coroutine is doing
    \* stTimeoutItem_t, stPoll_t
    ullExpireTime, bTimeout, fds, revents,
    logged,        \* AddTimeout logged that the item is beyond the ring
    \* stCoCond_t: one condition
    cond,
    \* copy stack
    cIsShareStack, \* coroutines created with the share_stack attribute
    alloc_idx, stack_mem, occupy_co, save_buffer,
    frames,        \* the bytes in each shared stack: whose, and which version
    version        \* the version of its frames a coroutine left behind

ringVars == <<ullStart, llStartIdx, pItems>>
stackVars == <<cIsShareStack, alloc_idx, stack_mem, occupy_co, save_buffer, frames, version>>
itemVars == <<ullExpireTime, bTimeout, fds, revents, logged>>
vars == <<clock, ringVars, pstActiveList, phase, now, epoll, ready, pCallStack,
          state, itemVars, cond, stackVars>>

Slots == 0 .. RingSize - 1
Mems == 0 .. Stacks - 1
Bytes == (Cos \X {0, 1}) \cup {None}

TypeOK ==
    /\ clock \in 1 .. MaxTime /\ now \in 0 .. MaxTime
    /\ ullStart \in 1 .. MaxTime /\ llStartIdx \in Slots
    /\ pItems \in [Slots -> Seq(Cos)]
    /\ pstActiveList \in Seq(Cos)
    /\ phase \in {"app", "wait", "drain"}
    /\ epoll \in [Fds -> Cos \cup {None}] /\ ready \in SUBSET Fds
    /\ pCallStack \in Seq(Cos \cup {Main})
    /\ state \in [Cos -> {None, "created", "running", "polling", "waiting",
                          "yielded", "ended"}]
    /\ ullExpireTime \in [Cos -> Nat] /\ bTimeout \in [Cos -> BOOLEAN]
    /\ fds \in [Cos -> SUBSET Fds] /\ revents \in [Cos -> SUBSET Fds]
    /\ logged \in SUBSET Cos /\ cond \in Seq(Cos)
    /\ alloc_idx \in Mems /\ stack_mem \in [Cos -> Mems]
    /\ cIsShareStack \in SUBSET Cos /\ occupy_co \in [Mems -> Cos \cup {None}]
    /\ save_buffer \in [Cos -> Bytes] /\ frames \in [Mems -> Bytes]
    /\ version \in [Cos -> {0, 1}]

Init ==
    /\ clock = 1 /\ now = 0 /\ ullStart = 1 /\ llStartIdx = 0
    /\ pItems = [i \in Slots |-> <<>>]
    /\ pstActiveList = <<>> /\ phase = "app"
    /\ epoll = [fd \in Fds |-> None] /\ ready = {}
    /\ pCallStack = <<Main>>
    /\ state = [co \in Cos |-> None]
    /\ ullExpireTime = [co \in Cos |-> 0] /\ bTimeout = [co \in Cos |-> FALSE]
    /\ fds = [co \in Cos |-> {}] /\ revents = [co \in Cos |-> {}]
    /\ logged = {} /\ cond = <<>>
    /\ cIsShareStack = {} /\ alloc_idx = 0 /\ stack_mem = [co \in Cos |-> 0]
    /\ occupy_co = [m \in Mems |-> None]
    /\ save_buffer = [co \in Cos |-> None] /\ frames = [m \in Mems |-> None]
    /\ version = [co \in Cos |-> 0]

-----------------------------------------------------------------------------
(* The lists: what the pointer operations do to the order of the items.     *)

\* The items at the positions in kept, in their order.
Sublist(list, kept) ==
    [k \in 1 .. Cardinality(kept) |->
        list[CHOOSE i \in kept : Cardinality({j \in kept : j <= i}) = k]]

\* RemoveFromLink of each item in gone that is in the list.
Without(list, gone) == Sublist(list, {i \in DOMAIN list : list[i] \notin gone})

RemoveFromLink(co, list) == Without(list, {co})

AddTail(list, co) == Append(list, co)

PopHead(list) == Tail(list)

\* Join of the slots first, first + 1, ..., cnt of them.
JoinSlots(items, first, cnt) ==
    LET Joined[n \in 0 .. RingSize] ==
            IF n = 0 THEN <<>> ELSE Joined[n - 1] \o items[(first + n - 1) % RingSize]
    IN  Joined[cnt]

-----------------------------------------------------------------------------
(* The ring of timeouts.                                                    *)

\* AddTimeout accepts the item: otherwise the caller returns its error at once.
TimeoutAccepted(expire, at) == at >= ullStart /\ expire >= at

BeyondRing(expire) == expire - ullStart >= RingSize

SlotFor(expire) ==
    LET diff == IF BeyondRing(expire) THEN RingSize - 1 ELSE expire - ullStart
    IN  (llStartIdx + diff) % RingSize

AddTimeout(items, co, expire) ==
    [items EXCEPT ![SlotFor(expire)] = AddTail(@, co)]

\* How many slots TakeAllTimeout empties: none if the clock was set back.
TakenSlots(at) ==
    IF at < ullStart THEN 0
    ELSE IF at - ullStart + 1 > RingSize THEN RingSize ELSE at - ullStart + 1

\* The timeouts raised: all taken items, in slot order.
TakeAllTimeout(items, at) ==
    JoinSlots(items, llStartIdx, TakenSlots(at))

-----------------------------------------------------------------------------
(* co_swap: leave curr, enter pending.                                      *)

\* The bytes of the shared stacks once curr has been interrupted.
LeftBehind(curr) ==
    IF curr \in cIsShareStack
    THEN [frames EXCEPT ![stack_mem[curr]] =
            IF @ = <<curr, version[curr]>> THEN <<curr, 1 - version[curr]>> ELSE @]
    ELSE frames

SaveNeededOnce(occupy, pending) ==
    occupy \notin {None, pending} /\ save_buffer[occupy] = None

\* A coroutine that another one occupies the stack of is saved first ...
SaveNeeded(occupy, pending) == occupy \notin {None, pending}

\* ... and the bytes copied back, unless the pending one has none.
RestoreNeeded(occupy, pending) ==
    SaveNeeded(occupy, pending) /\ save_buffer[pending] # None

co_swap(curr, pending, fresh) ==
    LET left == LeftBehind(curr) IN
    /\ version' = IF curr \in cIsShareStack THEN [version EXCEPT ![curr] = 1 - @]
                  ELSE version
    /\ IF pending \in cIsShareStack
       THEN LET mem == stack_mem[pending]
                occupy == occupy_co[mem]
            IN  /\ occupy_co' = [occupy_co EXCEPT ![mem] = pending]
                /\ save_buffer' = IF SaveNeeded(occupy, pending)
                                  THEN [save_buffer EXCEPT ![occupy] = left[mem]]
                                  ELSE save_buffer
                /\ frames' = IF fresh
                             THEN [left EXCEPT ![mem] = <<pending, version[pending]>>]
                             ELSE IF RestoreNeeded(occupy, pending)
                             THEN [left EXCEPT ![mem] = save_buffer[pending]]
                             ELSE left
       ELSE frames' = left /\ UNCHANGED <<occupy_co, save_buffer>>

\* The coroutine that runs.
GetCurrCo == Last(pCallStack)

co_resume(co) ==
    /\ pCallStack' = Append(pCallStack, co)
    /\ co_swap(GetCurrCo, co, state[co] = "created")
    /\ UNCHANGED <<cIsShareStack, alloc_idx, stack_mem>>

co_yield_env ==
    /\ pCallStack' = Front(pCallStack)
    /\ co_swap(GetCurrCo, pCallStack[Len(pCallStack) - 1], FALSE)
    /\ UNCHANGED <<cIsShareStack, alloc_idx, stack_mem>>

-----------------------------------------------------------------------------
(* What running code does.                                                  *)

\* The thread's own code runs only outside co_eventloop.
Running(who) == GetCurrCo = who /\ (who = Main => phase = "app")

\* A shared-stack coroutine is given the stacks in turn.
co_get_stackmem == (alloc_idx + 1) % Stacks

co_create(co, share_stack) ==
    /\ \E who \in Cos \cup {Main} : Running(who)
    /\ state[co] = None
    /\ state' = [state EXCEPT ![co] = "created"]
    /\ IF share_stack
       THEN /\ cIsShareStack' = cIsShareStack \cup {co}
            /\ stack_mem' = [stack_mem EXCEPT ![co] = alloc_idx]
            /\ alloc_idx' = co_get_stackmem
       ELSE UNCHANGED <<cIsShareStack, stack_mem, alloc_idx>>
    /\ UNCHANGED <<clock, ringVars, pstActiveList, phase, now, epoll, ready,
                   pCallStack, itemVars, cond, occupy_co, save_buffer, frames, version>>

\* The application frees an ended coroutine that has a stack of its own.
co_free(co) ==
    /\ \E who \in Cos \cup {Main} : Running(who)
    /\ state[co] = "ended" /\ co \notin cIsShareStack
    /\ state' = [state EXCEPT ![co] = None]
    /\ UNCHANGED <<clock, ringVars, pstActiveList, phase, now, epoll, ready,
                   pCallStack, itemVars, cond, stackVars>>

\* Start a coroutine, or wake one that yielded.
Resume(co) ==
    /\ \E who \in Cos \cup {Main} : Running(who)
    /\ state[co] \in {"created", "yielded"}
    /\ state' = [state EXCEPT ![co] = "running"]
    /\ co_resume(co)
    /\ UNCHANGED <<clock, ringVars, pstActiveList, phase, now, epoll, ready,
                   itemVars, cond>>

co_yield_ct(co) ==
    /\ Running(co)
    /\ state' = [state EXCEPT ![co] = "yielded"]
    /\ co_yield_env
    /\ UNCHANGED <<clock, ringVars, pstActiveList, phase, now, epoll, ready,
                   itemVars, cond>>

\* Return from the coroutine's function: cEnd, and a last yield.
CoRoutineFunc(co) ==
    /\ Running(co)
    /\ state' = [state EXCEPT ![co] = "ended"]
    /\ co_yield_env
    /\ UNCHANGED <<clock, ringVars, pstActiveList, phase, now, epoll, ready,
                   itemVars, cond>>

Expiry(timeout) == clock + (IF timeout < 0 THEN INT_MAX ELSE timeout)

RegisteredOne(co, polled) ==
    [fd \in Fds |-> IF polled # {} /\ fd = (CHOOSE x \in polled : TRUE) /\ epoll[fd] = None
                    THEN co ELSE epoll[fd]]

\* EPOLL_CTL_ADD of each descriptor: one already registered keeps its item.
Registered(co, polled) ==
    [fd \in Fds |-> IF fd \in polled /\ epoll[fd] = None THEN co ELSE epoll[fd]]

\* co_poll up to its yield.  If the ring refuses the timeout the call takes the
\* descriptors off epoll again and fails: nothing has changed.
co_poll_inner(co, polled, timeout) ==
    /\ Running(co)
    /\ TimeoutAccepted(Expiry(timeout), clock)
    /\ state' = [state EXCEPT ![co] = "polling"]
    /\ fds' = [fds EXCEPT ![co] = polled]
    /\ revents' = [revents EXCEPT ![co] = {}]
    /\ epoll' = Registered(co, polled)
    /\ ullExpireTime' = [ullExpireTime EXCEPT ![co] = Expiry(timeout)]
    /\ bTimeout' = [bTimeout EXCEPT ![co] = FALSE]
    /\ pItems' = AddTimeout(pItems, co, Expiry(timeout))
    /\ logged' = IF BeyondRing(Expiry(timeout)) THEN logged \cup {co} ELSE logged
    /\ co_yield_env
    /\ UNCHANGED <<clock, ullStart, llStartIdx, pstActiveList, phase, now, ready, cond>>

\* co_cond_timedwait up to its yield.
co_cond_timedwait(co, ms) ==
    /\ Running(co)
    /\ ms > 0 => TimeoutAccepted(clock + ms, clock)
    /\ state' = [state EXCEPT ![co] = "waiting"]
    /\ bTimeout' = [bTimeout EXCEPT ![co] = FALSE]
    /\ ullExpireTime' = [ullExpireTime EXCEPT ![co] = IF ms > 0 THEN clock + ms ELSE 0]
    /\ pItems' = IF ms > 0 THEN AddTimeout(pItems, co, clock + ms) ELSE pItems
    /\ logged' = IF ms > 0 /\ BeyondRing(clock + ms) THEN logged \cup {co} ELSE logged
    /\ cond' = AddTail(cond, co)
    /\ co_yield_env
    /\ UNCHANGED <<clock, ullStart, llStartIdx, pstActiveList, phase, now, epoll,
                   ready, fds, revents>>

\* Move a waiter from wherever its timeout item is to the active list.
Activate(co) ==
    /\ pItems' = [i \in Slots |-> RemoveFromLink(co, pItems[i])]
    /\ pstActiveList' = AddTail(RemoveFromLink(co, pstActiveList), co)

co_cond_signal ==
    /\ \E who \in Cos \cup {Main} : Running(who)
    /\ cond # <<>>
    /\ cond' = PopHead(cond)
    /\ Activate(Head(cond))
    /\ UNCHANGED <<clock, ullStart, llStartIdx, phase, now, epoll, ready, pCallStack,
                   state, itemVars, stackVars>>

co_cond_broadcast ==
    /\ \E who \in Cos \cup {Main} : Running(who)
    /\ cond # <<>>
    /\ cond' = <<>>
    /\ pItems' = [i \in Slots |-> Without(pItems[i], ToSet(cond))]
    /\ pstActiveList' = Without(pstActiveList, ToSet(cond)) \o cond
    /\ UNCHANGED <<clock, ullStart, llStartIdx, phase, now, epoll, ready, pCallStack,
                   state, itemVars, stackVars>>

\* The running coroutine reads what made its descriptor ready.
Consume(fd) ==
    /\ fd \in ready /\ Running(Owner[fd])
    /\ ready' = ready \ {fd}
    /\ UNCHANGED <<clock, ringVars, pstActiveList, phase, now, epoll, pCallStack,
                   state, itemVars, cond, stackVars>>

-----------------------------------------------------------------------------
(* co_eventloop.                                                            *)

EnterLoop ==
    /\ Running(Main)
    /\ phase' = "wait"
    /\ UNCHANGED <<clock, ringVars, pstActiveList, now, epoll, ready, pCallStack,
                   state, itemVars, cond, stackVars>>

DetachedEachTime(events) == [i \in DOMAIN events |-> epoll[events[i]]]

\* OnPollPreparePfn for each event: note it, and detach the poll on its first.
Detached(events) ==
    Sublist([i \in DOMAIN events |-> epoll[events[i]]],
            {i \in DOMAIN events : \A j \in 1 .. i - 1 : epoll[events[j]] # epoll[events[i]]})

\* epoll_wait returns, its events are prepared and the timeouts raised.
Wait ==
    /\ phase = "wait" /\ GetCurrCo = Main
    /\ \E events \in SetToSeqs({fd \in ready : epoll[fd] # None}) :
       LET detached == Detached(events)
           kept == [i \in Slots |-> Without(pItems[i], ToSet(detached))]
           late == TakeAllTimeout(kept, clock)
           cnt == TakenSlots(clock)
       IN  /\ revents' = [co \in Cos |-> revents[co] \cup
                            {fd \in ToSet(events) : epoll[fd] = co}]
           /\ bTimeout' = [co \in Cos |-> bTimeout[co] \/ co \in ToSet(late)]
           /\ pstActiveList' = pstActiveList \o detached \o late
           /\ pItems' = [i \in Slots |->
                 IF (i - llStartIdx) % RingSize < cnt THEN <<>> ELSE kept[i]]
           /\ ullStart' = IF cnt = 0 THEN ullStart ELSE clock
           /\ llStartIdx' = IF cnt = 0 THEN llStartIdx
                            ELSE (llStartIdx + cnt - 1) % RingSize
    /\ now' = clock /\ phase' = "drain"
    /\ UNCHANGED <<clock, epoll, ready, pCallStack, state, ullExpireTime, fds,
                   logged, cond, stackVars>>

TooEarlyNever(co) == FALSE

\* A timeout raised before its time: the slot was only the last one of the ring.
TooEarly(co) == bTimeout[co] /\ now < ullExpireTime[co]

Readd ==
    /\ phase = "drain" /\ GetCurrCo = Main /\ pstActiveList # <<>>
    /\ LET co == Head(pstActiveList) IN
       /\ TooEarly(co) /\ TimeoutAccepted(ullExpireTime[co], now)
       /\ pItems' = AddTimeout(pItems, co, ullExpireTime[co])
       /\ bTimeout' = [bTimeout EXCEPT ![co] = FALSE]
       /\ logged' = IF BeyondRing(ullExpireTime[co]) THEN logged \cup {co} ELSE logged
    /\ pstActiveList' = PopHead(pstActiveList)
    /\ UNCHANGED <<clock, ullStart, llStartIdx, phase, now, epoll, ready, pCallStack,
                   state, ullExpireTime, fds, revents, cond, stackVars>>

\* EPOLL_CTL_DEL of each descriptor at the end of co_poll.
Unregistered(co) == [fd \in Fds |-> IF fd \in fds[co] THEN None ELSE epoll[fd]]

\* pfnProcess: resume the coroutine, which leaves co_poll or co_cond_timedwait:
\* it takes its descriptors off epoll, unlinks itself and frees the item.
Process ==
    /\ phase = "drain" /\ GetCurrCo = Main /\ pstActiveList # <<>>
    /\ LET co == Head(pstActiveList) IN
       /\ ~(TooEarly(co) /\ TimeoutAccepted(ullExpireTime[co], now))
       /\ state' = [state EXCEPT ![co] = "running"]
       /\ epoll' = Unregistered(co)
       /\ fds' = [fds EXCEPT ![co] = {}]
       /\ revents' = [revents EXCEPT ![co] = {}]
       /\ ullExpireTime' = [ullExpireTime EXCEPT ![co] = 0]
       /\ bTimeout' = [bTimeout EXCEPT ![co] = FALSE]
       /\ logged' = logged \ {co}
       /\ cond' = RemoveFromLink(co, cond)
       /\ co_resume(co)
    /\ pstActiveList' = PopHead(pstActiveList)
    /\ UNCHANGED <<clock, ringVars, phase, now, ready>>

\* The active list is empty: poll again, or pfn asks co_eventloop to return.
Drained ==
    /\ phase = "drain" /\ GetCurrCo = Main /\ pstActiveList = <<>>
    /\ phase' \in {"wait", "app"} /\ now' = 0
    /\ UNCHANGED <<clock, ringVars, pstActiveList, epoll, ready, pCallStack,
                   state, itemVars, cond, stackVars>>

co_eventloop == EnterLoop \/ Wait \/ Readd \/ Process \/ Drained

-----------------------------------------------------------------------------
(* The outside world.                                                       *)

FdReady(fd) ==
    /\ fd \notin ready
    /\ ready' = ready \cup {fd}
    /\ UNCHANGED <<clock, ringVars, pstActiveList, phase, now, epoll, pCallStack,
                   state, itemVars, cond, stackVars>>

\* Time passes, or the clock is set.
GetTickMS ==
    /\ clock' \in (1 .. MaxTime) \ {clock}
    /\ UNCHANGED <<ringVars, pstActiveList, phase, now, epoll, ready, pCallStack,
                   state, itemVars, cond, stackVars>>

\* The steps by which a running coroutine gives the processor back.
Suspend(co) ==
    \/ co_yield_ct(co)
    \/ CoRoutineFunc(co)
    \/ \E polled \in SUBSET {fd \in Fds : Owner[fd] = co}, timeout \in PollTimeouts :
          co_poll_inner(co, polled, timeout)
    \/ \E ms \in CondTimeouts : co_cond_timedwait(co, ms)

Next ==
    \/ \E co \in Cos : \E share_stack \in BOOLEAN : co_create(co, share_stack)
    \/ \E co \in Cos : co_free(co) \/ Resume(co) \/ Suspend(co)
    \/ co_cond_signal \/ co_cond_broadcast
    \/ \E fd \in Fds : Consume(fd) \/ FdReady(fd)
    \/ co_eventloop
    \/ GetTickMS

Spec == Init /\ [][Next]_vars

FairSpec == Spec /\ WF_vars(co_eventloop) /\ WF_vars(\E co \in Cos : Suspend(co))

-----------------------------------------------------------------------------
(* Properties.                                                              *)

InRing == UNION {ToSet(pItems[i]) : i \in Slots}

InActive == ToSet(pstActiveList)
Linked == InRing \cup InActive

Distinct(list) == \A i, j \in DOMAIN list : list[i] = list[j] => i = j

\* No item is in two places of the ring and the active list.
LinkedOnce ==
    /\ Distinct(pstActiveList) /\ InRing \cap InActive = {}
    /\ \A i \in Slots : Distinct(pItems[i])
    /\ \A i, j \in Slots : i # j => ToSet(pItems[i]) \cap ToSet(pItems[j]) = {}

\* A poll's item is in the ring or the active list, once; a condition's waiter is
\* there or can still be signalled; nobody else is in any list, so co_eventloop
\* never resumes a coroutine that is running, has ended or waits for its caller.
WaitersLinked ==
    /\ LinkedOnce
    /\ \A co \in Linked : state[co] \in {"polling", "waiting"}
    /\ \A co \in Cos : /\ state[co] = "polling" => co \in Linked
                       /\ state[co] = "waiting" => co \in Linked \cup ToSet(cond)

\* The slot an item is in is emptied no later than its time, whatever the
\* clock does: AddTimeout and TakeAllTimeout agree on what a slot stands for.
NeverLate ==
    \A i \in Slots : \A co \in ToSet(pItems[i]) :
        ullStart + ((i - llStartIdx) % RingSize) <= ullExpireTime[co]

\* A poll that raised no event returns only once its timeout is over.
NoEarlyTimeout ==
    [][\A co \in Cos : state[co] = "polling" /\ state'[co] = "running" =>
          revents[co] # {} \/ now >= ullExpireTime[co]]_vars

\* A waiter that was signalled is not put back into the ring to sleep on,
\* unless its timeout was beyond the ring (which AddTimeout logs).
SignalNotLost ==
    \A co \in InRing : state[co] = "waiting" => co \in ToSet(cond) \cup logged

\* The item epoll holds for a descriptor is that of a poll in progress: co_poll
\* takes it off before it frees it, whichever way the poll ended.
EpollItemsLive ==
    \A fd \in Fds : epoll[fd] # None =>
        state[epoll[fd]] = "polling" /\ fd \in fds[epoll[fd]]

\* Events, timeouts and signals that meet in one turn of co_eventloop leave every
\* waiter where it will be found, at its time and once.
WaitersExact == TypeOK /\ WaitersLinked /\ NeverLate /\ SignalNotLost /\ EpollItemsLive

\* A coroutine on a shared stack finds the frames it left there, whoever ran on
\* that stack in between and however resumes were nested.
StackIntact ==
    GetCurrCo \in cIsShareStack =>
        frames[stack_mem[GetCurrCo]] = <<GetCurrCo, version[GetCurrCo]>>

\* While the loop keeps coming back to epoll_wait, a poll with a ready
\* descriptor returns.
ReadyPollReturns ==
    []<>(phase = "wait") =>
        \A co \in Cos : (state[co] = "polling" /\ fds[co] \cap ready # {}
                             ~> state[co] # "polling")

=============================================================================
