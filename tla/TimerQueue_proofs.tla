-------------------------- MODULE TimerQueue_proofs --------------------------
(***************************************************************************)
(* The TimerQueue, for any number of threads and timers: the two sets, the *)
(* batch being run and the queued functors own every Timer exactly once,   *)
(* no timer is lost or comes back after its cancellation, and the timerfd  *)
(* is always armed early enough.                                           *)
(***************************************************************************)
EXTENDS TimerQueue, SequenceTheorems, WellFoundedInduction, TLAPS

\* What the queued functors q add.
Adds(q) == {k \in DOMAIN q : q[k].op = "add"}
AddedTimers(q) == {q[k].timer : k \in Adds(q)}
OnceEach(q) == \A j, k \in Adds(q) : q[j].timer = q[k].timer => j = k

\* Which of the loop thread's locals are in use.
Control ==
    /\ pc # "functors" => functors = <<>>
    /\ pc # "expiring" => expired = {}
    /\ active => pc = "events"

\* addTimer() of another thread works on a Timer it created.
AddsStarted == \A t \in Threads : adding[t] # NoAdd => adding[t].timer \in Addrs

\* Sequence numbers come from s_numCreated_.
SeqsBounded == \A a \in Addrs : heap[a].seq <= s_numCreated_

\* Timers of the batch that are not to be run any more have run.
BatchRan == \A e \in expired \ todo : heap[e.timer].seq \in ran

\* A cancellation that the queue knew of is carried out, or noted for reset().
CancelsNoted ==
    /\ \A id \in cancelKnown : id[2] <= s_numCreated_
    /\ \A a \in Timers(timers_) \cup QueuedTimers : Active(a) \notin cancelKnown
    /\ \A a \in Timers(expired) : Active(a) \in cancelKnown => Active(a) \in cancelingTimers_

\* What concerns the Timers and where they are.
Books ==
    /\ SeqsBounded /\ SetsAgree /\ TimersOwned
    /\ BatchRan /\ NoTimerLost /\ CancelsNoted

IInv == TypeOK /\ Control /\ AddsStarted /\ Books /\ TimerfdCovers

-----------------------------------------------------------------------------
(* The order of std::set<Entry>. *)

\* A set of naturals that is not empty has a least element.
LEMMA LeastNat ==
  ASSUME NEW S \in SUBSET Nat, S # {}
  PROVE  \E n \in S : \A m \in S : n <= m
<1> DEFINE R == OpToRel(<, Nat)
<1>1. IsWellFoundedOn(R, Nat)
  BY NatLessThanWellFounded
<1>2. \A x, y \in Nat : x < y => <<x, y>> \in R
  BY DEF OpToRel
<1> HIDE DEF R
<1>3. PICK n \in S : \A m \in S : ~ (<<m, n>> \in R)
  BY <1>1, WFMin
<1>4. \A m \in S : n <= m
  <2> TAKE m \in S
  <2>1. m \in Nat /\ n \in Nat
    OBVIOUS
  <2>2. ~ (m < n)
    BY <1>2, <1>3, <2>1, Zenon
  <2> QED BY <2>1, <2>2
<1> QED BY <1>4

\* begin() of a set that is not empty is the earliest entry.
LEMMA FirstExists ==
  ASSUME NEW S \in SUBSET Entries, S # {}
  PROVE  /\ First(S) \in S
         /\ First(S).when \in Nat /\ First(S).timer \in Addrs
         /\ \A d \in S : Precedes(First(S), d) /\ First(S).when <= d.when
<1> USE TimerConstants DEF Entries
<1>1. PICK w \in {e.when : e \in S} : \A v \in {e.when : e \in S} : w <= v
  <2>1. {e.when : e \in S} \in SUBSET Nat /\ {e.when : e \in S} # {}
    OBVIOUS
  <2> QED BY <2>1, LeastNat
<1> DEFINE T == {e \in S : e.when = w}
<1>2. PICK a \in {e.timer : e \in T} : \A b \in {e.timer : e \in T} : a <= b
  <2>1. {e.timer : e \in T} \in SUBSET Nat /\ {e.timer : e \in T} # {}
    BY <1>1
  <2> QED BY <2>1, LeastNat
<1>3. PICK f \in T : f.timer = a
  BY <1>2
<1>4. \A d \in S : Precedes(f, d)
  BY <1>1, <1>2, <1>3 DEF Precedes
<1>5. First(S) \in S /\ \A d \in S : Precedes(First(S), d)
  BY <1>3, <1>4 DEF First
<1> QED BY <1>5 DEF Precedes

-----------------------------------------------------------------------------
(* The functors queued for the loop thread. *)

\* A functor that adds has a Timer, another has none.
LEMMA FunctorKinds ==
  ASSUME NEW f \in Functors
  PROVE  /\ f.op \in {"add", "cancel"}
         /\ f.op = "add" => f.timer \in Addrs
         /\ f.op = "cancel" => f.id \in Ids
  BY DEF Functors

\* queueInLoop appends to what is queued.
LEMMA AppendFunctor ==
  ASSUME NEW q \in Seq(Functors), NEW f \in Functors
  PROVE  /\ Append(q, f) \in Seq(Functors)
         /\ f.op # "add" => /\ AddedTimers(Append(q, f)) = AddedTimers(q)
                            /\ OnceEach(q) => OnceEach(Append(q, f))
         /\ f.op = "add" => /\ AddedTimers(Append(q, f)) = AddedTimers(q) \cup {f.timer}
                            /\ OnceEach(q) /\ f.timer \notin AddedTimers(q)
                                 => OnceEach(Append(q, f))
<1> DEFINE r == Append(q, f)
<1>1. /\ r \in Seq(Functors) /\ Len(r) = Len(q) + 1 /\ r[Len(q) + 1] = f
      /\ \A k \in 1 .. Len(q) : r[k] = q[k]
  BY AppendProperties
<1>2. DOMAIN q = 1 .. Len(q) /\ DOMAIN r = 1 .. Len(q) + 1 /\ Len(q) \in Nat
  BY <1>1, LenProperties
<1> HIDE DEF r
<1>3. CASE f.op # "add"
  <2>1. Adds(r) = Adds(q) /\ \A k \in Adds(q) : r[k] = q[k]
    BY <1>1, <1>2, <1>3 DEF Adds
  <2>2. AddedTimers(r) = AddedTimers(q)
    BY <2>1 DEF AddedTimers
  <2>3. OnceEach(q) => OnceEach(r)
    BY <2>1 DEF OnceEach
  <2> QED BY <1>1, <1>3, <2>2, <2>3 DEF r
<1>4. CASE f.op = "add"
  <2>1. /\ Adds(r) = Adds(q) \cup {Len(q) + 1} /\ \A k \in Adds(q) : r[k] = q[k]
        /\ Len(q) + 1 \notin Adds(q)
    BY <1>1, <1>2, <1>4 DEF Adds
  <2>2. AddedTimers(r) = AddedTimers(q) \cup {f.timer}
    BY <1>1, <2>1 DEF AddedTimers
  <2>3. OnceEach(q) /\ f.timer \notin AddedTimers(q) => OnceEach(r)
    BY <1>1, <2>1 DEF OnceEach, AddedTimers
  <2> QED BY <1>1, <1>4, <2>2, <2>3 DEF r
<1> QED BY <1>3, <1>4

\* doPendingFunctors takes the first.
LEMMA TailFunctor ==
  ASSUME NEW q \in Seq(Functors), q # <<>>
  PROVE  /\ Tail(q) \in Seq(Functors) /\ Head(q) \in Functors
         /\ Head(q).op # "add" => AddedTimers(Tail(q)) = AddedTimers(q)
         /\ Head(q).op = "add" => /\ Head(q).timer \in AddedTimers(q)
                                  /\ OnceEach(q) => AddedTimers(Tail(q)) =
                                                      AddedTimers(q) \ {Head(q).timer}
         /\ OnceEach(q) => OnceEach(Tail(q))
<1> DEFINE r == Tail(q)
<1>1. /\ r \in Seq(Functors) /\ Len(r) = Len(q) - 1 /\ Head(q) \in Functors /\ Head(q) = q[1]
      /\ \A k \in 1 .. Len(r) : r[k] = q[k + 1]
  BY HeadTailProperties
<1>2. /\ DOMAIN q = 1 .. Len(q) /\ DOMAIN r = 1 .. Len(q) - 1
      /\ Len(q) \in Nat \ {0}
  BY <1>1, LenProperties, EmptySeq
<1> HIDE DEF r
<1>3. \A k \in Adds(r) : k + 1 \in Adds(q) /\ r[k] = q[k + 1]
  BY <1>1, <1>2 DEF Adds
<1>4. \A k \in Adds(q) : k # 1 => k - 1 \in Adds(r) /\ r[k - 1] = q[k]
  <2> SUFFICES ASSUME NEW k \in Adds(q), k # 1
               PROVE  k - 1 \in Adds(r) /\ r[k - 1] = q[k]
    OBVIOUS
  <2>1. k \in 2 .. Len(q) /\ k - 1 \in 1 .. Len(r) /\ (k - 1) + 1 = k
    BY <1>1, <1>2 DEF Adds
  <2>2. r[k - 1] = q[k]
    BY <1>1, <2>1
  <2> QED BY <1>1, <1>2, <2>1, <2>2 DEF Adds
<1>5. 1 \in Adds(q) <=> Head(q).op = "add"
  BY <1>1, <1>2 DEF Adds
<1>6. OnceEach(q) => OnceEach(r)
  <2> SUFFICES ASSUME OnceEach(q), NEW j \in Adds(r), NEW k \in Adds(r), r[j].timer = r[k].timer
               PROVE  j = k
    BY DEF OnceEach
  <2>1. j + 1 = k + 1
    BY <1>3 DEF OnceEach
  <2>2. j \in Nat /\ k \in Nat
    BY <1>2 DEF Adds
  <2> QED BY <2>1, <2>2
<1>7. AddedTimers(r) \subseteq AddedTimers(q)
  BY <1>3 DEF AddedTimers
<1>8. \A a \in AddedTimers(q) : a \in AddedTimers(r) \/ (Head(q).op = "add" /\ a = Head(q).timer)
  BY <1>1, <1>4, <1>5 DEF AddedTimers
<1>9. Head(q).op = "add" => Head(q).timer \in AddedTimers(q)
  BY <1>1, <1>5 DEF AddedTimers
<1>10. OnceEach(q) /\ Head(q).op = "add" => Head(q).timer \notin AddedTimers(r)
  <2> SUFFICES ASSUME OnceEach(q), Head(q).op = "add",
                      NEW k \in Adds(r), r[k].timer = Head(q).timer
               PROVE  FALSE
    BY DEF AddedTimers
  <2>1. k + 1 = 1
    BY <1>1, <1>3, <1>5 DEF OnceEach
  <2> QED BY <1>2, <2>1 DEF Adds
<1>11. Head(q).op # "add" => AddedTimers(r) = AddedTimers(q)
  BY <1>7, <1>8
<1>12. OnceEach(q) /\ Head(q).op = "add" => AddedTimers(r) = AddedTimers(q) \ {Head(q).timer}
  BY <1>7, <1>8, <1>10
<1> QED BY <1>1, <1>6, <1>9, <1>11, <1>12 DEF r

\* The whole queue when something is appended, taken or swapped.
LEMMA QueueChanges ==
  ASSUME NEW p \in Seq(Functors), NEW q \in Seq(Functors)
  PROVE  /\ q \o p \in Seq(Functors)
         /\ \A f \in Functors : q \o Append(p, f) = Append(q \o p, f)
         /\ q # <<>> => /\ Tail(q) \o p = Tail(q \o p) /\ Head(q \o p) = Head(q)
                        /\ q \o p # <<>>
         /\ <<>> \o p = p \o <<>>
<1>1. q \o p \in Seq(Functors) /\ <<>> \o p = p /\ p \o <<>> = p
  BY ConcatProperties, ConcatEmptySeq
<1>2. ASSUME NEW f \in Functors
      PROVE  q \o Append(p, f) = Append(q \o p, f)
  <2>1. /\ Append(p, f) = p \o <<f>> /\ Append(q \o p, f) = (q \o p) \o <<f>>
        /\ <<f>> \in Seq(Functors)
    BY <1>1, AppendIsConcat
  <2> QED BY <2>1, ConcatAssociative
<1>3. ASSUME q # <<>>
      PROVE  Tail(q) \o p = Tail(q \o p) /\ Head(q \o p) = Head(q) /\ q \o p # <<>>
  <2>1. /\ Len(q \o p) = Len(q) + Len(p) /\ Len(q) \in Nat \ {0} /\ Len(p) \in Nat
        /\ \A i \in 1 .. Len(q) + Len(p) :
             (q \o p)[i] = IF i <= Len(q) THEN q[i] ELSE p[i - Len(q)]
    BY <1>3, ConcatProperties, EmptySeq, LenProperties
  <2>2. q \o p # <<>>
    BY <1>1, <2>1, EmptySeq
  <2>3. Head(q \o p) = Head(q)
    BY <2>1, <1>1, <2>2, <1>3, HeadTailProperties
  <2>4. /\ Tail(q) \in Seq(Functors) /\ Len(Tail(q)) = Len(q) - 1
        /\ \A i \in 1 .. Len(q) - 1 : Tail(q)[i] = q[i + 1]
    BY <1>3, HeadTailProperties
  <2>5. /\ Tail(q \o p) \in Seq(Functors) /\ Len(Tail(q \o p)) = Len(q) + Len(p) - 1
        /\ \A i \in 1 .. Len(q) + Len(p) - 1 : Tail(q \o p)[i] = (q \o p)[i + 1]
    BY <1>1, <2>1, <2>2, HeadTailProperties
  <2>6. /\ Tail(q) \o p \in Seq(Functors) /\ Len(Tail(q) \o p) = Len(q) - 1 + Len(p)
        /\ \A i \in 1 .. Len(q) - 1 + Len(p) :
             (Tail(q) \o p)[i] = IF i <= Len(q) - 1 THEN Tail(q)[i] ELSE p[i - (Len(q) - 1)]
    BY <2>4, ConcatProperties
  <2>7. \A i \in 1 .. Len(q) + Len(p) - 1 : (Tail(q) \o p)[i] = Tail(q \o p)[i]
    <3> TAKE i \in 1 .. Len(q) + Len(p) - 1
    <3>1. /\ i \in Nat /\ i + 1 \in 1 .. Len(q) + Len(p) /\ i \in 1 .. Len(q) - 1 + Len(p)
          /\ i - (Len(q) - 1) = (i + 1) - Len(q)
      BY <2>1
    <3>2. Tail(q \o p)[i] = IF i + 1 <= Len(q) THEN q[i + 1] ELSE p[(i + 1) - Len(q)]
      BY <2>1, <2>5, <3>1
    <3>3. (Tail(q) \o p)[i] = IF i <= Len(q) - 1 THEN Tail(q)[i] ELSE p[(i + 1) - Len(q)]
      BY <2>6, <3>1
    <3>4. i + 1 <= Len(q) <=> i <= Len(q) - 1
      BY <2>1, <3>1
    <3>5. i <= Len(q) - 1 => Tail(q)[i] = q[i + 1]
      BY <2>1, <2>4, <3>1
    <3> QED BY <3>2, <3>3, <3>4, <3>5
  <2>8. Len(Tail(q) \o p) = Len(Tail(q \o p))
    BY <2>1, <2>5, <2>6
  <2>9. \A i \in 1 .. Len(Tail(q) \o p) : (Tail(q) \o p)[i] = Tail(q \o p)[i]
    BY <2>1, <2>6, <2>7
  <2>10. Tail(q) \o p = Tail(q \o p)
    BY <2>5, <2>6, <2>8, <2>9, SeqEqual
  <2> QED BY <2>2, <2>3, <2>10
<1> QED BY <1>1, <1>2, <1>3

-----------------------------------------------------------------------------
(* The operations that several steps share. *)

\* The queued timers in terms of the operators above.
LEMMA QueueNames ==
  /\ QueuedAdds = Adds(Queue) /\ QueuedTimers = AddedTimers(Queue)
  /\ QueuedAdds' = Adds(Queue') /\ QueuedTimers' = AddedTimers(Queue')
  BY DEF QueuedAdds, QueuedTimers, Adds, AddedTimers

\* What is in one of the three places is a Timer that is not deleted.
LEMMA OwnedLive ==
  ASSUME IInv
  PROVE  /\ \A a \in Timers(timers_) \cup Timers(expired) \cup QueuedTimers :
              a \in Addrs /\ heap[a].seq \in 1 .. s_numCreated_
         /\ \A a \in Timers(timers_) : a \notin Timers(expired) /\ a \notin QueuedTimers
         /\ \A a \in Timers(expired) : a \notin Timers(timers_) /\ a \notin QueuedTimers
         /\ \A a \in QueuedTimers : a \notin Timers(timers_) /\ a \notin Timers(expired)
<1>1. \A a \in Timers(timers_) \cup Timers(expired) \cup QueuedTimers : a \in Live
  BY DEF IInv, Books, TimersOwned
<1>2. \A a \in Live : a \in Addrs /\ heap[a].seq \in 1 .. s_numCreated_
  BY DEF IInv, Books, TypeOK, SeqsBounded, Live, TimerObjects
<1>3. /\ Timers(timers_) \cap Timers(expired) = {}
      /\ (Timers(timers_) \cup Timers(expired)) \cap QueuedTimers = {}
  BY DEF IInv, Books, TimersOwned
<1> QED BY <1>1, <1>2, <1>3

\* new Timer: an address that nobody holds gets the next sequence number.
LEMMA NewTimerFresh ==
  ASSUME IInv, NEW a \in Addrs, NEW d \in Delays, NEW i \in Intervals, NewTimer(a, d, i)
  PROVE  /\ heap' \in [Addrs -> TimerObjects]
         /\ s_numCreated_' = s_numCreated_ + 1 /\ s_numCreated_' \in 0 .. MaxCreated
         /\ heap'[a].seq = s_numCreated_ + 1
         /\ heap[a].seq = 0
         /\ \A b \in Addrs : b # a => heap'[b] = heap[b]
         /\ Live' = Live \cup {a}
         /\ a \notin Timers(timers_) /\ a \notin Timers(expired) /\ a \notin QueuedTimers
         /\ SeqsBounded'
         /\ <<a, s_numCreated_ + 1>> \notin cancelKnown
<1> USE TimerConstants DEF IInv, Books, TypeOK
<1>1. now + d \in Nat /\ i \in Nat /\ s_numCreated_ \in Nat /\ s_numCreated_ + 1 \in 0 .. MaxCreated
  BY DEF NewTimer
<1>2. heap' = [heap EXCEPT ![a] = [seq |-> s_numCreated_ + 1, when |-> now + d, interval |-> i]]
  BY DEF NewTimer
<1>3. heap' \in [Addrs -> TimerObjects] /\ heap'[a].seq = s_numCreated_ + 1
      /\ \A b \in Addrs : b # a => heap'[b] = heap[b]
  BY <1>1, <1>2 DEF TimerObjects
<1>4. heap[a].seq = 0
  BY DEF NewTimer, Live
<1>5. Live' = Live \cup {a}
  <2>1. \A b \in Addrs : heap'[b].seq # 0 <=> heap[b].seq # 0 \/ b = a
    BY <1>1, <1>3
  <2> QED BY <2>1 DEF Live
<1>6. a \notin Timers(timers_) /\ a \notin Timers(expired) /\ a \notin QueuedTimers
  BY DEF NewTimer, TimersOwned
<1>7. SeqsBounded'
  <2> SUFFICES ASSUME NEW b \in Addrs PROVE heap'[b].seq <= s_numCreated_ + 1
    BY DEF SeqsBounded, NewTimer
  <2>1. heap[b].seq \in Nat /\ heap[b].seq <= s_numCreated_
    BY DEF SeqsBounded, TimerObjects
  <2> QED BY <1>1, <1>3, <2>1
<1>8. <<a, s_numCreated_ + 1>> \notin cancelKnown
  BY <1>1 DEF CancelsNoted
<1> QED BY <1>1, <1>3, <1>4, <1>5, <1>6, <1>7, <1>8 DEF NewTimer

\* addTimerInLoop: both sets get the Timer.
LEMMA InsertAgrees ==
  ASSUME IInv, NEW a \in Addrs, AddTimerInLoop(a, heap'),
         heap' \in [Addrs -> TimerObjects],
         \A b \in Timers(timers_) : heap'[b] = heap[b]
  PROVE  /\ timers_' \in SUBSET Entries /\ activeTimers_' \in SUBSET Ids
         /\ Timers(timers_') = Timers(timers_) \cup {a}
         /\ SetsAgree'
<1>1. /\ timers_' = timers_ \cup {[when |-> heap'[a].when, timer |-> a]}
      /\ activeTimers_' = activeTimers_ \cup {<<a, heap'[a].seq>>}
  BY DEF AddTimerInLoop
<1>2. heap'[a].when \in Nat /\ heap'[a].seq \in Nat
  BY DEF TimerObjects
<1>3. timers_' \in SUBSET Entries /\ activeTimers_' \in SUBSET Ids
  BY <1>1, <1>2 DEF IInv, TypeOK, Entries, Ids
<1>4. Timers(timers_') = Timers(timers_) \cup {a}
  <2>1. \A S, e : Timers(S \cup {e}) = Timers(S) \cup {e.timer}
    BY DEF Timers
  <2> QED BY <1>1, <2>1
<1>5. \A e \in timers_' : e = Entry(e.timer)'
  <2> SUFFICES ASSUME NEW e \in timers_' PROVE e = [when |-> heap'[e.timer].when, timer |-> e.timer]
    BY DEF Entry
  <2>1. CASE e \in timers_
    <3>1. e = [when |-> heap[e.timer].when, timer |-> e.timer]
      BY <2>1 DEF IInv, Books, SetsAgree, Entry
    <3>2. e.timer \in Timers(timers_)
      BY <2>1 DEF Timers
    <3> QED BY <3>1, <3>2
  <2>2. CASE e = [when |-> heap'[a].when, timer |-> a]
    BY <2>2
  <2> QED BY <1>1, <2>1, <2>2
<1>6. activeTimers_' = {<<b, heap'[b].seq>> : b \in Timers(timers_')}
  <2>1. activeTimers_ = {<<b, heap[b].seq>> : b \in Timers(timers_)}
    BY DEF IInv, Books, SetsAgree, Active
  <2> QED BY <1>1, <1>4, <2>1
<1> QED BY <1>3, <1>4, <1>5, <1>6 DEF SetsAgree, Active

\* addTimerInLoop arms the timerfd when the new timer is the earliest, and only
\* then: otherwise the earliest stays the earliest.
LEMMA InsertCovers ==
  ASSUME IInv, NEW a \in Addrs, AddTimerInLoop(a, heap'),
         heap' \in [Addrs -> TimerObjects],
         UNCHANGED <<pc, active, clockVars>>
  PROVE  TimerfdCovers' /\ armed' \in Nat /\ readable' \in BOOLEAN
<1> DEFINE e == [when |-> heap'[a].when, timer |-> a]
<1>1. e \in Entries /\ e.when \in Nat /\ timers_ \in SUBSET Entries /\ now \in Nat
      /\ armed \in Nat /\ readable \in BOOLEAN /\ e.when = heap'[a].when
  BY DEF TimerObjects, Entries, IInv, TypeOK
<1>2. /\ timers_' = timers_ \cup {e}
      /\ \/ EarliestChanged(e) /\ ResetTimerfd(e.when)
         \/ ~EarliestChanged(e) /\ UNCHANGED fdVars
  BY DEF AddTimerInLoop
<1> HIDE DEF e
<1>3. timers_' \in SUBSET Entries /\ e \in timers_' /\ timers_' # {}
  BY <1>1, <1>2
<1>4. /\ First(timers_') \in timers_' /\ First(timers_').when \in Nat
      /\ \A d \in timers_' : First(timers_').when <= d.when
  BY <1>3, FirstExists
<1>5. CASE EarliestChanged(e) /\ ResetTimerfd(e.when)
  <2>1. armed' = HowMuchTimeFromNow(e.when) /\ readable' = FALSE
    BY <1>5 DEF ResetTimerfd
  <2>2. \A d \in timers_ : e.when < d.when
    BY <1>5 DEF EarliestChanged
  <2>3. First(timers_').when = e.when
    <3>1. First(timers_').when <= e.when
      BY <1>3, <1>4
    <3>2. First(timers_') = e \/ e.when < First(timers_').when
      BY <1>2, <1>4, <2>2
    <3> QED BY <1>1, <1>4, <3>1, <3>2
  <2>4. armed' \in Nat /\ armed' > 0
    BY <1>1, <2>1 DEF HowMuchTimeFromNow
  <2>5. TimerfdCovers'
    BY <1>1, <2>1, <2>3, <2>4 DEF TimerfdCovers, HowMuchTimeFromNow, clockVars
  <2> QED BY <2>1, <2>4, <2>5
<1>6. CASE ~EarliestChanged(e) /\ UNCHANGED fdVars
  <2>1. PICK d \in timers_ : ~(e.when < d.when)
    BY <1>6 DEF EarliestChanged
  <2>2. /\ First(timers_) \in timers_ /\ First(timers_).when \in Nat /\ First(timers_) \in timers_'
        /\ \A f \in timers_ : First(timers_).when <= f.when
    BY <1>1, <1>2, <2>1, FirstExists
  <2>3. d.when \in Nat /\ First(timers_).when <= d.when /\ d.when <= e.when
    BY <1>1, <2>1, <2>2 DEF Entries
  <2>4. \A f \in timers_' : First(timers_).when <= f.when
    BY <1>1, <1>2, <2>2, <2>3
  <2>5. First(timers_').when = First(timers_).when
    BY <1>4, <2>2, <2>4
  <2>6. armed' = armed /\ readable' = readable /\ timers_ # {}
    BY <1>6, <2>1 DEF fdVars
  <2>7. TimerfdCovers'
    BY <2>5, <2>6 DEF IInv, TimerfdCovers, HowMuchTimeFromNow, clockVars
  <2> QED BY <1>1, <2>6, <2>7
<1> QED BY <1>2, <1>5, <1>6

\* cancelInLoop(): a Timer in the sets is erased from both and deleted, any other
\* TimerId deletes nothing and is noted while a batch is run.
LEMMA CancelEffect ==
  ASSUME IInv, NEW id \in Ids, CancelInLoop(id)
  PROVE  \/ \E b \in Timers(timers_) :
              /\ id = Active(b)
              /\ timers_' = timers_ \ {Entry(b)}
              /\ activeTimers_' = activeTimers_ \ {Active(b)}
              /\ heap' = [heap EXCEPT ![b] = Freed]
              /\ cancelingTimers_' = cancelingTimers_
         \/ /\ \A b \in Timers(timers_) : id # Active(b)
            /\ UNCHANGED <<timers_, activeTimers_, heap>>
            /\ cancelingTimers_' = cancelingTimers_ \cup (IF pc = "expiring" THEN {id} ELSE {})
<1>1. activeTimers_ = {Active(a) : a \in Timers(timers_)}
  BY DEF IInv, Books, SetsAgree
<1>2. ASSUME NEW a \in ById(id) PROVE a \in Timers(timers_) /\ id = Active(a)
  BY <1>1, <1>2 DEF ById, Active
<1>3. ById(id) = {} => \A b \in Timers(timers_) : id # Active(b)
  <2> SUFFICES ASSUME NEW b \in Timers(timers_), id = Active(b) PROVE b \in ById(id)
    OBVIOUS
  <2>1. b \in Addrs /\ id \in activeTimers_ /\ b = id[1]
    BY <1>1, OwnedLive DEF Active
  <2> QED BY <2>1 DEF ById
<1>4. CASE ById(id) = {}
  BY <1>3, <1>4 DEF CancelInLoop, IInv, TypeOK
<1>5. CASE ById(id) # {}
  <2>1. PICK a \in ById(id) :
          /\ timers_' = timers_ \ {Entry(a)}
          /\ activeTimers_' = EraseActive({a})
          /\ heap' = DeleteTimer(a)
          /\ UNCHANGED cancelingTimers_
    BY <1>5 DEF CancelInLoop
  <2>2. activeTimers_' = activeTimers_ \ {Active(a)} /\ heap' = [heap EXCEPT ![a] = Freed]
    BY <2>1 DEF EraseActive, DeleteTimer
  <2> QED BY <1>2, <2>1, <2>2
<1> QED BY <1>4, <1>5

\* cancelInLoop() keeps the books, whichever thread asked and whenever.
LEMMA CancelKeeps ==
  ASSUME IInv, NEW id \in Ids, CancelInLoop(id),
         UNCHANGED <<fdVars, s_numCreated_, clockVars, loopVars, ran>>,
         QueuedTimers' = QueuedTimers, OnceEach(Queue)'
  PROVE  /\ timers_' \in SUBSET Entries /\ activeTimers_' \in SUBSET Ids
         /\ cancelingTimers_' \in SUBSET Ids /\ heap' \in [Addrs -> TimerObjects]
         /\ cancelReq' \in SUBSET Ids /\ cancelKnown' \in SUBSET Ids
         /\ Books' /\ TimerfdCovers'
<1> DEFINE known == {id} \cap {Active(a) : a \in Timers(timers_) \cup Timers(expired)}
<1>1. /\ cancelReq' = cancelReq \cup {id} /\ cancelKnown' = cancelKnown \cup known
      /\ cancelReq' \in SUBSET Ids /\ cancelKnown' \in SUBSET Ids
  BY DEF CancelInLoop, IInv, TypeOK
<1>2. /\ expired' = expired /\ todo' = todo /\ pc' = pc /\ active' = active /\ readable' = readable
      /\ armed' = armed /\ now' = now /\ clockSets' = clockSets
      /\ s_numCreated_' = s_numCreated_ /\ ran' = ran
  BY DEF loopVars, fdVars, clockVars
<1>3. \A j, k \in QueuedAdds' : Queue'[j].timer = Queue'[k].timer => j = k
  BY QueueNames DEF OnceEach, Adds
<1>4. CASE /\ \A b \in Timers(timers_) : id # Active(b)
           /\ UNCHANGED <<timers_, activeTimers_, heap>>
           /\ cancelingTimers_' = cancelingTimers_ \cup (IF pc = "expiring" THEN {id} ELSE {})
  <2>1. cancelingTimers_' \in SUBSET Ids
    BY <1>4 DEF IInv, TypeOK
  <2>2. SeqsBounded' /\ SetsAgree' /\ TimersOwned' /\ BatchRan' /\ NoTimerLost'
    <3>1. SeqsBounded' /\ SetsAgree'
      BY <1>2, <1>4 DEF IInv, Books, SeqsBounded, SetsAgree, Entry, Active, Timers
    <3>2. TimersOwned'
      BY <1>2, <1>3, <1>4 DEF IInv, Books, TimersOwned, Live, Timers
    <3>3. BatchRan'
      BY <1>2, <1>4 DEF IInv, Books, BatchRan
    <3>4. NoTimerLost'
      BY <1>1, <1>2, <1>4 DEF IInv, Books, NoTimerLost
    <3> QED BY <3>1, <3>2, <3>3, <3>4
  <2>3. CancelsNoted'
    <3>1. \A a : Active(a)' = Active(a)
      BY <1>4 DEF Active
    <3>2. \A x \in cancelKnown' : x[2] <= s_numCreated_
      <4>1. \A x \in known : x[2] <= s_numCreated_
        BY OwnedLive DEF Active
      <4> QED BY <1>1, <4>1 DEF IInv, Books, CancelsNoted
    <3>3. known # {} => pc = "expiring" /\ id \in cancelingTimers_'
      <4>1. known # {} => expired # {}
        BY <1>4 DEF Timers
      <4> QED BY <1>4, <4>1 DEF IInv, Control
    <3>4. \A a \in Timers(timers_) \cup QueuedTimers : Active(a) \notin known
      BY <1>4, OwnedLive DEF Active
    <3>5. \A a \in Timers(timers_) \cup QueuedTimers : Active(a) \notin cancelKnown'
      BY <1>1, <3>4 DEF IInv, Books, CancelsNoted
    <3>6. \A a \in Timers(expired) : Active(a) \in cancelKnown' => Active(a) \in cancelingTimers_'
      BY <1>1, <1>4, <3>3 DEF IInv, Books, CancelsNoted
    <3> QED BY <1>2, <1>4, <3>1, <3>2, <3>5, <3>6 DEF CancelsNoted, Timers
  <2>4. TimerfdCovers'
    BY <1>2, <1>4 DEF IInv, TimerfdCovers, HowMuchTimeFromNow
  <2> QED BY <1>1, <1>4, <2>1, <2>2, <2>3, <2>4 DEF Books, IInv, TypeOK
<1>5. ASSUME NEW b \in Timers(timers_),
             id = Active(b),
             timers_' = timers_ \ {Entry(b)},
             activeTimers_' = activeTimers_ \ {Active(b)},
             heap' = [heap EXCEPT ![b] = Freed],
             cancelingTimers_' = cancelingTimers_
      PROVE  /\ timers_' \in SUBSET Entries /\ activeTimers_' \in SUBSET Ids
             /\ cancelingTimers_' \in SUBSET Ids /\ heap' \in [Addrs -> TimerObjects]
             /\ Books' /\ TimerfdCovers'
  <2>1. /\ b \in Addrs /\ b \notin Timers(expired) /\ b \notin QueuedTimers
        /\ heap[b].seq \in 1 .. s_numCreated_
    BY OwnedLive
  <2>2. heap \in [Addrs -> TimerObjects] /\ Freed \in TimerObjects /\ Freed.seq = 0
    BY DEF IInv, TypeOK, Freed, TimerObjects
  <2>3. /\ heap' \in [Addrs -> TimerObjects] /\ heap'[b].seq = 0
        /\ \A a \in Addrs : a # b => heap'[a] = heap[a]
    BY <1>5, <2>1, <2>2
  <2>4. Timers(timers_') = Timers(timers_) \ {b}
    <3>1. \A e \in timers_ : e = Entry(e.timer)
      BY DEF IInv, Books, SetsAgree
    <3>2. \A e \in timers_ : e.timer = b <=> e = Entry(b)
      BY <3>1 DEF Entry
    <3> QED BY <1>5, <3>2 DEF Timers
  <2>5. Live' = Live \ {b}
    <3>1. \A a \in Addrs : heap'[a].seq # 0 <=> heap[a].seq # 0 /\ a # b
      BY <2>3
    <3> QED BY <3>1 DEF Live
  <2>6. timers_' \in SUBSET Entries /\ activeTimers_' \in SUBSET Ids /\ cancelingTimers_' \in SUBSET Ids
    BY <1>5 DEF IInv, TypeOK
  <2>7. \A a \in Timers(timers_') \cup Timers(expired) \cup QueuedTimers : a # b /\ a \in Addrs
    BY <2>1, <2>4, OwnedLive
  <2>8. \A a \in Timers(timers_') \cup Timers(expired) \cup QueuedTimers :
          Active(a)' = Active(a) /\ Entry(a)' = Entry(a)
    BY <2>3, <2>7 DEF Active, Entry
  <2>9. SeqsBounded'
    BY <1>2, <2>3 DEF IInv, Books, SeqsBounded, TypeOK
  <2>10. SetsAgree'
    <3>1. \A e \in timers_' : e = Entry(e.timer)'
      <4> TAKE e \in timers_'
      <4>1. e = Entry(e.timer)
        BY <1>5 DEF IInv, Books, SetsAgree
      <4>2. e.timer \in Timers(timers_')
        BY DEF Timers
      <4> QED BY <2>3, <2>7, <4>1, <4>2 DEF Entry
    <3>2. activeTimers_' = {Active(a) : a \in Timers(timers_')}
      <4>1. activeTimers_ = {Active(a) : a \in Timers(timers_)}
        BY DEF IInv, Books, SetsAgree
      <4>2. \A a : Active(a) = Active(b) <=> a = b
        BY DEF Active
      <4> QED BY <1>5, <2>4, <4>1, <4>2
    <3>3. {Active(a) : a \in Timers(timers_')} = {<<a, heap'[a].seq>> : a \in Timers(timers_')}
      BY <2>3, <2>7 DEF Active
    <3> QED BY <3>1, <3>2, <3>3 DEF SetsAgree, Active
  <2>11. TimersOwned'
    BY <1>2, <1>3, <2>1, <2>4, <2>5 DEF IInv, Books, TimersOwned, Timers
  <2>12. BatchRan'
    <3> SUFFICES ASSUME NEW e \in expired \ todo PROVE heap'[e.timer].seq \in ran
      BY <1>2 DEF BatchRan
    <3>1. e.timer \in Timers(expired)
      BY DEF Timers
    <3> QED BY <2>3, <2>7, <3>1 DEF IInv, Books, BatchRan
  <2>13. NoTimerLost'
    <3> SUFFICES ASSUME NEW s \in 1 .. s_numCreated_
                 PROVE  s \in ran \/ \E a \in Addrs : heap'[a].seq = s \/ <<a, s>> \in cancelReq'
      BY <1>2 DEF NoTimerLost
    <3>1. CASE s = heap[b].seq
      BY <1>1, <1>5, <2>1, <3>1 DEF Active
    <3>2. CASE s # heap[b].seq
      BY <1>1, <2>3, <3>2 DEF IInv, Books, NoTimerLost
    <3> QED BY <3>1, <3>2
  <2>14. CancelsNoted'
    <3>1. \A x \in cancelKnown' : x[2] <= s_numCreated_
      <4>1. Active(b)[2] <= s_numCreated_
        BY <2>1 DEF Active, IInv, TypeOK
      <4> QED BY <1>1, <1>5, <4>1 DEF IInv, Books, CancelsNoted
    <3>2. \A a \in Timers(timers_') \cup Timers(expired) \cup QueuedTimers : Active(a) # id
      BY <1>5, <2>7 DEF Active
    <3>3. \A a \in Timers(timers_') \cup QueuedTimers : Active(a) \notin cancelKnown'
      BY <1>1, <2>4, <3>2 DEF IInv, Books, CancelsNoted
    <3>4. \A a \in Timers(expired) : Active(a) \in cancelKnown' => Active(a) \in cancelingTimers_
      BY <1>1, <3>2 DEF IInv, Books, CancelsNoted
    <3>5. \A a \in Timers(timers_') \cup QueuedTimers : Active(a)' \notin cancelKnown'
      BY <2>8, <3>3
    <3>6. \A a \in Timers(expired) : Active(a)' \in cancelKnown' => Active(a)' \in cancelingTimers_
      BY <2>8, <3>4
    <3> QED BY <1>2, <1>5, <3>1, <3>5, <3>6 DEF CancelsNoted, Timers
  <2>15. TimerfdCovers'
    <3> SUFFICES ASSUME timers_' # {}, pc # "expiring", ~readable, ~active
                 PROVE  /\ armed > 0
                        /\ clockSets = 0 => armed <= HowMuchTimeFromNow(First(timers_').when)
      BY <1>2 DEF TimerfdCovers, HowMuchTimeFromNow
    <3>1. /\ First(timers_') \in timers_ /\ First(timers_').when \in Nat
          /\ timers_ # {} /\ timers_ \in SUBSET Entries
      BY <1>5, <2>6, FirstExists DEF IInv, TypeOK
    <3>2. First(timers_).when \in Nat /\ First(timers_).when <= First(timers_').when
      BY <3>1, FirstExists
    <3>3. armed > 0 /\ (clockSets = 0 => armed <= HowMuchTimeFromNow(First(timers_).when))
      BY <3>1 DEF IInv, TimerfdCovers
    <3>4. HowMuchTimeFromNow(First(timers_).when) <= HowMuchTimeFromNow(First(timers_').when)
          /\ HowMuchTimeFromNow(First(timers_).when) \in Nat
          /\ HowMuchTimeFromNow(First(timers_').when) \in Nat
      BY <3>1, <3>2 DEF HowMuchTimeFromNow, IInv, TypeOK
    <3> QED BY <3>3, <3>4 DEF IInv, TypeOK
  <2> QED BY <2>3, <2>6, <2>9, <2>10, <2>11, <2>12, <2>13, <2>14, <2>15 DEF Books
<1> QED BY <1>1, <1>4, <1>5, CancelEffect

-----------------------------------------------------------------------------
(* The steps. *)

\* Steps that leave the Timers, the queue and the batch alone keep the books.
LEMMA BooksSame ==
  ASSUME IInv,
         UNCHANGED <<timers_, activeTimers_, heap, s_numCreated_, expired, todo, cancelingTimers_,
                     histVars>>,
         Queue' = Queue
  PROVE  Books'
<1> USE DEF IInv, Books, histVars
<1>1. QueuedAdds' = QueuedAdds /\ QueuedTimers' = QueuedTimers
  BY QueueNames
<1>2. SeqsBounded' /\ SetsAgree'
  BY DEF SeqsBounded, SetsAgree, Entry, Active, Timers
<1>3. TimersOwned'
  BY <1>1 DEF TimersOwned, Live, Timers
<1>4. BatchRan' /\ NoTimerLost'
  BY DEF BatchRan, NoTimerLost
<1>5. CancelsNoted'
  BY <1>1 DEF CancelsNoted, Active, Timers
<1> QED BY <1>2, <1>3, <1>4, <1>5

\* poll() takes over whether the timerfd is readable.
LEMMA PollStep == ASSUME IInv, Poll PROVE IInv'
<1> USE DEF Poll, setVars, fdVars, clockVars, queueVars, userVars, histVars
<1>1. TypeOK'
  BY DEF IInv, TypeOK
<1>2. Control' /\ AddsStarted'
  BY DEF IInv, Control, AddsStarted
<1>3. Books'
  BY BooksSame DEF Queue
<1>4. TimerfdCovers'
  BY DEF IInv, TypeOK, Control, TimerfdCovers, HowMuchTimeFromNow
<1> QED BY <1>1, <1>2, <1>3, <1>4 DEF IInv

\* The loop goes back to poll().
LEMMA FunctorsDoneStep == ASSUME IInv, FunctorsDone PROVE IInv'
<1> USE DEF FunctorsDone, setVars, fdVars, clockVars, queueVars, userVars, histVars
<1>1. TypeOK'
  BY DEF IInv, TypeOK
<1>2. Control' /\ AddsStarted'
  BY DEF IInv, Control, AddsStarted
<1>3. Books'
  BY BooksSame DEF Queue
<1>4. TimerfdCovers'
  BY DEF IInv, TypeOK, Control, TimerfdCovers, HowMuchTimeFromNow
<1> QED BY <1>1, <1>2, <1>3, <1>4 DEF IInv

\* doPendingFunctors swaps the queue into its local vector, which is empty.
LEMMA EventsDoneStep == ASSUME IInv, EventsDone PROVE IInv'
<1> USE DEF EventsDone, setVars, fdVars, clockVars, queueVars, userVars, histVars
<1>1. TypeOK'
  BY DEF IInv, TypeOK
<1>2. Control' /\ AddsStarted'
  BY DEF IInv, Control, AddsStarted
<1>3. Queue' = Queue
  <2>1. functors = <<>> /\ pendingFunctors_ \in Seq(Functors)
    BY DEF IInv, Control, TypeOK
  <2> QED BY <2>1, QueueChanges, EmptySeq DEF Queue
<1>4. Books'
  BY <1>3, BooksSame
<1>5. TimerfdCovers'
  BY DEF IInv, TypeOK, Control, TimerfdCovers, HowMuchTimeFromNow
<1> QED BY <1>1, <1>2, <1>4, <1>5 DEF IInv

\* addTimer() of another thread returns its TimerId.
LEMMA AddReturnsStep == ASSUME IInv, NEW t \in Threads, AddReturns(t) PROVE IInv'
<1> USE DEF AddReturns, setVars, fdVars, clockVars, loopVars, queueVars, histVars
<1>1. adding[t].timer \in Addrs
  BY DEF IInv, AddsStarted
<1>2. PICK s \in 1 .. s_numCreated_ : ids' = ids \cup {<<adding[t].timer, s>>}
  OBVIOUS
<1>3. ids' \in SUBSET Ids
  BY <1>1, <1>2 DEF IInv, TypeOK, Ids
<1>4. NoAdd \in [timer : Addrs \cup {0}, seq : Nat]
  BY DEF NoAdd
<1>5. adding' \in [Threads -> [timer : Addrs \cup {0}, seq : Nat]] /\ AddsStarted'
  BY <1>4 DEF IInv, TypeOK, AddsStarted
<1>6. TypeOK' /\ Control'
  BY <1>3, <1>5 DEF IInv, TypeOK, Control
<1>7. Books'
  BY BooksSame DEF Queue
<1>8. TimerfdCovers'
  BY DEF IInv, TimerfdCovers, HowMuchTimeFromNow
<1> QED BY <1>5, <1>6, <1>7, <1>8 DEF IInv

\* Time passes: the timerfd counts down with the clock.
LEMMA TickStep == ASSUME IInv, Tick PROVE IInv'
<1> USE TimerConstants DEF Tick, setVars, clockVars, loopVars, queueVars, userVars, histVars
<1>1. TypeOK'
  BY DEF IInv, TypeOK
<1>2. Control' /\ AddsStarted'
  BY DEF IInv, Control, AddsStarted
<1>3. Books'
  BY BooksSame DEF Queue
<1>4. TimerfdCovers'
  <2> SUFFICES ASSUME timers_ # {}, pc # "expiring", ~readable', ~active
               PROVE  /\ armed' > 0
                      /\ clockSets = 0 => armed' <= HowMuchTimeFromNow(First(timers_).when)'
    BY DEF TimerfdCovers
  <2>1. ~readable /\ armed # 1 /\ armed \in Nat /\ now \in Nat
    BY DEF IInv, TypeOK
  <2>2. armed > 0 /\ (clockSets = 0 => armed <= HowMuchTimeFromNow(First(timers_).when))
    BY <2>1 DEF IInv, TimerfdCovers
  <2>3. armed' = armed - 1 /\ armed >= 2 /\ now' \in {now, now + 1}
    BY <2>1, <2>2
  <2>4. First(timers_).when \in Nat
    BY FirstExists DEF IInv, TypeOK
  <2> QED BY <2>1, <2>2, <2>3, <2>4 DEF HowMuchTimeFromNow
<1> QED BY <1>1, <1>2, <1>3, <1>4 DEF IInv

\* The administrator sets the clock: the timerfd stays armed.
LEMMA SetClockStep == ASSUME IInv, SetClock PROVE IInv'
<1> USE TimerConstants DEF SetClock, setVars, fdVars, loopVars, queueVars, userVars, histVars
<1>1. TypeOK'
  BY DEF IInv, TypeOK
<1>2. Control' /\ AddsStarted'
  BY DEF IInv, Control, AddsStarted
<1>3. Books'
  BY BooksSame DEF Queue
<1>4. TimerfdCovers'
  BY DEF IInv, TypeOK, TimerfdCovers
<1> QED BY <1>1, <1>2, <1>3, <1>4 DEF IInv

\* cancel() in another thread only queues a functor.
LEMMA CancelFromThreadStep == ASSUME IInv, NEW t \in Threads, CancelFromThread(t) PROVE IInv'
<1> USE DEF CancelFromThread, setVars, fdVars, clockVars, loopVars, userVars, histVars
<1>1. PICK id \in ids : pendingFunctors_' = Append(pendingFunctors_, [op |-> "cancel", id |-> id])
  OBVIOUS
<1> DEFINE f == [op |-> "cancel", id |-> id]
<1>2. f \in Functors /\ f.op = "cancel" /\ f.op # "add"
  BY DEF Functors, IInv, TypeOK
<1>3. pendingFunctors_ \in Seq(Functors) /\ functors \in Seq(Functors) /\ Queue \in Seq(Functors)
  BY QueueChanges DEF IInv, TypeOK, Queue
<1> HIDE DEF f
<1>4. pendingFunctors_' = Append(pendingFunctors_, f) /\ pendingFunctors_' \in Seq(Functors)
  BY <1>1, <1>2, <1>3, AppendFunctor DEF f
<1>5. Queue' = Append(Queue, f)
  BY <1>2, <1>3, <1>4, QueueChanges DEF Queue
<1>6. QueuedTimers' = QueuedTimers /\ OnceEach(Queue')
  <2>1. OnceEach(Queue)
    BY QueueNames DEF IInv, Books, TimersOwned, OnceEach
  <2> QED BY <1>2, <1>3, <1>5, <2>1, QueueNames, AppendFunctor
<1>7. TypeOK'
  BY <1>4 DEF IInv, TypeOK
<1>8. Control' /\ AddsStarted' /\ TimerfdCovers'
  BY DEF IInv, Control, AddsStarted, TimerfdCovers, HowMuchTimeFromNow
<1>9. Books'
  <2> USE DEF IInv, Books
  <2>1. SeqsBounded' /\ SetsAgree' /\ BatchRan' /\ NoTimerLost'
    BY DEF SeqsBounded, SetsAgree, Entry, Active, Timers, BatchRan, NoTimerLost
  <2>2. TimersOwned'
    BY <1>6, QueueNames DEF TimersOwned, Live, Timers, OnceEach
  <2>3. CancelsNoted'
    BY <1>6 DEF CancelsNoted, Active, Timers
  <2> QED BY <2>1, <2>2, <2>3
<1> QED BY <1>7, <1>8, <1>9 DEF IInv

\* cancel() in the loop thread: from an I/O handler, a functor or a timer of the
\* batch.
LEMMA CancelFromLoopStep == ASSUME IInv, CancelFromLoop PROVE IInv'
<1> USE DEF CancelFromLoop
<1>1. PICK id \in ids : CancelInLoop(id)
  OBVIOUS
<1>2. id \in Ids
  BY DEF IInv, TypeOK
<1>3. Queue' = Queue /\ QueuedTimers' = QueuedTimers /\ OnceEach(Queue)'
  <2>1. Queue' = Queue
    BY DEF queueVars, Queue
  <2> QED BY <2>1, QueueNames DEF IInv, Books, TimersOwned, OnceEach
<1>4. /\ timers_' \in SUBSET Entries /\ activeTimers_' \in SUBSET Ids
      /\ cancelingTimers_' \in SUBSET Ids /\ heap' \in [Addrs -> TimerObjects]
      /\ cancelReq' \in SUBSET Ids /\ cancelKnown' \in SUBSET Ids
      /\ Books' /\ TimerfdCovers'
  BY <1>1, <1>2, <1>3, CancelKeeps
<1>5. TypeOK' /\ Control' /\ AddsStarted'
  BY <1>4 DEF IInv, TypeOK, Control, AddsStarted, fdVars, clockVars, loopVars, queueVars, userVars
<1> QED BY <1>4, <1>5 DEF IInv

\* cancelInLoop() as a functor.
LEMMA RunCancelStep == ASSUME IInv, RunCancel PROVE IInv'
<1> USE DEF RunCancel
<1>1. /\ functors \in Seq(Functors) /\ pendingFunctors_ \in Seq(Functors) /\ functors # <<>>
      /\ Queue \in Seq(Functors)
  BY QueueChanges DEF IInv, TypeOK, Queue
<1>2. Head(functors) \in Functors /\ Tail(functors) \in Seq(Functors)
  BY <1>1, TailFunctor
<1>3. Head(functors).id \in Ids
  BY <1>2, FunctorKinds
<1>4. Queue' = Tail(Queue) /\ Head(Queue) = Head(functors) /\ Queue # <<>>
  BY <1>1, QueueChanges DEF Queue
<1>5. QueuedTimers' = QueuedTimers /\ OnceEach(Queue)'
  <2>1. OnceEach(Queue)
    BY QueueNames DEF IInv, Books, TimersOwned, OnceEach
  <2>2. AddedTimers(Tail(Queue)) = AddedTimers(Queue) /\ OnceEach(Tail(Queue))
    BY <1>1, <1>4, <2>1, TailFunctor
  <2>3. OnceEach(Queue) ' = OnceEach(Queue')
    BY DEF OnceEach, Adds
  <2> QED BY <1>4, <2>2, <2>3, QueueNames
<1>6. /\ timers_' \in SUBSET Entries /\ activeTimers_' \in SUBSET Ids
      /\ cancelingTimers_' \in SUBSET Ids /\ heap' \in [Addrs -> TimerObjects]
      /\ cancelReq' \in SUBSET Ids /\ cancelKnown' \in SUBSET Ids
      /\ Books' /\ TimerfdCovers'
  BY <1>3, <1>5, CancelKeeps
<1>7. TypeOK' /\ Control' /\ AddsStarted'
  BY <1>2, <1>6 DEF IInv, TypeOK, Control, AddsStarted, fdVars, clockVars, loopVars, userVars
<1> QED BY <1>6, <1>7 DEF IInv

\* handleRead takes out what has expired: it moves to the batch.
LEMMA HandleReadStep == ASSUME IInv, HandleRead PROVE IInv'
<1> USE DEF HandleRead, clockVars, queueVars, userVars, histVars
<1>1. expired = {} /\ Due \in SUBSET timers_ /\ timers_ \in SUBSET Entries
  BY DEF IInv, Control, TypeOK, Due
<1>2. \A e \in timers_ : e = Entry(e.timer)
  BY DEF IInv, Books, SetsAgree
<1>3. \A e \in timers_ : e \in Due <=> e.timer \in Timers(Due)
  BY <1>1, <1>2 DEF Timers
<1>4. /\ Timers(timers_') = Timers(timers_) \ Timers(Due)
      /\ Timers(Due) \subseteq Timers(timers_) /\ Timers(expired') = Timers(Due)
      /\ Timers(expired) = {}
  BY <1>1, <1>3 DEF Timers
<1>5. activeTimers_' = {Active(a) : a \in Timers(timers_')}
  <2>1. activeTimers_ = {Active(a) : a \in Timers(timers_)}
    BY DEF IInv, Books, SetsAgree
  <2>2. activeTimers_' = activeTimers_ \ {Active(a) : a \in Timers(Due)}
    BY DEF EraseActive
  <2>3. \A a, b : Active(a) = Active(b) <=> a = b
    BY DEF Active
  <2> QED BY <1>4, <2>1, <2>2, <2>3
<1>6. TypeOK'
  BY <1>1, <1>5 DEF IInv, TypeOK, EraseActive
<1>7. Control' /\ AddsStarted'
  BY DEF IInv, Control, AddsStarted
<1>8. QueuedTimers' = QueuedTimers /\ QueuedAdds' = QueuedAdds /\ Queue' = Queue
  BY QueueNames DEF Queue
<1>9. Books'
  <2> USE DEF IInv, Books
  <2>1. SeqsBounded' /\ NoTimerLost' /\ BatchRan'
    BY DEF SeqsBounded, NoTimerLost, BatchRan
  <2>2. SetsAgree'
    <3>1. \A a : Active(a)' = Active(a) /\ Entry(a)' = Entry(a)
      BY DEF Active, Entry
    <3>2. \A e \in timers_' : e = Entry(e.timer)'
      BY <1>2 DEF Entry
    <3>3. {Active(a) : a \in Timers(timers_')} = {<<a, heap'[a].seq>> : a \in Timers(timers_')}
      BY DEF Active
    <3> QED BY <1>5, <3>2, <3>3 DEF SetsAgree, Active
  <2>3. TimersOwned'
    BY <1>4, <1>8 DEF TimersOwned, Live, Timers
  <2>4. CancelsNoted'
    <3>1. \A a \in Timers(timers_) \cup QueuedTimers : Active(a)' \notin cancelKnown
      BY DEF CancelsNoted, Active
    <3>2. \A id \in cancelKnown : id[2] <= s_numCreated_
      BY DEF CancelsNoted
    <3> QED BY <1>4, <1>8, <3>1, <3>2 DEF CancelsNoted, Timers
  <2> QED BY <2>1, <2>2, <2>3, <2>4
<1>10. TimerfdCovers'
  BY DEF TimerfdCovers
<1> QED BY <1>6, <1>7, <1>9, <1>10 DEF IInv

\* One callback of the batch runs: its Timer is there.
LEMMA RunTimerStep == ASSUME IInv, RunTimer PROVE IInv'
<1> USE DEF RunTimer, setVars, fdVars, clockVars, queueVars, userVars
<1>1. First(todo) \in todo /\ todo \in SUBSET expired /\ expired \in SUBSET Entries
  BY FirstExists DEF IInv, TypeOK
<1>2. First(todo).timer \in Timers(expired)
  BY <1>1 DEF Timers
<1>3. heap[First(todo).timer].seq \in 1 .. s_numCreated_
  BY <1>2, OwnedLive
<1>4. ran' \in SUBSET Seqs
  <2>1. s_numCreated_ \in 0 .. MaxCreated /\ ran \in SUBSET Seqs
    BY DEF IInv, TypeOK
  <2>2. heap[First(todo).timer].seq \in Seqs
    BY <1>3, <2>1, TimerConstants DEF Seqs
  <2> QED BY <2>1, <2>2
<1>5. TypeOK'
  BY <1>4 DEF IInv, TypeOK
<1>6. Control' /\ AddsStarted'
  BY DEF IInv, Control, AddsStarted
<1>7. QueuedTimers' = QueuedTimers /\ QueuedAdds' = QueuedAdds /\ Queue' = Queue
  BY QueueNames DEF Queue
<1>8. Books'
  <2> USE DEF IInv, Books
  <2>1. SeqsBounded' /\ SetsAgree'
    BY DEF SeqsBounded, SetsAgree, Entry, Active, Timers
  <2>2. TimersOwned'
    BY <1>7 DEF TimersOwned, Live, Timers
  <2>3. NoTimerLost'
    BY DEF NoTimerLost
  <2>4. BatchRan'
    BY DEF BatchRan
  <2>5. CancelsNoted'
    BY <1>7 DEF CancelsNoted, Active, Timers
  <2> QED BY <2>1, <2>2, <2>3, <2>4, <2>5
<1>9. TimerfdCovers'
  BY DEF TimerfdCovers
<1> QED BY <1>5, <1>6, <1>8, <1>9 DEF IInv

\* reset(): of the batch, which has run, the repeating timers that were not
\* cancelled go back into both sets with a new expiration, the others are
\* deleted, and the timerfd is armed for the earliest.
LEMMA ExpiredDoneStep == ASSUME IInv, ExpiredDone PROVE IInv'
<1> USE DEF ExpiredDone, clockVars, queueVars, userVars, histVars
<1> DEFINE again == {a \in Timers(expired) : Restartable(a)}
           back == {[when |-> Restart(a), timer |-> a] : a \in again}
<1>1. /\ heap' = [a \in Addrs |-> IF a \in again THEN [heap[a] EXCEPT !.when = Restart(a)]
                                  ELSE IF a \in Timers(expired) THEN Freed ELSE heap[a]]
      /\ timers_' = timers_ \cup back
      /\ activeTimers_' = activeTimers_ \cup {Active(a) : a \in again}
      /\ \/ timers_' # {} /\ ResetTimerfd(First(timers_').when)
         \/ timers_' = {} /\ UNCHANGED fdVars
  BY DEF Reset
<1>2. /\ again \subseteq Timers(expired)
      /\ \A a \in again : heap[a].interval > 0 /\ Active(a) \notin cancelingTimers_
  BY DEF Restartable
<1>3. \A a \in Addrs : /\ heap[a] \in TimerObjects /\ heap[a].seq \in Nat /\ Restart(a) \in Nat
                       /\ heap[a] = [seq |-> heap[a].seq, when |-> heap[a].when,
                                     interval |-> heap[a].interval]
  BY DEF IInv, TypeOK, TimerObjects, Restart
<1> HIDE DEF again
<1>4. \A a \in Timers(expired) : a \in Addrs /\ heap[a].seq \in 1 .. s_numCreated_
                                 /\ a \notin Timers(timers_) /\ a \notin QueuedTimers
  BY OwnedLive
<1>5. \A a \in again : /\ heap'[a] \in TimerObjects
                       /\ heap'[a].seq = heap[a].seq /\ heap'[a].when = Restart(a)
  BY <1>1, <1>2, <1>3, <1>4 DEF TimerObjects
<1>6. \A a \in Timers(expired) \ again : heap'[a] = Freed
  BY <1>1, <1>4
<1>7. \A a \in Addrs \ Timers(expired) : heap'[a] = heap[a]
  BY <1>1, <1>2
<1>8. Freed \in TimerObjects /\ Freed.seq = 0
  BY DEF Freed, TimerObjects
<1>9. heap' \in [Addrs -> TimerObjects]
  <2>1. \A a \in Addrs : heap'[a] \in TimerObjects
    BY <1>3, <1>5, <1>6, <1>7, <1>8
  <2>2. heap' = [a \in Addrs |-> heap'[a]]
    BY <1>1
  <2> QED BY <2>1, <2>2
<1>10. timers_' \in SUBSET Entries /\ activeTimers_' \in SUBSET Ids
  <2>1. back \in SUBSET Entries
    <3>1. \A a \in again : Restart(a) \in Nat /\ a \in Addrs
      BY <1>2, <1>3, <1>4
    <3>2. \A a \in again : [when |-> Restart(a), timer |-> a] \in Entries
      BY <3>1 DEF Entries
    <3> QED BY <3>2
  <2>2. {Active(a) : a \in again} \in SUBSET Ids
    BY <1>2, <1>3, <1>4 DEF Active, Ids
  <2> QED BY <1>1, <2>1, <2>2 DEF IInv, TypeOK
<1>11. Timers(timers_') = Timers(timers_) \cup again
  <2>1. Timers(back) = again
    <3>1. \A e \in back : e.timer \in again
      OBVIOUS
    <3>2. ASSUME NEW a \in again PROVE \E e \in back : e.timer = a
      <4>1. [when |-> Restart(a), timer |-> a] \in back
        OBVIOUS
      <4>2. [when |-> Restart(a), timer |-> a].timer = a
        OBVIOUS
      <4> QED BY <4>1, <4>2
    <3> HIDE DEF back
    <3> QED BY <3>1, <3>2 DEF Timers
  <2>2. \A S, T : Timers(S \cup T) = Timers(S) \cup Timers(T)
    BY DEF Timers
  <2> QED BY <1>1, <2>1, <2>2
<1>12. Live' = Timers(timers_) \cup again \cup QueuedTimers
  <2>1. \A a \in Addrs : heap'[a].seq # 0 <=> a \in Timers(timers_) \cup again \cup QueuedTimers
    <3> TAKE a \in Addrs
    <3>1. CASE a \in again
      BY <1>2, <1>4, <1>5, <3>1
    <3>2. CASE a \in Timers(expired) \ again
      BY <1>4, <1>6, <1>8, <3>2
    <3>3. CASE a \notin Timers(expired)
      <4>1. a \in Live <=> a \in Timers(timers_) \cup QueuedTimers
        BY <3>3 DEF IInv, Books, TimersOwned
      <4>2. heap'[a].seq # 0 <=> a \in Live
        BY <1>7, <3>3 DEF Live
      <4>3. a \notin again
        BY <1>2, <3>3
      <4> QED BY <4>1, <4>2, <4>3
    <3> QED BY <3>1, <3>2, <3>3
  <2>2. Timers(timers_) \cup again \cup QueuedTimers \subseteq Addrs
    BY <1>2, <1>4, OwnedLive
  <2> QED BY <2>1, <2>2 DEF Live
<1>13. QueuedTimers' = QueuedTimers /\ QueuedAdds' = QueuedAdds /\ Queue' = Queue
  BY QueueNames DEF Queue
<1>14. \A a \in Timers(timers_) \cup QueuedTimers : heap'[a] = heap[a]
  BY <1>7, OwnedLive
<1>15. \A a \in Timers(timers_') \cup QueuedTimers : heap'[a].seq = heap[a].seq
  BY <1>5, <1>11, <1>14
<1>16. /\ timers_' # {} => armed' > 0 /\ armed' = HowMuchTimeFromNow(First(timers_').when)
       /\ armed' \in Nat /\ readable' \in BOOLEAN
  <2>1. CASE timers_' # {} /\ ResetTimerfd(First(timers_').when)
    <3>1. First(timers_').when \in Nat
      BY <1>10, <2>1, FirstExists
    <3>2. now \in Nat
      BY DEF IInv, TypeOK
    <3>3. armed' = HowMuchTimeFromNow(First(timers_').when) /\ readable' = FALSE
      BY <2>1 DEF ResetTimerfd
    <3>4. /\ HowMuchTimeFromNow(First(timers_').when) \in Nat
          /\ HowMuchTimeFromNow(First(timers_').when) > 0
      BY <3>1, <3>2 DEF HowMuchTimeFromNow
    <3> QED BY <3>3, <3>4
  <2>2. CASE timers_' = {} /\ UNCHANGED fdVars
    BY <2>2 DEF fdVars, IInv, TypeOK
  <2> QED BY <1>1, <2>1, <2>2
<1>17. TypeOK'
  BY <1>9, <1>10, <1>16 DEF IInv, TypeOK
<1>18. Control' /\ AddsStarted'
  BY DEF IInv, Control, AddsStarted
<1>19. SeqsBounded'
  <2> SUFFICES ASSUME NEW a \in Addrs PROVE heap'[a].seq <= s_numCreated_
    BY DEF SeqsBounded
  <2>1. heap[a].seq <= s_numCreated_ /\ 0 <= s_numCreated_
    BY DEF IInv, Books, SeqsBounded, TypeOK
  <2> QED BY <1>5, <1>6, <1>7, <1>8, <2>1
<1>20. SetsAgree'
  <2>1. \A e \in timers_' : e = [when |-> heap'[e.timer].when, timer |-> e.timer]
    <3> TAKE e \in timers_'
    <3>1. CASE e \in timers_
      <4>1. e = [when |-> heap[e.timer].when, timer |-> e.timer] /\ e.timer \in Timers(timers_)
        BY <3>1 DEF IInv, Books, SetsAgree, Entry, Timers
      <4> QED BY <1>14, <4>1
    <3>2. CASE e \in back
      BY <1>5, <3>2
    <3> QED BY <1>1, <3>1, <3>2
  <2>2. activeTimers_' = {Active(a) : a \in Timers(timers_')}
    <3>1. activeTimers_ = {Active(a) : a \in Timers(timers_)}
      BY DEF IInv, Books, SetsAgree
    <3> QED BY <1>1, <1>11, <3>1
  <2>3. {Active(a) : a \in Timers(timers_')} = {<<a, heap'[a].seq>> : a \in Timers(timers_')}
    BY <1>15 DEF Active
  <2> QED BY <2>1, <2>2, <2>3 DEF SetsAgree, Active, Entry
<1>21. TimersOwned'
  <2>1. Timers(expired') = {}
    BY DEF Timers
  <2>2. (Timers(timers_) \cup again) \cap QueuedTimers = {}
    BY <1>2, <1>4, OwnedLive
  <2>3. \A j, k \in QueuedAdds : Queue[j].timer = Queue[k].timer => j = k
    BY DEF IInv, Books, TimersOwned
  <2>4. Live' = Timers(timers_') \cup Timers(expired') \cup QueuedTimers'
    BY <1>11, <1>12, <1>13, <2>1
  <2>5. /\ Timers(timers_') \cap Timers(expired') = {}
        /\ (Timers(timers_') \cup Timers(expired')) \cap QueuedTimers' = {}
    BY <1>11, <1>13, <2>1, <2>2
  <2> QED BY <1>13, <2>3, <2>4, <2>5 DEF TimersOwned, Timers
<1>22. BatchRan'
  BY DEF BatchRan
<1>23. NoTimerLost'
  <2> SUFFICES ASSUME NEW s \in 1 .. s_numCreated_
               PROVE  s \in ran \/ \E a \in Addrs : heap'[a].seq = s \/ <<a, s>> \in cancelReq
    BY DEF NoTimerLost
  <2>1. CASE \E a \in Timers(expired) : heap[a].seq = s
    <3>1. PICK e \in expired : heap[e.timer].seq = s
      BY <2>1 DEF Timers
    <3> QED BY <3>1 DEF IInv, Books, BatchRan
  <2>2. CASE ~\E a \in Timers(expired) : heap[a].seq = s
    BY <1>7, <2>2 DEF IInv, Books, NoTimerLost
  <2> QED BY <2>1, <2>2
<1>24. CancelsNoted'
  <2> USE DEF IInv, Books
  <2>1. \A a \in again : Active(a) \notin cancelKnown
    BY <1>2 DEF CancelsNoted
  <2>2. \A a \in Timers(timers_') \cup QueuedTimers : Active(a) \notin cancelKnown
    BY <1>11, <2>1 DEF CancelsNoted
  <2>3. \A a \in Timers(timers_') \cup QueuedTimers : Active(a)' \notin cancelKnown
    BY <1>15, <2>2 DEF Active
  <2>4. \A id \in cancelKnown : id[2] <= s_numCreated_
    BY DEF CancelsNoted
  <2> QED BY <1>13, <2>3, <2>4 DEF CancelsNoted, Timers
<1>25. TimerfdCovers'
  BY <1>16, <1>17 DEF TimerfdCovers, HowMuchTimeFromNow, TypeOK
<1> QED BY <1>17, <1>18, <1>19, <1>20, <1>21, <1>22, <1>23, <1>24, <1>25 DEF IInv, Books

\* addTimerInLoop() as a functor: a queued Timer moves into the sets.
LEMMA RunAddStep == ASSUME IInv, RunAdd PROVE IInv'
<1> USE DEF RunAdd
<1> DEFINE a == Head(functors).timer
<1>1. /\ functors \in Seq(Functors) /\ pendingFunctors_ \in Seq(Functors) /\ functors # <<>>
      /\ Queue \in Seq(Functors)
  BY QueueChanges DEF IInv, TypeOK, Queue
<1>2. Head(functors) \in Functors /\ Tail(functors) \in Seq(Functors)
  BY <1>1, TailFunctor
<1>3. a \in Addrs
  BY <1>2, FunctorKinds
<1>4. Queue' = Tail(Queue) /\ Head(Queue) = Head(functors) /\ Queue # <<>>
  BY <1>1, QueueChanges DEF Queue
<1>5. OnceEach(Queue)
  BY QueueNames DEF IInv, Books, TimersOwned, OnceEach
<1>6. a \in QueuedTimers /\ QueuedTimers' = QueuedTimers \ {a} /\ OnceEach(Queue')
  <2>1. /\ a \in AddedTimers(Queue) /\ AddedTimers(Tail(Queue)) = AddedTimers(Queue) \ {a}
        /\ OnceEach(Tail(Queue))
    BY <1>1, <1>4, <1>5, TailFunctor
  <2> QED BY <1>4, <2>1, QueueNames
<1> HIDE DEF a
<1>7. heap' = heap /\ heap' \in [Addrs -> TimerObjects] /\ AddTimerInLoop(a, heap')
  BY DEF IInv, TypeOK, a
<1>8. /\ timers_' \in SUBSET Entries /\ activeTimers_' \in SUBSET Ids
      /\ Timers(timers_') = Timers(timers_) \cup {a}
      /\ SetsAgree'
  BY <1>3, <1>7, InsertAgrees
<1>9. TimerfdCovers' /\ armed' \in Nat /\ readable' \in BOOLEAN
  BY <1>3, <1>7, InsertCovers DEF loopVars
<1>10. cancelingTimers_' = cancelingTimers_ /\ expired' = expired /\ todo' = todo
  BY DEF AddTimerInLoop, loopVars
<1>11. TypeOK' /\ Control' /\ AddsStarted'
  BY <1>2, <1>8, <1>9, <1>10
     DEF IInv, TypeOK, Control, AddsStarted, clockVars, loopVars, userVars, histVars
<1>12. SeqsBounded' /\ BatchRan' /\ NoTimerLost'
  BY <1>10 DEF IInv, Books, SeqsBounded, BatchRan, NoTimerLost, histVars
<1>13. TimersOwned'
  <2>1. Live' = Live
    BY <1>7 DEF Live
  <2>2. \A j, k \in QueuedAdds' : Queue'[j].timer = Queue'[k].timer => j = k
    BY <1>6, QueueNames DEF OnceEach
  <2>3. /\ Live = Timers(timers_) \cup Timers(expired) \cup QueuedTimers
        /\ Timers(timers_) \cap Timers(expired) = {}
        /\ (Timers(timers_) \cup Timers(expired)) \cap QueuedTimers = {}
    BY DEF IInv, Books, TimersOwned
  <2>4. /\ Live' = Timers(timers_') \cup Timers(expired) \cup QueuedTimers'
        /\ Timers(timers_') \cap Timers(expired) = {}
        /\ (Timers(timers_') \cup Timers(expired)) \cap QueuedTimers' = {}
    BY <1>6, <1>8, <2>1, <2>3
  <2> QED BY <1>10, <2>2, <2>4 DEF TimersOwned, Timers
<1>14. CancelsNoted'
  <2>1. \A b : Active(b)' = Active(b)
    BY <1>7 DEF Active
  <2>2. Timers(timers_') \cup QueuedTimers' \subseteq Timers(timers_) \cup QueuedTimers
    BY <1>6, <1>8
  <2>3. \A b \in Timers(timers_') \cup QueuedTimers' : Active(b)' \notin cancelKnown
    BY <2>1, <2>2 DEF IInv, Books, CancelsNoted
  <2>4. \A b \in Timers(expired) : Active(b)' \in cancelKnown => Active(b)' \in cancelingTimers_
    BY <2>1 DEF IInv, Books, CancelsNoted
  <2>5. \A id \in cancelKnown : id[2] <= s_numCreated_
    BY DEF IInv, Books, CancelsNoted
  <2> QED BY <1>10, <2>3, <2>4, <2>5 DEF CancelsNoted, Timers, histVars
<1> QED BY <1>8, <1>9, <1>11, <1>12, <1>13, <1>14 DEF IInv, Books

\* A new Timer leaves the others as they are, whether it goes into the sets or
\* into the queue.
LEMMA NewTimerKeeps ==
  ASSUME IInv, NEW a \in Addrs, NEW d \in Delays, NEW i \in Intervals, NewTimer(a, d, i),
         UNCHANGED <<expired, todo, cancelingTimers_, histVars>>,
         Timers(timers_') \cup QueuedTimers' = Timers(timers_) \cup QueuedTimers \cup {a},
         Timers(timers_') \cap QueuedTimers' = {},
         OnceEach(Queue')
  PROVE  SeqsBounded' /\ TimersOwned' /\ BatchRan' /\ NoTimerLost' /\ CancelsNoted'
<1>1. /\ s_numCreated_' = s_numCreated_ + 1 /\ s_numCreated_ \in Nat
      /\ heap'[a].seq = s_numCreated_ + 1 /\ heap[a].seq = 0
      /\ \A b \in Addrs : b # a => heap'[b] = heap[b]
      /\ Live' = Live \cup {a}
      /\ a \notin Timers(timers_) /\ a \notin Timers(expired) /\ a \notin QueuedTimers
      /\ SeqsBounded'
      /\ <<a, s_numCreated_ + 1>> \notin cancelKnown
  BY NewTimerFresh DEF IInv, TypeOK
<1>2. expired' = expired /\ todo' = todo /\ cancelingTimers_' = cancelingTimers_
      /\ ran' = ran /\ cancelReq' = cancelReq /\ cancelKnown' = cancelKnown
  BY DEF histVars
<1>3. \A b \in Timers(timers_) \cup Timers(expired) \cup QueuedTimers :
        b # a /\ b \in Addrs /\ heap'[b] = heap[b] /\ Active(b)' = Active(b)
  BY <1>1, OwnedLive DEF Active
<1>4. TimersOwned'
  <2>1. \A j, k \in QueuedAdds' : Queue'[j].timer = Queue'[k].timer => j = k
    BY QueueNames DEF OnceEach
  <2>2. /\ Live = Timers(timers_) \cup Timers(expired) \cup QueuedTimers
        /\ Timers(timers_) \cap Timers(expired) = {}
        /\ (Timers(timers_) \cup Timers(expired)) \cap QueuedTimers = {}
    BY DEF IInv, Books, TimersOwned
  <2>3. /\ Live' = Timers(timers_') \cup Timers(expired) \cup QueuedTimers'
        /\ Timers(timers_') \cap Timers(expired) = {}
        /\ (Timers(timers_') \cup Timers(expired)) \cap QueuedTimers' = {}
    BY <1>1, <2>2
  <2> QED BY <1>2, <2>1, <2>3 DEF TimersOwned, Timers
<1>5. BatchRan'
  <2> SUFFICES ASSUME NEW e \in expired \ todo PROVE heap'[e.timer].seq \in ran
    BY <1>2 DEF BatchRan
  <2>1. e.timer \in Timers(expired)
    BY DEF Timers
  <2> QED BY <1>3, <2>1 DEF IInv, Books, BatchRan
<1>6. NoTimerLost'
  <2> SUFFICES ASSUME NEW s \in 1 .. s_numCreated_ + 1
               PROVE  s \in ran \/ \E b \in Addrs : heap'[b].seq = s \/ <<b, s>> \in cancelReq
    BY <1>1, <1>2 DEF NoTimerLost
  <2>1. CASE s = s_numCreated_ + 1
    BY <1>1, <2>1
  <2>2. CASE s \in 1 .. s_numCreated_
    <3>1. s # 0
      BY <2>2
    <3> QED BY <1>1, <2>2, <3>1 DEF IInv, Books, NoTimerLost
  <2> QED BY <1>1, <2>1, <2>2
<1>7. CancelsNoted'
  <2>1. Active(a)' \notin cancelKnown
    BY <1>1 DEF Active
  <2>2. \A b \in Timers(timers_') \cup QueuedTimers' : Active(b)' \notin cancelKnown
    <3>1. \A b \in Timers(timers_) \cup QueuedTimers : Active(b) \notin cancelKnown
      BY DEF IInv, Books, CancelsNoted
    <3>2. \A b \in Timers(timers_') \cup QueuedTimers' : b = a \/ b \in Timers(timers_) \cup QueuedTimers
      OBVIOUS
    <3> QED BY <1>3, <2>1, <3>1, <3>2
  <2>3. \A b \in Timers(expired) : Active(b)' \in cancelKnown => Active(b)' \in cancelingTimers_
    BY <1>3 DEF IInv, Books, CancelsNoted
  <2>4. \A id \in cancelKnown : id[2] <= s_numCreated_ + 1
    <3> TAKE id \in cancelKnown
    <3>1. id[2] \in Nat /\ id[2] <= s_numCreated_
      BY DEF IInv, TypeOK, Ids, Books, CancelsNoted
    <3> QED BY <1>1, <3>1
  <2> QED BY <1>1, <1>2, <2>2, <2>3, <2>4 DEF CancelsNoted, Timers
<1> QED BY <1>1, <1>4, <1>5, <1>6, <1>7

\* addTimer() in the loop thread.
LEMMA AddInLoopStep == ASSUME IInv, AddInLoop PROVE IInv'
<1> USE DEF AddInLoop
<1>1. PICK a \in Addrs, d \in Delays, i \in Intervals :
        /\ NewTimer(a, d, i)
        /\ AddTimerInLoop(a, heap')
        /\ ids' = ids \cup {<<a, s_numCreated_ + 1>>}
  OBVIOUS
<1>2. /\ heap' \in [Addrs -> TimerObjects] /\ s_numCreated_' \in 0 .. MaxCreated
      /\ a \notin Timers(timers_) /\ a \notin QueuedTimers
      /\ \A b \in Timers(timers_) : heap'[b] = heap[b]
  BY <1>1, NewTimerFresh, OwnedLive
<1>3. /\ timers_' \in SUBSET Entries /\ activeTimers_' \in SUBSET Ids
      /\ Timers(timers_') = Timers(timers_) \cup {a}
      /\ SetsAgree'
  BY <1>1, <1>2, InsertAgrees
<1>4. TimerfdCovers' /\ armed' \in Nat /\ readable' \in BOOLEAN
  BY <1>1, <1>2, InsertCovers DEF loopVars
<1>5. cancelingTimers_' = cancelingTimers_ /\ expired' = expired /\ todo' = todo
  BY <1>1 DEF AddTimerInLoop, loopVars
<1>6. QueuedTimers' = QueuedTimers /\ OnceEach(Queue')
  <2>1. Queue' = Queue
    BY DEF queueVars, Queue
  <2> QED BY <2>1, QueueNames DEF IInv, Books, TimersOwned, OnceEach
<1>7. SeqsBounded' /\ TimersOwned' /\ BatchRan' /\ NoTimerLost' /\ CancelsNoted'
  <2>1. Timers(timers_') \cap QueuedTimers' = {}
    BY <1>2, <1>3, <1>6, OwnedLive
  <2>2. Timers(timers_') \cup QueuedTimers' = Timers(timers_) \cup QueuedTimers \cup {a}
    BY <1>3, <1>6
  <2> QED BY <1>1, <1>5, <1>6, <2>1, <2>2, NewTimerKeeps
<1>8. ids' \in SUBSET Ids
  BY <1>1 DEF IInv, TypeOK, Ids
<1>9. TypeOK' /\ Control' /\ AddsStarted'
  BY <1>2, <1>3, <1>4, <1>5, <1>8
     DEF IInv, TypeOK, Control, AddsStarted, clockVars, loopVars, queueVars, histVars
<1> QED BY <1>3, <1>4, <1>7, <1>9 DEF IInv, Books

\* addTimer() in another thread, up to queueInLoop().
LEMMA AddFromThreadStep == ASSUME IInv, NEW t \in Threads, AddFromThread(t) PROVE IInv'
<1> USE DEF AddFromThread, setVars, fdVars, clockVars, loopVars, histVars
<1>1. PICK a \in Addrs, d \in Delays, i \in Intervals :
        /\ NewTimer(a, d, i)
        /\ pendingFunctors_' = Append(pendingFunctors_, [op |-> "add", timer |-> a])
        /\ adding' = [adding EXCEPT ![t] = [timer |-> a, seq |-> s_numCreated_ + 1]]
  OBVIOUS
<1> DEFINE f == [op |-> "add", timer |-> a]
<1>2. f \in Functors /\ f.op = "add" /\ f.timer = a
  BY DEF Functors
<1>3. pendingFunctors_ \in Seq(Functors) /\ functors \in Seq(Functors) /\ Queue \in Seq(Functors)
  BY QueueChanges DEF IInv, TypeOK, Queue
<1> HIDE DEF f
<1>4. pendingFunctors_' = Append(pendingFunctors_, f) /\ pendingFunctors_' \in Seq(Functors)
  BY <1>1, <1>2, <1>3, AppendFunctor DEF f
<1>5. Queue' = Append(Queue, f)
  BY <1>2, <1>3, <1>4, QueueChanges DEF Queue
<1>6. /\ heap' \in [Addrs -> TimerObjects] /\ s_numCreated_' \in 0 .. MaxCreated
      /\ a \notin Timers(timers_) /\ a \notin QueuedTimers
      /\ \A b \in Timers(timers_) : b \in Addrs /\ heap'[b] = heap[b]
  BY <1>1, NewTimerFresh, OwnedLive
<1>7. QueuedTimers' = QueuedTimers \cup {a} /\ OnceEach(Queue')
  <2>1. OnceEach(Queue)
    BY QueueNames DEF IInv, Books, TimersOwned, OnceEach
  <2> QED BY <1>2, <1>3, <1>5, <1>6, <2>1, QueueNames, AppendFunctor
<1>8. SeqsBounded' /\ TimersOwned' /\ BatchRan' /\ NoTimerLost' /\ CancelsNoted'
  <2>1. Timers(timers_') \cap QueuedTimers' = {}
    BY <1>6, <1>7, OwnedLive
  <2>2. Timers(timers_') \cup QueuedTimers' = Timers(timers_) \cup QueuedTimers \cup {a}
    BY <1>7
  <2> QED BY <1>1, <1>7, <2>1, <2>2, NewTimerKeeps
<1>9. SetsAgree'
  <2>1. \A e \in timers_ : e.timer \in Timers(timers_) /\ e = Entry(e.timer)
    BY DEF IInv, Books, SetsAgree, Timers
  <2>2. \A e \in timers_ : e = Entry(e.timer)'
    BY <1>6, <2>1 DEF Entry
  <2>3. activeTimers_ = {Active(b) : b \in Timers(timers_)}
    BY DEF IInv, Books, SetsAgree
  <2>4. activeTimers_ = {<<b, heap'[b].seq>> : b \in Timers(timers_)}
    BY <1>6, <2>3 DEF Active
  <2> QED BY <2>2, <2>4 DEF SetsAgree, Active, Timers
<1>10. /\ adding' \in [Threads -> [timer : Addrs \cup {0}, seq : Nat]]
       /\ AddsStarted'
  <2>1. [timer |-> a, seq |-> s_numCreated_ + 1] \in [timer : Addrs \cup {0}, seq : Nat]
    BY DEF IInv, TypeOK
  <2> QED BY <1>1, <2>1 DEF IInv, TypeOK, AddsStarted
<1>11. TypeOK' /\ Control'
  BY <1>4, <1>6, <1>10 DEF IInv, TypeOK, Control
<1>12. TimerfdCovers'
  BY DEF IInv, TimerfdCovers, HowMuchTimeFromNow
<1> QED BY <1>8, <1>9, <1>10, <1>11, <1>12 DEF IInv, Books

-----------------------------------------------------------------------------
(* The theorems. *)

\* The inductive invariant of the TimerQueue.
THEOREM Invariance == Spec => []IInv
<1>1. Init => IInv
  <2> SUFFICES ASSUME Init PROVE IInv
    OBVIOUS
  <2> USE TimerConstants DEF Init
  <2>1. Freed \in TimerObjects /\ Freed.seq = 0
    BY DEF Freed, TimerObjects
  <2>2. NoAdd \in [timer : Addrs \cup {0}, seq : Nat]
    BY DEF NoAdd
  <2>3. <<>> \in Seq(Functors) /\ Queue = <<>> /\ Adds(<<>>) = {}
    BY EmptySeq, ConcatEmptySeq DEF Queue, Adds
  <2>4. TypeOK
    <3>1. /\ heap \in [Addrs -> TimerObjects]
          /\ adding \in [Threads -> [timer : Addrs \cup {0}, seq : Nat]]
      BY <2>1, <2>2
    <3>2. callingExpiredTimers_ = (pc = "expiring")
      OBVIOUS
    <3>3. /\ s_numCreated_ \in 0 .. MaxCreated /\ clockSets \in 0 .. MaxSets
          /\ armed \in Nat /\ now \in Nat /\ handleNow \in Nat
      OBVIOUS
    <3>4. /\ timers_ \in SUBSET Entries /\ expired \in SUBSET Entries /\ todo \in SUBSET expired
          /\ activeTimers_ \in SUBSET Ids /\ cancelingTimers_ \in SUBSET Ids
          /\ ids \in SUBSET Ids /\ ran \in SUBSET Seqs
          /\ cancelReq \in SUBSET Ids /\ cancelKnown \in SUBSET Ids
      OBVIOUS
    <3> QED BY <2>3, <3>1, <3>2, <3>3, <3>4 DEF TypeOK
  <2>5. Control /\ AddsStarted /\ SeqsBounded /\ BatchRan /\ NoTimerLost /\ TimerfdCovers
    BY <2>1 DEF Control, AddsStarted, SeqsBounded, BatchRan, NoTimerLost, TimerfdCovers
  <2>6. QueuedTimers = {} /\ QueuedAdds = {} /\ Live = {} /\ Timers({}) = {}
    BY <2>1, <2>3, QueueNames DEF AddedTimers, Live, Timers
  <2>7. SetsAgree /\ TimersOwned /\ CancelsNoted
    BY <2>6 DEF SetsAgree, TimersOwned, CancelsNoted
  <2> QED BY <2>4, <2>5, <2>7 DEF IInv, Books
<1>2. IInv /\ [Next]_vars => IInv'
  <2> SUFFICES ASSUME IInv, [Next]_vars PROVE IInv'
    OBVIOUS
  <2>1. CASE LoopThread
    BY <2>1, PollStep, HandleReadStep, RunTimerStep, ExpiredDoneStep, EventsDoneStep,
       RunAddStep, RunCancelStep, FunctorsDoneStep DEF LoopThread
  <2>2. CASE AddInLoop \/ CancelFromLoop
    BY <2>2, AddInLoopStep, CancelFromLoopStep
  <2>3. ASSUME NEW t \in Threads, AddFromThread(t) \/ AddReturns(t) \/ CancelFromThread(t)
        PROVE  IInv'
    BY <2>3, AddFromThreadStep, AddReturnsStep, CancelFromThreadStep
  <2>4. CASE Tick \/ SetClock
    BY <2>4, TickStep, SetClockStep
  <2>5. CASE UNCHANGED vars
    <3> USE <2>5 DEF vars, setVars, fdVars, clockVars, loopVars, queueVars, userVars, histVars
    <3>1. TypeOK' /\ Control' /\ AddsStarted'
      BY DEF IInv, TypeOK, Control, AddsStarted
    <3>2. Books'
      BY BooksSame DEF Queue
    <3>3. TimerfdCovers'
      BY DEF IInv, TimerfdCovers, HowMuchTimeFromNow
    <3> QED BY <3>1, <3>2, <3>3 DEF IInv
  <2> QED BY <2>1, <2>2, <2>3, <2>4, <2>5 DEF Next
<1> QED BY <1>1, <1>2, PTL DEF Spec

\* The asserts of TimerQueue.cc and the ownership of the raw Timer pointers: both
\* sets describe the same timers, and a Timer is in exactly one of them, the
\* batch and the queued functors until it is deleted once.
THEOREM HeapIsExact == Spec => []HeapExact
<1>1. IInv => HeapExact
  BY DEF IInv, Books, HeapExact
<1> QED BY <1>1, Invariance, PTL

\* A timer is deleted only after it has run or was cancelled, and while one is
\* scheduled the timerfd goes off no later than the earliest is due.
THEOREM TimersAreKept == Spec => []TimersKept
<1>1. IInv => TimersKept
  BY DEF IInv, Books, TimersKept
<1> QED BY <1>1, Invariance, PTL

\* reset() schedules no timer whose cancellation the queue knew of.
THEOREM CancelledStaysAway == Spec => []CancelledNotRescheduled
<1>1. IInv => CancelledNotRescheduled
  BY DEF IInv, Books, CancelsNoted, CancelledNotRescheduled
<1> QED BY <1>1, Invariance, PTL
=============================================================================
