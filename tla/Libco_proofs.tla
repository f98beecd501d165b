----------------------------- MODULE Libco_proofs -----------------------------
(***************************************************************************)
(* libco's scheduler for any number of coroutines, descriptors, stacks and *)
(* slots: a coroutine on a shared stack finds its frames again, every      *)
(* waiter is in the lists it should be in, once and in the right slot, and *)
(* no poll returns early.                                                  *)
(***************************************************************************)
EXTENDS Libco, SequenceTheorems, FiniteSetTheorems, WellFoundedInduction, TLAPS

\* The call stack is the thread's own context and the running coroutines.
CallStack ==
    /\ pCallStack # <<>> /\ pCallStack[1] = Main /\ Distinct(pCallStack)
    /\ \A co \in Cos : state[co] = "running" <=> co \in ToSet(pCallStack)

\* A coroutine that has frames on a shared stack, or had when it ended.
Started(co) == co \in cIsShareStack /\ state[co] \notin {None, "created"}

\* The frames of each of them are on its stack or in its buffer, as it left them.
FramesKept ==
    /\ \A co \in cIsShareStack : state[co] # None
    /\ \A m \in Mems : occupy_co[m] # None =>
          Started(occupy_co[m]) /\ stack_mem[occupy_co[m]] = m
    /\ \A co \in Cos : Started(co) =>
          /\ occupy_co[stack_mem[co]] # None
          /\ <<co, version[co]>> = IF occupy_co[stack_mem[co]] = co THEN frames[stack_mem[co]]
                                   ELSE save_buffer[co]
    /\ GetCurrCo \in cIsShareStack => occupy_co[stack_mem[GetCurrCo]] = GetCurrCo

CondWaits == Distinct(cond) /\ \A co \in ToSet(cond) : state[co] = "waiting"

\* What the active list holds and why.
ActiveRaised ==
    /\ phase # "drain" => \A co \in InActive : state[co] = "waiting"
    /\ \A co \in InActive : state[co] = "polling" => revents[co] # {} \/ bTimeout[co]
    /\ \A co \in Cos : bTimeout[co] =>
          /\ phase = "drain" /\ co \in InActive /\ ullStart <= now
          /\ now < ullExpireTime[co] => co \in logged

\* How many milliseconds after ullStart the slot i stands for.
Ahead(i) == (i - llStartIdx) % RingSize

\* An item is in the slot of its time, unless that was beyond the ring.
SlotsExact ==
    \A i \in Slots : \A co \in ToSet(pItems[i]) :
        /\ ullStart + Ahead(i) <= ullExpireTime[co]
        /\ co \notin logged => ullStart + Ahead(i) = ullExpireTime[co]

Waiters ==
    /\ WaitersLinked /\ CondWaits /\ ActiveRaised /\ SlotsExact
    /\ SignalNotLost /\ EpollItemsLive

IInv == TypeOK /\ CallStack /\ FramesKept /\ Waiters

-----------------------------------------------------------------------------
(* Numbers. *)

\* A set of naturals that is not empty has a least element.
LEMMA LeastNat ==
  ASSUME NEW S \in SUBSET Nat, S # {}
  PROVE  \E n \in S : \A m \in S : n <= m
<1> DEFINE R == OpToRel(<, Nat)
<1>1. IsWellFoundedOn(R, Nat)
  BY NatLessThanWellFounded
<1>2. \A x, y \in Nat : x < y => <<x, y>> \in R
  BY DEF OpToRel
<1> HIDE DEF R
<1>3. PICK n \in S : \A m \in S : ~ (<<m, n>> \in R)
  BY <1>1, WFMin
<1>4. \A m \in S : n <= m
  <2> TAKE m \in S
  <2>1. m \in Nat /\ n \in Nat
    OBVIOUS
  <2>2. ~ (m < n)
    BY <1>2, <1>3, <2>1, Zenon
  <2> QED BY <2>1, <2>2
<1> QED BY <1>4

\* What is in a set of naturals as soon as all smaller ones are is every natural
\* up to a bound.
LEMMA UpTo ==
  ASSUME NEW b \in Nat, NEW P \in SUBSET Nat, 0 \in P,
         \A n \in Nat : n < b /\ n \in P => n + 1 \in P
  PROVE  \A n \in 0 .. b : n \in P
<1> SUFFICES ASSUME NEW k \in 0 .. b, k \notin P PROVE FALSE
  OBVIOUS
<1> DEFINE S == {n \in 0 .. b : n \notin P}
<1>1. S \in SUBSET Nat /\ S # {}
  OBVIOUS
<1>2. PICK n \in S : \A m \in S : n <= m
  BY <1>1, LeastNat
<1>3. n # 0 /\ n \in 0 .. b /\ n - 1 \in Nat /\ n - 1 < b
  BY <1>2
<1>4. n - 1 \in P
  BY <1>2, <1>3
<1> QED BY <1>2, <1>3, <1>4

\* The places of the ring.
LEMMA Modulo ==
  ASSUME NEW s \in Slots
  PROVE  /\ \A i \in Slots : (i - s) % RingSize = IF i >= s THEN i - s ELSE i - s + RingSize
         /\ \A d \in Slots : (s + d) % RingSize = IF s + d < RingSize THEN s + d ELSE s + d - RingSize
<1>1. RingSize \in Nat \ {0} /\ s \in 0 .. RingSize - 1
  BY LibcoAssumption DEF Slots
<1>2. \A x \in Int : x >= 0 /\ x < RingSize => x % RingSize = x
  BY <1>1
<1>3. \A x \in Int : x >= 0 /\ x < RingSize => (x + RingSize) % RingSize = x
  BY <1>1
<1>4. \A x \in Int : x < 0 /\ x >= -RingSize => x % RingSize = x + RingSize
  BY <1>1
<1> QED BY <1>1, <1>2, <1>3, <1>4 DEF Slots

-----------------------------------------------------------------------------
(* The lists. *)

\* The members of a list.
LEMMA Members ==
  ASSUME NEW S, NEW s \in Seq(S)
  PROVE  /\ DOMAIN s = 1 .. Len(s) /\ Len(s) \in Nat
         /\ \A i \in 1 .. Len(s) : s[i] \in S /\ s[i] \in ToSet(s)
         /\ \A x \in ToSet(s) : x \in S /\ \E i \in 1 .. Len(s) : s[i] = x
         /\ ToSet(s) = {} <=> s = <<>>
<1>1. DOMAIN s = 1 .. Len(s) /\ Len(s) \in Nat /\ \A i \in 1 .. Len(s) : s[i] \in S
  BY LenProperties, ElementOfSeq
<1>2. s # <<>> => 1 \in 1 .. Len(s)
  BY <1>1, EmptySeq
<1>3. ToSet(<<>>) = {}
  BY DEF ToSet
<1> QED BY <1>1, <1>2, <1>3 DEF ToSet

\* AddTail of an item that is not in the list.
LEMMA AddTailFacts ==
  ASSUME NEW S, NEW s \in Seq(S), NEW x \in S
  PROVE  /\ AddTail(s, x) \in Seq(S) /\ ToSet(AddTail(s, x)) = ToSet(s) \cup {x}
         /\ Distinct(s) /\ x \notin ToSet(s) => Distinct(AddTail(s, x))
<1> DEFINE t == Append(s, x)
<1>1. /\ t \in Seq(S) /\ Len(t) = Len(s) + 1 /\ t[Len(s) + 1] = x
      /\ \A i \in 1 .. Len(s) : t[i] = s[i]
  BY AppendProperties
<1>2. Len(s) \in Nat /\ DOMAIN s = 1 .. Len(s) /\ DOMAIN t = 1 .. Len(s) + 1
  BY <1>1, Members
<1>3. \A i \in 1 .. Len(s) + 1 : i \in 1 .. Len(s) \/ i = Len(s) + 1
  BY <1>2
<1> HIDE DEF t
<1>4. ToSet(t) = ToSet(s) \cup {x}
  <2>1. ASSUME NEW y \in ToSet(t) PROVE y \in ToSet(s) \cup {x}
    BY <1>1, <1>2, <1>3, <2>1 DEF ToSet
  <2>2. ASSUME NEW y \in ToSet(s) \cup {x} PROVE y \in ToSet(t)
    <3>1. CASE y = x
      BY <1>1, <1>2, <3>1 DEF ToSet
    <3>2. CASE y \in ToSet(s)
      <4>1. PICK i \in 1 .. Len(s) : s[i] = y
        BY <3>2, <1>2 DEF ToSet
      <4>2. i \in 1 .. Len(s) + 1 /\ t[i] = y
        BY <1>1, <1>2, <4>1
      <4> QED BY <1>2, <4>2 DEF ToSet
    <3> QED BY <2>2, <3>1, <3>2
  <2> QED BY <2>1, <2>2
<1>5. ASSUME Distinct(s), x \notin ToSet(s) PROVE Distinct(t)
  <2> SUFFICES ASSUME NEW i \in 1 .. Len(s) + 1, NEW j \in 1 .. Len(s) + 1, t[i] = t[j]
               PROVE  i = j
    BY <1>2 DEF Distinct
  <2>1. \A k \in 1 .. Len(s) : s[k] # x
    BY <1>2, <1>5 DEF ToSet
  <2>2. CASE i \in 1 .. Len(s) /\ j \in 1 .. Len(s)
    BY <1>1, <1>2, <1>5, <2>2 DEF Distinct
  <2> QED BY <1>1, <1>3, <2>1, <2>2
<1> QED BY <1>1, <1>4, <1>5 DEF AddTail, t

\* PopHead of a list.
LEMMA PopHeadFacts ==
  ASSUME NEW S, NEW s \in Seq(S), s # <<>>, Distinct(s)
  PROVE  /\ Head(s) \in S /\ Head(s) \in ToSet(s) /\ PopHead(s) \in Seq(S)
         /\ ToSet(PopHead(s)) = ToSet(s) \ {Head(s)} /\ Distinct(PopHead(s))
<1> DEFINE t == Tail(s)
<1>1. /\ t \in Seq(S) /\ Len(t) = Len(s) - 1 /\ Head(s) = s[1]
      /\ \A i \in 1 .. Len(t) : t[i] = s[i + 1]
  BY HeadTailProperties
<1>2. Len(s) \in Nat /\ DOMAIN s = 1 .. Len(s) /\ DOMAIN t = 1 .. Len(t) /\ 1 \in 1 .. Len(s)
  BY <1>1, Members, EmptySeq
<1>3. Head(s) \in S /\ Head(s) \in ToSet(s)
  BY <1>1, <1>2, Members
<1>4. \A i, j \in 1 .. Len(s) : s[i] = s[j] => i = j
  BY <1>2 DEF Distinct
<1> HIDE DEF t
<1>5. ToSet(t) = ToSet(s) \ {Head(s)}
  <2>1. ASSUME NEW y \in ToSet(t) PROVE y \in ToSet(s) \ {Head(s)}
    <3>1. PICK i \in 1 .. Len(t) : t[i] = y
      BY <1>2 DEF ToSet
    <3>2. i + 1 \in 1 .. Len(s) /\ s[i + 1] = y /\ i + 1 # 1
      BY <1>1, <1>2, <3>1
    <3> QED BY <1>1, <1>2, <1>4, <3>2 DEF ToSet
  <2>2. ASSUME NEW y \in ToSet(s) \ {Head(s)} PROVE y \in ToSet(t)
    <3>1. PICK i \in 1 .. Len(s) : s[i] = y
      BY <1>2 DEF ToSet
    <3>2. i # 1
      BY <1>1, <2>2, <3>1
    <3>3. i - 1 \in 1 .. Len(t) /\ (i - 1) + 1 = i
      BY <1>1, <1>2, <3>1, <3>2
    <3>4. t[i - 1] = y
      BY <1>1, <3>1, <3>3
    <3> QED BY <1>2, <3>3, <3>4 DEF ToSet
  <2> QED BY <2>1, <2>2
<1>6. Distinct(t)
  <2> SUFFICES ASSUME NEW i \in 1 .. Len(t), NEW j \in 1 .. Len(t), t[i] = t[j] PROVE i = j
    BY <1>2 DEF Distinct
  <2>1. i + 1 \in 1 .. Len(s) /\ j + 1 \in 1 .. Len(s) /\ s[i + 1] = s[j + 1]
    BY <1>1, <1>2
  <2> QED BY <1>4, <2>1
<1> QED BY <1>1, <1>3, <1>5, <1>6 DEF PopHead, t

\* Join of two lists without common items.
LEMMA JoinFacts ==
  ASSUME NEW S, NEW s \in Seq(S), NEW t \in Seq(S)
  PROVE  /\ s \o t \in Seq(S) /\ ToSet(s \o t) = ToSet(s) \cup ToSet(t)
         /\ Distinct(s) /\ Distinct(t) /\ ToSet(s) \cap ToSet(t) = {} => Distinct(s \o t)
<1> DEFINE u == s \o t
<1>1. /\ u \in Seq(S) /\ Len(u) = Len(s) + Len(t)
      /\ \A i \in 1 .. Len(u) : u[i] = IF i <= Len(s) THEN s[i] ELSE t[i - Len(s)]
  BY ConcatProperties
<1>2. /\ Len(s) \in Nat /\ Len(t) \in Nat /\ DOMAIN s = 1 .. Len(s) /\ DOMAIN t = 1 .. Len(t)
      /\ DOMAIN u = 1 .. Len(u)
  BY <1>1, Members
<1> HIDE DEF u
<1>3. ASSUME NEW i \in 1 .. Len(u)
      PROVE  \/ i \in 1 .. Len(s) /\ u[i] = s[i]
             \/ i - Len(s) \in 1 .. Len(t) /\ u[i] = t[i - Len(s)]
  BY <1>1, <1>2
<1>4. ToSet(u) = ToSet(s) \cup ToSet(t)
  <2>1. ASSUME NEW y \in ToSet(u) PROVE y \in ToSet(s) \cup ToSet(t)
    BY <1>2, <1>3 DEF ToSet
  <2>2. ASSUME NEW y \in ToSet(s) PROVE y \in ToSet(u)
    <3>1. PICK i \in 1 .. Len(s) : s[i] = y
      BY <1>2 DEF ToSet
    <3>2. i \in 1 .. Len(u) /\ u[i] = y
      BY <1>1, <1>2, <3>1
    <3> QED BY <1>2, <3>2 DEF ToSet
  <2>3. ASSUME NEW y \in ToSet(t) PROVE y \in ToSet(u)
    <3>1. PICK i \in 1 .. Len(t) : t[i] = y
      BY <1>2 DEF ToSet
    <3>2. /\ i + Len(s) \in 1 .. Len(u) /\ ~(i + Len(s) <= Len(s)) /\ (i + Len(s)) - Len(s) = i
      BY <1>1, <1>2, <3>1
    <3>3. u[i + Len(s)] = y
      BY <1>1, <3>1, <3>2
    <3> QED BY <1>2, <3>2, <3>3 DEF ToSet
  <2> QED BY <2>1, <2>2, <2>3
<1>5. ASSUME Distinct(s), Distinct(t), ToSet(s) \cap ToSet(t) = {} PROVE Distinct(u)
  <2> SUFFICES ASSUME NEW i \in 1 .. Len(u), NEW j \in 1 .. Len(u), u[i] = u[j] PROVE i = j
    BY <1>2 DEF Distinct
  <2>1. \A k \in 1 .. Len(s), l \in 1 .. Len(t) : s[k] # t[l]
    BY <1>2, <1>5 DEF ToSet
  <2>2. CASE i \in 1 .. Len(s) /\ j \in 1 .. Len(s) /\ u[i] = s[i] /\ u[j] = s[j]
    BY <1>2, <1>5, <2>2 DEF Distinct
  <2>3. CASE /\ i - Len(s) \in 1 .. Len(t) /\ u[i] = t[i - Len(s)]
             /\ j - Len(s) \in 1 .. Len(t) /\ u[j] = t[j - Len(s)]
    <3>1. i - Len(s) = j - Len(s)
      BY <1>2, <1>5, <2>3 DEF Distinct
    <3> QED BY <1>1, <1>2, <3>1
  <2> QED BY <1>3, <2>1, <2>2, <2>3
<1> QED BY <1>1, <1>4, <1>5 DEF u

\* How many of the positions in K are at most i.
Rank(K, i) == Cardinality({j \in K : j <= i})

\* Every rank up to the number of positions is the rank of one of them.
LEMMA Ranks ==
  ASSUME NEW n \in Nat, NEW K \in SUBSET (1 .. n)
  PROVE  /\ IsFiniteSet(K) /\ Cardinality(K) \in Nat
         /\ \A i \in K : Rank(K, i) \in 1 .. Cardinality(K)
         /\ \A k \in 1 .. Cardinality(K) : \E i \in K : Rank(K, i) = k
         /\ \A i, j \in K : Rank(K, i) = Rank(K, j) => i = j
<1> DEFINE T(i) == {j \in K : j <= i}
<1>0. K \subseteq 1 .. n /\ \A j \in K : j \in Nat /\ 1 <= j /\ j <= n
  OBVIOUS
<1>1. IsFiniteSet(K) /\ Cardinality(K) \in Nat
  <2>1. IsFiniteSet(1 .. n)
    BY FS_Interval
  <2>2. IsFiniteSet(K)
    BY <1>0, <2>1, FS_Subset
  <2> QED BY <2>2, FS_CardinalityType
<1>2. ASSUME NEW i \in 0 .. n
      PROVE  IsFiniteSet(T(i)) /\ Cardinality(T(i)) \in Nat /\ Cardinality(T(i)) <= Cardinality(K)
  <2>1. T(i) \in SUBSET K
    OBVIOUS
  <2> HIDE DEF T
  <2>2. IsFiniteSet(T(i)) /\ Cardinality(T(i)) <= Cardinality(K)
    BY <1>1, <2>1, FS_Subset
  <2> QED BY <2>2, FS_CardinalityType
<1>3. ASSUME NEW i \in 1 .. n
      PROVE  Cardinality(T(i)) = IF i \in K THEN Cardinality(T(i - 1)) + 1 ELSE Cardinality(T(i - 1))
  <2>0. i - 1 \in 0 .. n /\ \A j \in K : j <= i <=> j <= i - 1 \/ j = i
    BY <1>0
  <2>1. CASE i \in K
    <3>1. T(i) = T(i - 1) \cup {i}
      BY <1>0, <2>0, <2>1
    <3>2. i \notin T(i - 1)
      OBVIOUS
    <3>3. IsFiniteSet(T(i - 1))
      BY <1>2, <2>0
    <3> HIDE DEF T
    <3> QED BY <2>1, <3>1, <3>2, <3>3, FS_AddElement
  <2>2. CASE i \notin K
    <3>1. \A j \in K : j <= i <=> j <= i - 1
      BY <2>0, <2>2
    <3>2. T(i) = T(i - 1)
      BY <3>1
    <3> HIDE DEF T
    <3> QED BY <2>2, <3>2
  <2> QED BY <2>1, <2>2
<1>4. T(0) = {} /\ T(n) = K /\ Cardinality(T(0)) = 0
  <2>1. T(0) = {}
    <3>1. \A j \in K : ~(j <= 0)
      BY <1>0
    <3> QED BY <3>1
  <2>2. T(n) = K
    BY <1>0
  <2> QED BY <2>1, <2>2, FS_EmptySet
<1>5. ASSUME NEW i \in K, NEW j \in K, i < j PROVE Cardinality(T(i)) < Cardinality(T(j))
  <2>1. T(i) \in SUBSET T(j)
    <3>1. \A m \in K : m <= i => m <= j
      BY <1>0, <1>5
    <3> QED BY <3>1
  <2>2. j \in T(j) /\ j \notin T(i)
    BY <1>0, <1>5
  <2>3. i \in 0 .. n /\ j \in 0 .. n
    BY <1>0
  <2>4. IsFiniteSet(T(j)) /\ Cardinality(T(i)) \in Nat /\ Cardinality(T(j)) \in Nat
    BY <1>2, <2>3
  <2> HIDE DEF T
  <2>5. T(j) # T(i)
    BY <2>2
  <2>6. Cardinality(T(i)) <= Cardinality(T(j)) /\ Cardinality(T(j)) # Cardinality(T(i))
    BY <2>1, <2>4, <2>5, FS_Subset
  <2> QED BY <2>4, <2>6
<1> HIDE DEF T
<1>6. ASSUME NEW k \in 1 .. Cardinality(K) PROVE \E i \in K : Cardinality(T(i)) = k
  <2> DEFINE B == {i \in 0 .. n : Cardinality(T(i)) >= k}
  <2>1. B \in SUBSET Nat /\ n \in B
    BY <1>1, <1>4
  <2>2. PICK i \in B : \A m \in B : i <= m
    BY <2>1, LeastNat
  <2>3. i # 0 /\ i \in 1 .. n /\ i - 1 \in 0 .. n /\ i - 1 < i
    BY <1>4, <2>2
  <2>4. i - 1 \notin B
    BY <2>2, <2>3
  <2>5. ~(Cardinality(T(i - 1)) >= k)
    BY <2>3, <2>4
  <2>6. Cardinality(T(i)) >= k /\ Cardinality(T(i)) \in Nat /\ Cardinality(T(i - 1)) \in Nat
    BY <1>2, <2>2, <2>3
  <2>7. i \in K /\ Cardinality(T(i)) = k
    BY <1>1, <1>3, <2>3, <2>5, <2>6
  <2> QED BY <2>7
<1>7. ASSUME NEW i \in K PROVE Cardinality(T(i)) \in 1 .. Cardinality(K)
  <2>1. i \in 1 .. n /\ i - 1 \in 0 .. n /\ i \in 0 .. n
    BY <1>0
  <2>2. Cardinality(T(i)) = Cardinality(T(i - 1)) + 1
    BY <1>3, <2>1
  <2>3. /\ Cardinality(T(i - 1)) \in Nat /\ Cardinality(T(i)) \in Nat
        /\ Cardinality(T(i)) <= Cardinality(K)
    BY <1>2, <2>1
  <2> QED BY <1>1, <2>2, <2>3
<1>8. ASSUME NEW i \in K, NEW j \in K, Cardinality(T(i)) = Cardinality(T(j)) PROVE i = j
  <2>1. Cardinality(T(i)) \in Nat /\ i \in Nat /\ j \in Nat
    BY <1>0, <1>1, <1>7
  <2>2. ~(i < j) /\ ~(j < i)
    BY <1>5, <1>8, <2>1
  <2> QED BY <2>1, <2>2
<1>9. \A i : Rank(K, i) = Cardinality(T(i))
  BY DEF Rank, T
<1> QED BY <1>1, <1>6, <1>7, <1>8, <1>9

\* The items at some positions of a list.
LEMMA SublistFacts ==
  ASSUME NEW S, NEW s \in Seq(S), NEW K \in SUBSET DOMAIN s
  PROVE  /\ Sublist(s, K) \in Seq(S)
         /\ ToSet(Sublist(s, K)) = {s[i] : i \in K}
         /\ (\A i, j \in K : s[i] = s[j] => i = j) => Distinct(Sublist(s, K))
<1> DEFINE n == Cardinality(K)
           p(k) == CHOOSE i \in K : Rank(K, i) = k
           t == Sublist(s, K)
<1>1. /\ n \in Nat /\ \A i \in K : Rank(K, i) \in 1 .. n
      /\ \A k \in 1 .. n : \E i \in K : Rank(K, i) = k
      /\ \A i, j \in K : Rank(K, i) = Rank(K, j) => i = j
  <2>1. K \in SUBSET (1 .. Len(s)) /\ Len(s) \in Nat
    BY Members
  <2> QED BY <2>1, Ranks
<1>2. \A k \in 1 .. n : p(k) \in K /\ Rank(K, p(k)) = k
  BY <1>1
<1>3. t = [k \in 1 .. n |-> s[p(k)]]
  BY DEF Sublist, Rank
<1>4. \A i \in K : s[i] \in S
  BY Members
<1> HIDE DEF n, p, t
<1>5. /\ t \in Seq(S) /\ DOMAIN t = 1 .. n /\ \A k \in 1 .. n : t[k] = s[p(k)]
  BY <1>1, <1>2, <1>3, <1>4
<1>6. ToSet(t) = {s[i] : i \in K}
  <2>1. ASSUME NEW i \in K PROVE s[i] \in ToSet(t)
    <3>1. Rank(K, i) \in 1 .. n /\ p(Rank(K, i)) = i
      BY <1>1, <1>2
    <3>2. t[Rank(K, i)] = s[i]
      BY <1>5, <3>1
    <3> QED BY <1>5, <3>1, <3>2 DEF ToSet
  <2>2. ASSUME NEW x \in ToSet(t) PROVE x \in {s[i] : i \in K}
    BY <1>2, <1>5 DEF ToSet
  <2> QED BY <2>1, <2>2
<1>7. ASSUME \A i, j \in K : s[i] = s[j] => i = j PROVE Distinct(t)
  <2> SUFFICES ASSUME NEW k \in 1 .. n, NEW l \in 1 .. n, t[k] = t[l] PROVE k = l
    BY <1>5 DEF Distinct
  <2>1. p(k) = p(l)
    BY <1>2, <1>5, <1>7
  <2>2. Rank(K, p(k)) = k /\ Rank(K, p(l)) = l
    BY <1>2
  <2> QED BY <2>1, <2>2
<1> QED BY <1>5, <1>6, <1>7 DEF t

\* Unlinking items from a list.
LEMMA WithoutFacts ==
  ASSUME NEW S, NEW s \in Seq(S), NEW gone
  PROVE  /\ Without(s, gone) \in Seq(S) /\ ToSet(Without(s, gone)) = ToSet(s) \ gone
         /\ Distinct(s) => Distinct(Without(s, gone))
<1> DEFINE K == {i \in DOMAIN s : s[i] \notin gone}
<1>1. K \in SUBSET DOMAIN s /\ Without(s, gone) = Sublist(s, K)
  BY DEF Without
<1>2. {s[i] : i \in K} = ToSet(s) \ gone
  BY DEF ToSet
<1>3. Distinct(s) => \A i, j \in K : s[i] = s[j] => i = j
  BY DEF Distinct
<1> HIDE DEF K
<1> QED BY <1>1, <1>2, <1>3, SublistFacts

\* The slot that is d places after first.
Slot(first, d) == (first + d) % RingSize

\* Counting on from a slot gives a slot.
LEMMA SlotType ==
  ASSUME NEW first \in Slots, NEW d \in Nat
  PROVE  Slot(first, d) \in Slots
BY LibcoAssumption DEF Slot, Slots

\* The join of the first slots, one after the other: the equations that define it
\* have a solution.
LEMMA JoinedEquations ==
  ASSUME NEW items \in [Slots -> Seq(Cos)], NEW first \in Slots
  PROVE  \E f \in [0 .. RingSize -> Seq(Cos)] :
            f = [n \in 0 .. RingSize |->
                    IF n = 0 THEN <<>> ELSE f[n - 1] \o items[(first + n - 1) % RingSize]]
<1> DEFINE Fits(f, b) == /\ f \in [0 .. b -> Seq(Cos)] /\ f[0] = <<>>
                         /\ \A n \in 1 .. b : f[n] = f[n - 1] \o items[(first + n - 1) % RingSize]
           P == {b \in Nat : \E f : Fits(f, b)}
<1>0. RingSize \in Nat
  BY LibcoAssumption
<1>1. 0 \in P
  <2>1. Fits([n \in 0 .. 0 |-> <<>>], 0)
    OBVIOUS
  <2> QED BY <2>1
<1>2. ASSUME NEW b \in Nat, b \in P PROVE b + 1 \in P
  <2>1. PICK f : Fits(f, b)
    BY <1>2
  <2> DEFINE more == items[(first + (b + 1) - 1) % RingSize]
             g == [n \in 0 .. b + 1 |-> IF n = b + 1 THEN f[b] \o more ELSE f[n]]
  <2>2. more \in Seq(Cos)
    <3>1. (first + (b + 1) - 1) % RingSize \in Slots
      BY LibcoAssumption DEF Slots
    <3> QED BY <3>1
  <2>3. f[b] \in Seq(Cos)
    BY <2>1
  <2>4. f[b] \o more \in Seq(Cos)
    BY <2>2, <2>3
  <2>5. g \in [0 .. b + 1 -> Seq(Cos)] /\ g[0] = <<>>
    BY <2>1, <2>4
  <2>6. ASSUME NEW n \in 1 .. b + 1
        PROVE  g[n] = g[n - 1] \o items[(first + n - 1) % RingSize]
    <3>1. CASE n = b + 1
      <4>1. b \in 0 .. b + 1 /\ b # b + 1 /\ b + 1 \in 0 .. b + 1 /\ (b + 1) - 1 = b
        OBVIOUS
      <4>2. g[b] = f[b] /\ g[b + 1] = f[b] \o more
        BY <4>1
      <4> HIDE DEF g
      <4> QED BY <3>1, <4>1, <4>2
    <3>2. CASE n # b + 1
      <4>1. n \in 1 .. b /\ n - 1 \in 0 .. b + 1 /\ n - 1 # b + 1 /\ n \in 0 .. b + 1
        BY <3>2
      <4>2. g[n] = f[n] /\ g[n - 1] = f[n - 1]
        BY <4>1
      <4> QED BY <2>1, <4>1, <4>2
    <3> QED BY <3>1, <3>2
  <2> HIDE DEF g
  <2>7. Fits(g, b + 1)
    BY <2>5, <2>6
  <2>8. b + 1 \in Nat
    OBVIOUS
  <2> HIDE DEF Fits
  <2> QED BY <2>7, <2>8
<1>3. RingSize \in P
  <2> HIDE DEF P
  <2>1. P \in SUBSET Nat
    BY DEF P
  <2>2. \A n \in 0 .. RingSize : n \in P
    BY <1>0, <1>1, <1>2, <2>1, UpTo
  <2> QED BY <1>0, <2>2
<1>4. PICK f : Fits(f, RingSize)
  BY <1>3
<1>5. f = [n \in 0 .. RingSize |->
             IF n = 0 THEN <<>> ELSE f[n - 1] \o items[(first + n - 1) % RingSize]]
  <2>1. \A n \in 0 .. RingSize :
          f[n] = IF n = 0 THEN <<>> ELSE f[n - 1] \o items[(first + n - 1) % RingSize]
    <3> SUFFICES ASSUME NEW n \in 0 .. RingSize
                 PROVE  f[n] = IF n = 0 THEN <<>> ELSE f[n - 1] \o items[(first + n - 1) % RingSize]
      OBVIOUS
    <3>1. n # 0 => n \in 1 .. RingSize
      BY <1>0
    <3> QED BY <1>4, <3>1
  <2> QED BY <1>4, <2>1
<1> QED BY <1>4, <1>5

\* Joining slots that have no item in common gives each of their items once.
LEMMA JoinSlotsFacts ==
  ASSUME NEW items \in [Slots -> Seq(Cos)], NEW first \in Slots, NEW cnt \in 0 .. RingSize,
         \A i \in Slots : Distinct(items[i]),
         \A i, j \in Slots : i # j => ToSet(items[i]) \cap ToSet(items[j]) = {}
  PROVE  /\ JoinSlots(items, first, cnt) \in Seq(Cos) /\ Distinct(JoinSlots(items, first, cnt))
         /\ ToSet(JoinSlots(items, first, cnt)) =
               UNION {ToSet(items[Slot(first, d)]) : d \in 0 .. cnt - 1}
<1> DEFINE Eq(f) == f = [n \in 0 .. RingSize |->
                IF n = 0 THEN <<>> ELSE f[n - 1] \o items[(first + n - 1) % RingSize]]
           J == CHOOSE f : Eq(f)
           Got(n) == UNION {ToSet(items[Slot(first, d)]) : d \in 0 .. n - 1}
           P == {n \in 0 .. RingSize : /\ J[n] \in Seq(Cos) /\ Distinct(J[n]) /\ ToSet(J[n]) = Got(n)}
<1>0. RingSize \in Nat \ {0}
  BY LibcoAssumption
<1>1. JoinSlots(items, first, cnt) = J[cnt]
  BY DEF JoinSlots
<1>2. Eq(J)
  <2>1. \E f : Eq(f)
    <3>1. PICK f \in [0 .. RingSize -> Seq(Cos)] :
            f = [n \in 0 .. RingSize |->
                    IF n = 0 THEN <<>> ELSE f[n - 1] \o items[(first + n - 1) % RingSize]]
      BY JoinedEquations
    <3>2. Eq(f)
      BY <3>1
    <3> HIDE DEF Eq
    <3> QED BY <3>2
  <2> HIDE DEF Eq
  <2> QED BY <2>1
<1> HIDE DEF J
<1>3. /\ J[0] = <<>>
      /\ \A n \in 0 .. RingSize - 1 : J[n + 1] = J[n] \o items[Slot(first, n)]
  <2>1. J[0] = <<>>
    BY <1>0, <1>2
  <2>2. ASSUME NEW n \in 0 .. RingSize - 1 PROVE J[n + 1] = J[n] \o items[Slot(first, n)]
    <3>1. n + 1 \in 0 .. RingSize /\ n + 1 # 0 /\ (n + 1) - 1 = n /\ first + (n + 1) - 1 = first + n
      BY <1>0 DEF Slots
    <3>2. J[n + 1] = J[(n + 1) - 1] \o items[(first + (n + 1) - 1) % RingSize]
      BY <1>2, <3>1
    <3> QED BY <3>1, <3>2 DEF Slot
  <2> QED BY <2>1, <2>2
<1> HIDE DEF Eq
<1>4. 0 \in P
  <2>1. <<>> \in Seq(Cos) /\ Distinct(<<>>) /\ ToSet(<<>>) = {}
    BY DEF Distinct, ToSet
  <2>2. Got(0) = {}
    OBVIOUS
  <2>3. 0 \in 0 .. RingSize
    BY <1>0
  <2> HIDE DEF Got
  <2> QED BY <1>3, <2>1, <2>2, <2>3
<1>5. ASSUME NEW n \in Nat, n < RingSize, n \in P PROVE n + 1 \in P
  <2>1. n \in 0 .. RingSize - 1 /\ n \in Slots /\ n + 1 \in 0 .. RingSize
    BY <1>0, <1>5 DEF Slots
  <2> DEFINE k == Slot(first, n)
  <2>2. k \in Slots
    BY SlotType
  <2>3. ASSUME NEW d \in 0 .. n - 1 PROVE Slot(first, d) # k /\ Slot(first, d) \in Slots
    <3>1. d \in Slots /\ d # n /\ d \in Nat
      BY <1>0, <2>1 DEF Slots
    <3>2. /\ Slot(first, d) = IF first + d < RingSize THEN first + d ELSE first + d - RingSize
          /\ k = IF first + n < RingSize THEN first + n ELSE first + n - RingSize
      BY <2>1, <3>1, Modulo DEF Slot
    <3>3. first \in Nat /\ first < RingSize /\ d < RingSize /\ n < RingSize
      BY <1>0, <2>1, <3>1 DEF Slots
    <3>4. Slot(first, d) \in Slots
      BY <3>1, SlotType
    <3> QED BY <1>0, <3>1, <3>2, <3>3, <3>4
  <2>4. /\ J[n] \in Seq(Cos) /\ Distinct(J[n]) /\ ToSet(J[n]) = Got(n)
    BY <1>5
  <2> HIDE DEF k
  <2>5. ToSet(J[n]) \cap ToSet(items[k]) = {}
    BY <2>2, <2>3, <2>4
  <2>6. Got(n + 1) = Got(n) \cup ToSet(items[k])
    <3>1. \A d : d \in 0 .. (n + 1) - 1 <=> d \in 0 .. n - 1 \/ d = n
      BY <2>1
    <3>2. ASSUME NEW x \in Got(n + 1) PROVE x \in Got(n) \cup ToSet(items[k])
      BY <3>1 DEF k
    <3>3. ASSUME NEW x \in Got(n) \cup ToSet(items[k]) PROVE x \in Got(n + 1)
      BY <3>1 DEF k
    <3> QED BY <3>2, <3>3
  <2>7. J[n + 1] = J[n] \o items[k]
    BY <1>3, <2>1 DEF k
  <2>8. /\ J[n + 1] \in Seq(Cos) /\ Distinct(J[n + 1])
        /\ ToSet(J[n + 1]) = ToSet(J[n]) \cup ToSet(items[k])
    BY <2>2, <2>4, <2>5, <2>7, JoinFacts
  <2> HIDE DEF Got
  <2> QED BY <2>1, <2>4, <2>6, <2>8
<1>6. cnt \in P
  <2>1. P \in SUBSET Nat
    BY <1>0
  <2> HIDE DEF P
  <2>2. \A n \in 0 .. RingSize : n \in P
    BY <1>0, <1>4, <1>5, <2>1, UpTo
  <2> QED BY <2>2
<1> HIDE DEF Got
<1>7. J[cnt] \in Seq(Cos) /\ Distinct(J[cnt]) /\ ToSet(J[cnt]) = Got(cnt)
  BY <1>6
<1> QED BY <1>1, <1>7 DEF Got

\* The polls that events concern are detached once each.
LEMMA DetachedFacts ==
  ASSUME NEW events \in Seq(Fds), \A i \in DOMAIN events : epoll[events[i]] \in Cos
  PROVE  /\ Detached(events) \in Seq(Cos) /\ Distinct(Detached(events))
         /\ ToSet(Detached(events)) = {epoll[fd] : fd \in ToSet(events)}
<1> DEFINE s == [i \in DOMAIN events |-> epoll[events[i]]]
           K == {i \in DOMAIN events : \A j \in 1 .. i - 1 : epoll[events[j]] # epoll[events[i]]}
<1>1. DOMAIN events = 1 .. Len(events) /\ Len(events) \in Nat
  BY Members
<1>2. s \in Seq(Cos) /\ DOMAIN s = DOMAIN events
  BY <1>1
<1>3. K \in SUBSET DOMAIN s /\ Detached(events) = Sublist(s, K)
  BY DEF Detached
<1>4. \A i, j \in K : s[i] = s[j] => i = j
  <2> SUFFICES ASSUME NEW i \in K, NEW j \in K, s[i] = s[j] PROVE i = j
    OBVIOUS
  <2>1. i \in 1 .. Len(events) /\ j \in 1 .. Len(events)
    BY <1>1
  <2>2. epoll[events[i]] = epoll[events[j]]
    BY <1>1, <2>1
  <2>3. ~(i \in 1 .. j - 1) /\ ~(j \in 1 .. i - 1)
    BY <2>2
  <2> QED BY <1>1, <2>1, <2>3
<1>5. ASSUME NEW i \in 1 .. Len(events) PROVE \E k \in K : s[k] = s[i]
  <2> DEFINE B == {j \in 1 .. Len(events) : epoll[events[j]] = epoll[events[i]]}
  <2>1. B \in SUBSET Nat /\ i \in B
    OBVIOUS
  <2>2. PICK k \in B : \A m \in B : k <= m
    BY <2>1, LeastNat
  <2>3. \A j \in 1 .. k - 1 : j \notin B /\ j \in 1 .. Len(events)
    BY <1>1, <2>2
  <2>4. k \in K /\ s[k] = s[i]
    BY <1>1, <2>2, <2>3
  <2> QED BY <2>4
<1>6. {s[k] : k \in K} = {epoll[fd] : fd \in ToSet(events)}
  <2>1. ASSUME NEW k \in K PROVE s[k] \in {epoll[fd] : fd \in ToSet(events)}
    BY DEF ToSet
  <2>2. ASSUME NEW fd \in ToSet(events) PROVE epoll[fd] \in {s[k] : k \in K}
    <3>1. PICK i \in 1 .. Len(events) : events[i] = fd
      BY <1>1 DEF ToSet
    <3>2. s[i] = epoll[fd]
      BY <1>1, <3>1
    <3> HIDE DEF s, K
    <3> QED BY <1>5, <3>2
  <2> QED BY <2>1, <2>2
<1> HIDE DEF s, K
<1>7. /\ Sublist(s, K) \in Seq(Cos) /\ ToSet(Sublist(s, K)) = {s[i] : i \in K}
      /\ Distinct(Sublist(s, K))
  BY <1>2, <1>3, <1>4, SublistFacts
<1> QED BY <1>3, <1>6, <1>7

-----------------------------------------------------------------------------
(* Shared stacks. *)

\* The frames of d are where they are looked for: occ is the occupant of its stack,
\* on the bytes there, buf its buffer and v its version.
Found(d, occ, on, buf, v) == occ # None /\ <<d, v>> = IF occ = d THEN on ELSE buf

StackTypes ==
    /\ pCallStack \in Seq(Cos \cup {Main}) /\ alloc_idx \in Mems /\ stack_mem \in [Cos -> Mems]
    /\ cIsShareStack \in SUBSET Cos /\ occupy_co \in [Mems -> Cos \cup {None}]
    /\ save_buffer \in [Cos -> Bytes] /\ frames \in [Mems -> Bytes]
    /\ version \in [Cos -> {0, 1}]

\* co_swap leaves everyone's frames where they will be looked for, those of the
\* coroutine it enters on its stack.
LEMMA SwapFacts ==
  ASSUME StackTypes, FramesKept, UNCHANGED <<cIsShareStack, alloc_idx, stack_mem>>,
         NEW curr \in Cos \cup {Main}, NEW pending \in Cos \cup {Main}, pending # curr, NEW fresh \in BOOLEAN,
         curr \in cIsShareStack => Started(curr) /\ occupy_co[stack_mem[curr]] = curr,
         pending \in cIsShareStack => Started(pending) \/ (fresh /\ state[pending] = "created"),
         fresh => ~Started(pending),
         co_swap(curr, pending, fresh)
  PROVE  /\ occupy_co' \in [Mems -> Cos \cup {None}] /\ save_buffer' \in [Cos -> Bytes]
         /\ frames' \in [Mems -> Bytes] /\ version' \in [Cos -> {0, 1}]
         /\ \A m \in Mems : \/ occupy_co'[m] = occupy_co[m]
                            \/ occupy_co'[m] = pending /\ pending \in cIsShareStack /\ m = stack_mem[pending]
         /\ pending \in cIsShareStack => occupy_co'[stack_mem[pending]] = pending
         /\ \A d \in Cos : Started(d) \/ (d = pending /\ d \in cIsShareStack) =>
               Found(d, occupy_co'[stack_mem[d]], frames'[stack_mem[d]], save_buffer'[d], version'[d])
<1> DEFINE left == LeftBehind(curr)
<1>0. /\ stack_mem \in [Cos -> Mems] /\ cIsShareStack \in SUBSET Cos
      /\ occupy_co \in [Mems -> Cos \cup {None}] /\ save_buffer \in [Cos -> Bytes]
      /\ frames \in [Mems -> Bytes] /\ version \in [Cos -> {0, 1}]
  BY DEF StackTypes
<1>1. /\ \A m \in Mems : occupy_co[m] # None => Started(occupy_co[m]) /\ stack_mem[occupy_co[m]] = m
      /\ \A d \in Cos : Started(d) =>
            Found(d, occupy_co[stack_mem[d]], frames[stack_mem[d]], save_buffer[d], version[d])
  BY DEF FramesKept, Found
<1>2. /\ version' \in [Cos -> {0, 1}] /\ \A d \in Cos : d # curr => version'[d] = version[d]
      /\ curr \in cIsShareStack => version'[curr] = 1 - version[curr]
      /\ curr \notin cIsShareStack => version' = version
  <2>1. version' = IF curr \in cIsShareStack THEN [version EXCEPT ![curr] = 1 - version[curr]] ELSE version
    BY DEF co_swap
  <2>2. curr \in cIsShareStack => curr \in Cos /\ 1 - version[curr] \in {0, 1}
    BY <1>0
  <2> QED BY <1>0, <2>1, <2>2
<1>3. /\ left \in [Mems -> Bytes]
      /\ \A d \in Cos : Started(d) /\ occupy_co[stack_mem[d]] = d => left[stack_mem[d]] = <<d, version'[d]>>
  <2>1. CASE curr \in cIsShareStack
    <3>1. curr \in Cos /\ stack_mem[curr] \in Mems /\ frames[stack_mem[curr]] = <<curr, version[curr]>>
      BY <1>0, <1>1, <2>1 DEF Found
    <3>2. left = [frames EXCEPT ![stack_mem[curr]] = <<curr, version'[curr]>>]
      BY <1>0, <1>2, <2>1, <3>1 DEF LeftBehind
    <3>3. <<curr, version'[curr]>> \in Bytes
      BY <1>2, <3>1 DEF Bytes
    <3> HIDE DEF left
    <3>4. ASSUME NEW d \in Cos, Started(d), occupy_co[stack_mem[d]] = d
          PROVE  left[stack_mem[d]] = <<d, version'[d]>>
      <4>1. CASE d = curr
        BY <1>0, <3>1, <3>2, <4>1
      <4>2. CASE d # curr
        <5>1. stack_mem[d] # stack_mem[curr] /\ stack_mem[d] \in Mems
          BY <1>0, <2>1, <3>4, <4>2
        <5>2. frames[stack_mem[d]] = <<d, version[d]>>
          BY <1>1, <3>4 DEF Found
        <5> QED BY <1>0, <1>2, <3>2, <4>2, <5>1, <5>2
      <4> QED BY <4>1, <4>2
    <3> QED BY <1>0, <3>2, <3>3, <3>4
  <2>2. CASE curr \notin cIsShareStack
    <3>1. left = frames /\ version' = version
      BY <1>2, <2>2 DEF LeftBehind
    <3> QED BY <1>0, <1>1, <3>1 DEF Found
  <2> QED BY <2>1, <2>2
<1>4. ASSUME NEW d \in Cos, Started(d), occupy_co[stack_mem[d]] # d
      PROVE  save_buffer[d] = <<d, version'[d]>> /\ occupy_co[stack_mem[d]] # None
  <2>1. d # curr
    BY <1>4 DEF Started
  <2> QED BY <1>1, <1>2, <1>4, <2>1 DEF Found
<1>5. CASE pending \notin cIsShareStack
  <2>1. frames' = left /\ occupy_co' = occupy_co /\ save_buffer' = save_buffer
    BY <1>5 DEF co_swap
  <2>2. \A d \in Cos : Started(d) => occupy_co[stack_mem[d]] # None
    BY <1>1 DEF Found
  <2> HIDE DEF left
  <2> QED BY <1>0, <1>2, <1>3, <1>4, <1>5, <2>1, <2>2 DEF Found
<1>6. CASE pending \in cIsShareStack
  <2> DEFINE mem == stack_mem[pending]
             occupy == occupy_co[mem]
  <2>1. /\ occupy_co' = [occupy_co EXCEPT ![mem] = pending]
        /\ save_buffer' = IF SaveNeeded(occupy, pending)
                          THEN [save_buffer EXCEPT ![occupy] = left[mem]] ELSE save_buffer
        /\ frames' = IF fresh THEN [left EXCEPT ![mem] = <<pending, version[pending]>>]
                     ELSE IF RestoreNeeded(occupy, pending)
                     THEN [left EXCEPT ![mem] = save_buffer[pending]] ELSE left
    BY <1>6 DEF co_swap
  <2>2. pending \in Cos /\ mem \in Mems /\ occupy \in Cos \cup {None} /\ pending # None
    BY <1>0, <1>6, LibcoAssumption
  <2>3. version'[pending] = version[pending] /\ <<pending, version[pending]>> \in Bytes
    BY <1>0, <1>2, <2>2 DEF Bytes
  <2>4. SaveNeeded(occupy, pending) <=> occupy # None /\ occupy # pending
    BY DEF SaveNeeded
  <2>5. RestoreNeeded(occupy, pending) <=> SaveNeeded(occupy, pending) /\ save_buffer[pending] # None
    BY DEF RestoreNeeded
  <2>6. occupy # None => Started(occupy) /\ stack_mem[occupy] = mem /\ occupy \in Cos
    BY <1>1, <2>2
  <2>7. \A d \in Cos : stack_mem[d] \in Mems /\ (occupy = d => stack_mem[d] = mem)
    BY <1>0, <2>6, LibcoAssumption
  <2>8. \A v \in {0, 1} : \A d \in Cos : <<d, v>> # None
    BY LibcoAssumption
  <2>9. pending \in cIsShareStack /\ (Started(pending) \/ fresh) /\ (fresh => ~Started(pending))
    BY <1>6
  <2> HIDE DEF left, mem, occupy
  <2>10. /\ occupy_co' \in [Mems -> Cos \cup {None}] /\ save_buffer' \in [Cos -> Bytes]
    BY <1>0, <1>3, <2>1, <2>2, <2>4
  <2>11. frames' \in [Mems -> Bytes]
    BY <1>0, <1>3, <2>1, <2>2, <2>3
  <2>12. occupy_co'[mem] = pending /\ \A m \in Mems : m # mem => occupy_co'[m] = occupy_co[m]
    BY <1>0, <2>1, <2>2
  <2>13. \A m \in Mems : m # mem => frames'[m] = left[m]
    BY <1>3, <2>1, <2>2
  <2>14. frames'[mem] = <<pending, version'[pending]>>
    <3>1. CASE fresh
      BY <1>3, <2>1, <2>2, <2>3, <3>1
    <3>2. CASE ~fresh /\ occupy = pending
      <4>1. frames' = left
        BY <2>1, <2>4, <2>5, <3>2
      <4>2. Started(pending) /\ occupy_co[stack_mem[pending]] = pending
        BY <2>9, <3>2 DEF occupy, mem
      <4> QED BY <1>3, <2>2, <4>1, <4>2 DEF mem
    <3>3. CASE ~fresh /\ occupy # pending
      <4>1. Started(pending) /\ occupy_co[stack_mem[pending]] # pending
        BY <2>9, <3>3 DEF occupy, mem
      <4>2. save_buffer[pending] = <<pending, version'[pending]>> /\ occupy # None
        BY <1>4, <2>2, <4>1 DEF occupy, mem
      <4>3. version'[pending] \in {0, 1}
        BY <1>2, <2>2
      <4>4. RestoreNeeded(occupy, pending)
        BY <2>2, <2>4, <2>5, <2>8, <3>3, <4>2, <4>3
      <4> QED BY <1>3, <2>1, <2>2, <3>3, <4>2, <4>4
    <3> QED BY <3>1, <3>2, <3>3
  <2>15. ASSUME NEW d \in Cos, Started(d), d # pending
         PROVE  Found(d, occupy_co'[stack_mem[d]], frames'[stack_mem[d]], save_buffer'[d], version'[d])
    <3>1. CASE occupy_co[stack_mem[d]] = d /\ stack_mem[d] = mem
      <4>1. occupy = d /\ SaveNeeded(occupy, pending)
        BY <2>4, <2>15, <3>1, LibcoAssumption DEF occupy
      <4>2. save_buffer'[d] = left[mem]
        BY <1>0, <2>1, <4>1
      <4>3. left[mem] = <<d, version'[d]>>
        BY <1>3, <2>15, <3>1
      <4> QED BY <2>2, <2>12, <2>15, <3>1, <4>2, <4>3 DEF Found
    <3>2. CASE occupy_co[stack_mem[d]] = d /\ stack_mem[d] # mem
      <4>1. occupy_co'[stack_mem[d]] = d /\ frames'[stack_mem[d]] = <<d, version'[d]>>
        BY <1>3, <2>7, <2>12, <2>13, <2>15, <3>2
      <4> QED BY <4>1, LibcoAssumption DEF Found
    <3>3. CASE occupy_co[stack_mem[d]] # d
      <4>1. save_buffer[d] = <<d, version'[d]>> /\ occupy_co[stack_mem[d]] # None
        BY <1>4, <2>15, <3>3
      <4>2. occupy # d
        BY <2>7, <3>3 DEF occupy
      <4>3. save_buffer'[d] = save_buffer[d]
        BY <1>0, <2>1, <2>2, <4>2
      <4>4. occupy_co'[stack_mem[d]] # d /\ occupy_co'[stack_mem[d]] # None
        BY <2>2, <2>7, <2>12, <2>15, <3>3, <4>1
      <4> QED BY <4>1, <4>3, <4>4 DEF Found
    <3> QED BY <3>1, <3>2, <3>3
  <2>16. Found(pending, occupy_co'[stack_mem[pending]], frames'[stack_mem[pending]], save_buffer'[pending],
               version'[pending])
    BY <2>2, <2>12, <2>14 DEF Found, mem
  <2> QED BY <1>2, <1>6, <2>10, <2>11, <2>12, <2>15, <2>16 DEF mem
<1> QED BY <1>5, <1>6

\* The list without its last item.
LEMMA FrontFacts ==
  ASSUME NEW S, NEW s \in Seq(S), s # <<>>, Distinct(s)
  PROVE  /\ Front(s) \in Seq(S) /\ Len(Front(s)) = Len(s) - 1
         /\ \A i \in 1 .. Len(s) - 1 : Front(s)[i] = s[i]
         /\ Last(s) \in S /\ Last(s) \in ToSet(s)
         /\ ToSet(Front(s)) = ToSet(s) \ {Last(s)} /\ Distinct(Front(s))
<1> DEFINE t == SubSeq(s, 1, Len(s) - 1)
<1>1. /\ Len(s) \in Nat /\ DOMAIN s = 1 .. Len(s) /\ Len(s) \in 1 .. Len(s)
      /\ \A i \in 1 .. Len(s) : s[i] \in S
  BY Members, EmptySeq
<1>2. /\ t \in Seq(S) /\ Len(t) = Len(s) - 1
      /\ \A i \in 1 .. Len(s) - 1 : t[i] = s[i]
  BY <1>1
<1>3. DOMAIN t = 1 .. Len(s) - 1
  BY <1>2, Members
<1>4. \A i, j \in 1 .. Len(s) : s[i] = s[j] => i = j
  BY <1>1 DEF Distinct
<1> HIDE DEF t
<1> DEFINE n == Len(s)
<1>n. n \in Nat
  BY <1>1
<1>5. \A i \in 1 .. Len(s) : i \in 1 .. Len(s) - 1 \/ i = Len(s)
  <2> HIDE DEF n
  <2>1. \A i \in 1 .. n : i \in 1 .. n - 1 \/ i = n
    BY <1>n
  <2> QED BY <2>1 DEF n
<1>6. \A i \in 1 .. Len(s) - 1 : i \in 1 .. Len(s) /\ i # Len(s)
  <2> HIDE DEF n
  <2>1. \A i \in 1 .. n - 1 : i \in 1 .. n /\ i # n
    BY <1>n
  <2> QED BY <2>1 DEF n
<1>7. ToSet(t) = ToSet(s) \ {s[Len(s)]}
  <2>1. ASSUME NEW x \in ToSet(t) PROVE x \in ToSet(s) \ {s[Len(s)]}
    <3>1. PICK i \in 1 .. Len(s) - 1 : t[i] = x
      BY <1>3 DEF ToSet
    <3>2. i \in 1 .. Len(s) /\ i # Len(s) /\ s[i] = x
      BY <1>2, <1>6, <3>1
    <3> QED BY <1>1, <1>4, <3>2 DEF ToSet
  <2>2. ASSUME NEW x \in ToSet(s) \ {s[Len(s)]} PROVE x \in ToSet(t)
    BY <1>1, <1>2, <1>3, <1>5 DEF ToSet
  <2> QED BY <2>1, <2>2
<1>8. Distinct(t)
  BY <1>2, <1>3, <1>4, <1>6 DEF Distinct
<1> QED BY <1>1, <1>2, <1>7, <1>8, Members DEF Front, Last, t

\* The coroutine that runs.
LEMMA CurrFacts ==
  ASSUME StackTypes, CallStack
  PROVE  /\ GetCurrCo \in Cos \cup {Main} /\ GetCurrCo \in ToSet(pCallStack)
         /\ GetCurrCo \in Cos => state[GetCurrCo] = "running"
<1>1. Last(pCallStack) \in Cos \cup {Main} /\ Last(pCallStack) \in ToSet(pCallStack)
  BY FrontFacts DEF StackTypes, CallStack
<1> QED BY <1>1 DEF CallStack, GetCurrCo

\* co_resume of a coroutine that does not run.
LEMMA ResumeStack ==
  ASSUME StackTypes, CallStack, FramesKept, state \in [Cos -> {None, "created", "running", "polling",
             "waiting", "yielded", "ended"}],
         NEW co \in Cos, state[co] \in {"created", "yielded", "polling", "waiting"},
         state' = [state EXCEPT ![co] = "running"], co_resume(co)
  PROVE  StackTypes' /\ CallStack' /\ FramesKept'
<1> DEFINE curr == GetCurrCo
           fresh == state[co] = "created"
           A == Cos \cup {Main}
<1>0. /\ pCallStack \in Seq(A) /\ Distinct(pCallStack) /\ pCallStack # <<>> /\ pCallStack[1] = Main
      /\ \A d \in Cos : state[d] = "running" <=> d \in ToSet(pCallStack)
      /\ cIsShareStack \in SUBSET Cos /\ stack_mem \in [Cos -> Mems] /\ alloc_idx \in Mems
      /\ occupy_co \in [Mems -> Cos \cup {None}]
  BY DEF StackTypes, CallStack
<1>1. /\ pCallStack' = Append(pCallStack, co) /\ co_swap(curr, co, fresh)
      /\ UNCHANGED <<cIsShareStack, alloc_idx, stack_mem>>
  BY DEF co_resume
<1>2. co \notin ToSet(pCallStack) /\ co \in A
  BY <1>0
<1>3. /\ pCallStack' \in Seq(A) /\ ToSet(pCallStack') = ToSet(pCallStack) \cup {co}
      /\ Distinct(pCallStack')
  BY <1>0, <1>1, <1>2, AddTailFacts DEF AddTail
<1>4. /\ Len(pCallStack') = Len(pCallStack) + 1 /\ pCallStack'[Len(pCallStack) + 1] = co
      /\ \A i \in 1 .. Len(pCallStack) : pCallStack'[i] = pCallStack[i]
  BY <1>0, <1>1, <1>2, AppendProperties
<1>5. 1 \in 1 .. Len(pCallStack) /\ pCallStack' # <<>>
  BY <1>0, <1>3, <1>4, Members, EmptySeq
<1>6. state'[co] = "running" /\ \A d \in Cos : d # co => state'[d] = state[d]
  OBVIOUS
<1>7. CallStack'
  <2>1. \A d \in Cos : state'[d] = "running" <=> d \in ToSet(pCallStack')
    BY <1>0, <1>3, <1>6
  <2> QED BY <1>0, <1>3, <1>4, <1>5, <2>1 DEF CallStack
<1>8. GetCurrCo' = co
  BY <1>4 DEF GetCurrCo, Last
<1>9. curr \in Cos => state[curr] = "running"
  BY CurrFacts
<1>10. /\ curr \in cIsShareStack => Started(curr) /\ occupy_co[stack_mem[curr]] = curr
  BY <1>0, <1>9, LibcoAssumption DEF FramesKept, Started
<1>11. co \in cIsShareStack => Started(co) \/ (fresh /\ state[co] = "created")
  <2>1. state[co] # None
    BY LibcoAssumption
  <2> QED BY <2>1 DEF Started
<1>12. fresh => ~Started(co)
  BY DEF Started
<1>13. curr \in A /\ curr # co /\ fresh \in BOOLEAN
  BY <1>2, CurrFacts
<1> HIDE DEF curr, fresh, A
<1>14. /\ occupy_co' \in [Mems -> Cos \cup {None}] /\ save_buffer' \in [Cos -> Bytes]
       /\ frames' \in [Mems -> Bytes] /\ version' \in [Cos -> {0, 1}]
       /\ \A m \in Mems : \/ occupy_co'[m] = occupy_co[m]
                          \/ occupy_co'[m] = co /\ co \in cIsShareStack /\ m = stack_mem[co]
       /\ co \in cIsShareStack => occupy_co'[stack_mem[co]] = co
       /\ \A d \in Cos : Started(d) \/ (d = co /\ d \in cIsShareStack) =>
             Found(d, occupy_co'[stack_mem[d]], frames'[stack_mem[d]], save_buffer'[d], version'[d])
  BY <1>1, <1>2, <1>10, <1>11, <1>12, <1>13, SwapFacts DEF A
<1>15. StackTypes'
  BY <1>0, <1>1, <1>3, <1>14 DEF StackTypes, A
<1>16. \A d \in Cos : Started(d)' <=> Started(d) \/ (d = co /\ d \in cIsShareStack)
  BY <1>1, <1>6, LibcoAssumption DEF Started
<1>17. \A d \in cIsShareStack : state'[d] # None
  BY <1>0, <1>6, LibcoAssumption DEF FramesKept
<1>18. ASSUME NEW m \in Mems, occupy_co'[m] # None
       PROVE  (Started(occupy_co[m]))' /\ stack_mem[occupy_co'[m]] = m
  <2>1. CASE occupy_co'[m] = co /\ co \in cIsShareStack /\ m = stack_mem[co]
    BY <1>1, <1>6, <2>1, LibcoAssumption DEF Started
  <2>2. CASE occupy_co'[m] = occupy_co[m]
    <3>1. occupy_co[m] \in Cos /\ Started(occupy_co[m]) /\ stack_mem[occupy_co[m]] = m
      BY <1>0, <1>18, <2>2 DEF FramesKept
    <3>2. state'[occupy_co[m]] \notin {None, "created"}
      BY <1>6, <3>1, LibcoAssumption DEF Started
    <3> QED BY <1>1, <2>2, <3>1, <3>2 DEF Started
  <2> QED BY <1>14, <2>1, <2>2
<1>19. FramesKept'
  <2>1. \A d \in Cos : Started(d)' =>
          Found(d, occupy_co'[stack_mem[d]], frames'[stack_mem[d]], save_buffer'[d], version'[d])
    BY <1>14, <1>16
  <2>2. GetCurrCo' \in cIsShareStack => occupy_co'[stack_mem[GetCurrCo']] = GetCurrCo'
    BY <1>8, <1>14
  <2> QED BY <1>1, <1>17, <1>18, <2>1, <2>2 DEF FramesKept, Found
<1> QED BY <1>7, <1>15, <1>19

\* A coroutine that runs yields, in whatever state it leaves.
LEMMA YieldStack ==
  ASSUME StackTypes, CallStack, FramesKept, state \in [Cos -> {None, "created", "running", "polling",
             "waiting", "yielded", "ended"}],
         NEW co \in Cos, GetCurrCo = co, NEW new \in {"yielded", "polling", "waiting", "ended"},
         state' = [state EXCEPT ![co] = new], co_yield_env
  PROVE  StackTypes' /\ CallStack' /\ FramesKept'
<1> DEFINE n == Len(pCallStack)
           back == pCallStack[n - 1]
           A == Cos \cup {Main}
           fresh == FALSE
<1>0. /\ pCallStack \in Seq(A) /\ Distinct(pCallStack) /\ pCallStack # <<>> /\ pCallStack[1] = Main
      /\ \A d \in Cos : state[d] = "running" <=> d \in ToSet(pCallStack)
      /\ cIsShareStack \in SUBSET Cos /\ stack_mem \in [Cos -> Mems] /\ alloc_idx \in Mems
      /\ occupy_co \in [Mems -> Cos \cup {None}]
  BY DEF StackTypes, CallStack
<1>1. /\ pCallStack' = Front(pCallStack) /\ co_swap(co, back, fresh)
      /\ UNCHANGED <<cIsShareStack, alloc_idx, stack_mem>>
  BY DEF co_yield_env
<1>2. /\ n \in Nat /\ n >= 1 /\ pCallStack[n] = co /\ DOMAIN pCallStack = 1 .. n
      /\ \A i \in 1 .. n : pCallStack[i] \in A /\ pCallStack[i] \in ToSet(pCallStack)
  BY <1>0, Members, EmptySeq DEF GetCurrCo, Last
<1>3. n # 1
  BY <1>0, <1>2, LibcoAssumption
<1>4. n - 1 \in 1 .. n /\ 1 \in 1 .. n - 1 /\ n \in 1 .. n /\ n - 1 \in 1 .. n - 1
  BY <1>2, <1>3
<1>5. /\ pCallStack' \in Seq(A) /\ Len(pCallStack') = n - 1
      /\ \A i \in 1 .. n - 1 : pCallStack'[i] = pCallStack[i]
      /\ ToSet(pCallStack') = ToSet(pCallStack) \ {co} /\ Distinct(pCallStack')
  BY <1>0, <1>1, FrontFacts DEF GetCurrCo
<1>6. back \in A /\ back \in ToSet(pCallStack) /\ back # co
  BY <1>0, <1>2, <1>4 DEF Distinct
<1>7. /\ state[co] = "running" /\ state'[co] = new /\ new # "running" /\ new \notin {None, "created"}
      /\ \A d \in Cos : d # co => state'[d] = state[d]
  BY <1>0, <1>2, <1>4, LibcoAssumption
<1>8. GetCurrCo' = back
  BY <1>4, <1>5 DEF GetCurrCo, Last
<1>f. fresh \in BOOLEAN /\ ~fresh
  OBVIOUS
<1> HIDE DEF n, back, fresh
<1>9. CallStack'
  <2>1. \A d \in Cos : state'[d] = "running" <=> d \in ToSet(pCallStack')
    BY <1>0, <1>5, <1>7
  <2>2. pCallStack' # <<>>
    <3>1. Len(pCallStack') # 0
      BY <1>2, <1>3, <1>5
    <3> QED BY <1>5, <3>1, EmptySeq
  <2> QED BY <1>0, <1>4, <1>5, <2>1, <2>2 DEF CallStack
<1>10. co \in cIsShareStack => Started(co) /\ occupy_co[stack_mem[co]] = co
  BY <1>0, <1>7, LibcoAssumption DEF FramesKept, Started
<1>11. back \in cIsShareStack => Started(back)
  BY <1>0, <1>6, LibcoAssumption DEF Started
<1>12. /\ occupy_co' \in [Mems -> Cos \cup {None}] /\ save_buffer' \in [Cos -> Bytes]
       /\ frames' \in [Mems -> Bytes] /\ version' \in [Cos -> {0, 1}]
       /\ \A m \in Mems : \/ occupy_co'[m] = occupy_co[m]
                          \/ occupy_co'[m] = back /\ back \in cIsShareStack /\ m = stack_mem[back]
       /\ back \in cIsShareStack => occupy_co'[stack_mem[back]] = back
       /\ \A d \in Cos : Started(d) \/ (d = back /\ d \in cIsShareStack) =>
             Found(d, occupy_co'[stack_mem[d]], frames'[stack_mem[d]], save_buffer'[d], version'[d])
  <2>1. co \in Cos \cup {Main} /\ back \in Cos \cup {Main}
    BY <1>6
  <2> QED BY <1>1, <1>6, <1>10, <1>11, <1>f, <2>1, SwapFacts
<1>13. StackTypes'
  BY <1>0, <1>1, <1>5, <1>12 DEF StackTypes
<1>14. \A d \in Cos : Started(d)' <=> Started(d)
  BY <1>1, <1>7, LibcoAssumption DEF Started
<1>15. \A d \in cIsShareStack : state'[d] # None
  BY <1>0, <1>7 DEF FramesKept
<1>16. ASSUME NEW m \in Mems, occupy_co'[m] # None
       PROVE  (Started(occupy_co[m]))' /\ stack_mem[occupy_co'[m]] = m
  <2>1. PICK d : d = occupy_co'[m]
    OBVIOUS
  <2>2. d \in Cos /\ Started(d) /\ stack_mem[d] = m
    <3>1. CASE occupy_co'[m] = back /\ back \in cIsShareStack /\ m = stack_mem[back]
      BY <1>0, <1>11, <2>1, <3>1
    <3>2. CASE occupy_co'[m] = occupy_co[m]
      BY <1>0, <1>16, <2>1, <3>2 DEF FramesKept
    <3> QED BY <1>12, <3>1, <3>2
  <2>3. state'[d] \notin {None, "created"} /\ d \in cIsShareStack
    BY <1>7, <2>2 DEF Started
  <2> QED BY <1>1, <2>1, <2>2, <2>3 DEF Started
<1>17. FramesKept'
  <2>1. \A d \in Cos : Started(d)' =>
          Found(d, occupy_co'[stack_mem[d]], frames'[stack_mem[d]], save_buffer'[d], version'[d])
    <3> SUFFICES ASSUME NEW d \in Cos, Started(d)'
                 PROVE  Found(d, occupy_co'[stack_mem[d]], frames'[stack_mem[d]], save_buffer'[d],
                              version'[d])
      OBVIOUS
    <3>1. Started(d)
      BY <1>14
    <3> QED BY <1>12, <3>1
  <2>2. GetCurrCo' \in cIsShareStack => occupy_co'[stack_mem[GetCurrCo']] = GetCurrCo'
    BY <1>8, <1>12
  <2> QED BY <1>1, <1>15, <1>16, <2>1, <2>2 DEF FramesKept, Found
<1> QED BY <1>9, <1>13, <1>17

-----------------------------------------------------------------------------
(* The waiters. *)

RingOf(items) == UNION {ToSet(items[i]) : i \in Slots}

Exclusive(items) ==
    /\ \A i \in Slots : Distinct(items[i])
    /\ \A i, j \in Slots : i # j => ToSet(items[i]) \cap ToSet(items[j]) = {}

\* The lists by what is in them.
LEMMA ByItems ==
  /\ InRing = RingOf(pItems) /\ InRing' = RingOf(pItems')
  /\ LinkedOnce <=> /\ Distinct(pstActiveList) /\ Exclusive(pItems)
                    /\ InRing \cap InActive = {}
  /\ LinkedOnce' <=> /\ Distinct(pstActiveList') /\ Exclusive(pItems')
                     /\ InRing' \cap InActive' = {}
  /\ InActive = ToSet(pstActiveList) /\ InActive' = ToSet(pstActiveList')
BY DEF InRing, RingOf, LinkedOnce, Exclusive, InActive

\* Who is in the ring is in one of its slots.
LEMMA InSlot ==
  ASSUME NEW items, NEW co
  PROVE  co \in RingOf(items) <=> \E i \in Slots : co \in ToSet(items[i])
BY DEF RingOf

\* AddTimeout puts an item where its time is, or in the last slot.
LEMMA AddTimeoutFacts ==
  ASSUME TypeOK, Exclusive(pItems), NEW co \in Cos, co \notin RingOf(pItems),
         NEW e \in Nat, e >= ullStart, NEW items, items = AddTimeout(pItems, co, e)
  PROVE  /\ items \in [Slots -> Seq(Cos)] /\ Exclusive(items)
         /\ RingOf(items) = RingOf(pItems) \cup {co}
         /\ \A i \in Slots : \A d \in ToSet(items[i]) :
               \/ d \in ToSet(pItems[i]) /\ d # co
               \/ /\ d = co /\ ullStart + Ahead(i) <= e
                  /\ ~BeyondRing(e) => ullStart + Ahead(i) = e
<1> DEFINE s == SlotFor(e)
           diff == IF BeyondRing(e) THEN RingSize - 1 ELSE e - ullStart
<1>0. /\ pItems \in [Slots -> Seq(Cos)] /\ llStartIdx \in Slots /\ ullStart \in Nat
      /\ RingSize \in Nat \ {0}
  BY LibcoAssumption DEF TypeOK
<1>1. diff \in Slots /\ ullStart + diff <= e /\ (~BeyondRing(e) => ullStart + diff = e)
  BY <1>0 DEF BeyondRing, Slots
<1>2. s = (llStartIdx + diff) % RingSize
  BY DEF SlotFor
<1> HIDE DEF diff
<1>3. s = IF llStartIdx + diff < RingSize THEN llStartIdx + diff ELSE llStartIdx + diff - RingSize
  BY <1>0, <1>1, <1>2, Modulo
<1> HIDE DEF s
<1>4. /\ llStartIdx \in Nat /\ llStartIdx < RingSize /\ diff \in Nat /\ diff < RingSize
  BY <1>0, <1>1 DEF Slots
<1>5. s \in Slots
  BY <1>0, <1>3, <1>4 DEF Slots
<1>6. Ahead(s) = diff
  <2>1. Ahead(s) = IF s >= llStartIdx THEN s - llStartIdx ELSE s - llStartIdx + RingSize
    BY <1>0, <1>5, Modulo DEF Ahead
  <2> QED BY <1>0, <1>3, <1>4, <2>1
<1>7. items = [pItems EXCEPT ![s] = AddTail(pItems[s], co)]
  BY DEF AddTimeout, s
<1>8. co \notin ToSet(pItems[s]) /\ Distinct(pItems[s]) /\ pItems[s] \in Seq(Cos)
  BY <1>0, <1>5, InSlot DEF Exclusive
<1>9. /\ AddTail(pItems[s], co) \in Seq(Cos) /\ Distinct(AddTail(pItems[s], co))
      /\ ToSet(AddTail(pItems[s], co)) = ToSet(pItems[s]) \cup {co}
  BY <1>8, AddTailFacts
<1>10. /\ items \in [Slots -> Seq(Cos)] /\ Distinct(items[s]) /\ ToSet(items[s]) = ToSet(pItems[s]) \cup {co}
       /\ \A i \in Slots : i # s => items[i] = pItems[i]
  BY <1>0, <1>5, <1>7, <1>9
<1>11. \A i \in Slots : co \notin ToSet(pItems[i])
  BY InSlot
<1>12. Exclusive(items)
  <2>1. \A i \in Slots : Distinct(items[i])
    BY <1>10 DEF Exclusive
  <2>2. ASSUME NEW i \in Slots, NEW j \in Slots, i # j PROVE ToSet(items[i]) \cap ToSet(items[j]) = {}
    <3>1. ToSet(pItems[i]) \cap ToSet(pItems[j]) = {} /\ co \notin ToSet(pItems[i]) /\ co \notin ToSet(pItems[j])
      BY <1>11, <2>2 DEF Exclusive
    <3>2. /\ i # s => ToSet(items[i]) = ToSet(pItems[i])
          /\ j # s => ToSet(items[j]) = ToSet(pItems[j])
      BY <1>10
    <3>3. CASE i # s /\ j # s
      BY <3>1, <3>2, <3>3
    <3>4. CASE i = s
      BY <1>10, <2>2, <3>1, <3>2, <3>4
    <3>5. CASE j = s
      BY <1>10, <2>2, <3>1, <3>2, <3>5
    <3> QED BY <3>3, <3>4, <3>5
  <2> QED BY <2>1, <2>2 DEF Exclusive
<1>13. RingOf(items) = RingOf(pItems) \cup {co}
  <2>1. \A x : x \in RingOf(items) <=> \E i \in Slots : x \in ToSet(items[i])
    BY InSlot
  <2>2. \A x : x \in RingOf(pItems) <=> \E i \in Slots : x \in ToSet(pItems[i])
    BY InSlot
  <2>3. \A x : x \in RingOf(items) <=> x \in RingOf(pItems) \cup {co}
    BY <1>5, <1>10, <2>1, <2>2
  <2> QED BY <2>3
<1>14. ASSUME NEW i \in Slots, NEW d \in ToSet(items[i])
       PROVE  \/ d \in ToSet(pItems[i]) /\ d # co
              \/ /\ d = co /\ ullStart + Ahead(i) <= e
                 /\ ~BeyondRing(e) => ullStart + Ahead(i) = e
  <2>1. CASE i = s
    BY <1>1, <1>6, <1>10, <1>11, <2>1
  <2>2. CASE i # s
    BY <1>10, <1>11, <2>2
  <2> QED BY <2>1, <2>2
<1> QED BY <1>10, <1>12, <1>13, <1>14

Unlinked(items, gone) == [i \in Slots |-> Without(items[i], gone)]

\* Unlinking items from the ring.
LEMMA UnlinkFacts ==
  ASSUME NEW items \in [Slots -> Seq(Cos)], Exclusive(items), NEW gone
  PROVE  /\ Unlinked(items, gone) \in [Slots -> Seq(Cos)] /\ Exclusive(Unlinked(items, gone))
         /\ RingOf(Unlinked(items, gone)) = RingOf(items) \ gone
         /\ \A i \in Slots : ToSet(Unlinked(items, gone)[i]) = ToSet(items[i]) \ gone
<1> DEFINE kept == Unlinked(items, gone)
<1>1. ASSUME NEW i \in Slots
      PROVE  /\ kept[i] \in Seq(Cos) /\ Distinct(kept[i]) /\ ToSet(kept[i]) = ToSet(items[i]) \ gone
             /\ kept[i] = Without(items[i], gone)
  <2>1. items[i] \in Seq(Cos) /\ Distinct(items[i]) /\ kept[i] = Without(items[i], gone)
    BY DEF Exclusive, Unlinked
  <2> QED BY <2>1, WithoutFacts
<1>2. kept \in [Slots -> Seq(Cos)]
  BY <1>1 DEF Unlinked
<1>3. Exclusive(kept)
  BY <1>1 DEF Exclusive
<1>4. RingOf(kept) = RingOf(items) \ gone
  BY <1>1 DEF RingOf
<1> QED BY <1>1, <1>2, <1>3, <1>4

\* Steps that leave the lists, the items and the states of waiters alone.
LEMMA WaitersSame ==
  ASSUME Waiters, UNCHANGED <<ullStart, llStartIdx, pItems, pstActiveList, phase, now, epoll, itemVars, cond>>,
         \A d \in Cos : \/ state'[d] = state[d]
                        \/ /\ state[d] \notin {"polling", "waiting"}
                           /\ state'[d] \notin {"polling", "waiting"},
         TypeOK
  PROVE  Waiters'
<1>1. \A d \in Linked \cup ToSet(cond) : d \in Cos
  BY Members DEF TypeOK, Linked, InRing, InActive
<1>2. /\ Linked' = Linked /\ InRing' = InRing /\ InActive' = InActive /\ LinkedOnce' = LinkedOnce
      /\ ToSet(cond)' = ToSet(cond)
  BY DEF Linked, InRing, InActive, LinkedOnce
<1>3. WaitersLinked'
  BY <1>1, <1>2 DEF Waiters, WaitersLinked
<1>4. CondWaits'
  BY <1>1, <1>2 DEF Waiters, CondWaits
<1>5. \A d \in InActive : d \in Cos
  BY <1>1 DEF Linked
<1>6. ActiveRaised'
  BY <1>2, <1>5 DEF Waiters, ActiveRaised, itemVars, WaitersLinked, Linked
<1>7. SlotsExact'
  BY DEF Waiters, SlotsExact, Ahead, itemVars
<1>8. SignalNotLost'
  BY <1>1, <1>2 DEF Waiters, SignalNotLost, Linked, itemVars
<1>9. EpollItemsLive'
  BY DEF Waiters, EpollItemsLive, TypeOK, itemVars
<1> QED BY <1>3, <1>4, <1>6, <1>7, <1>8, <1>9 DEF Waiters

States == {None, "created", "running", "polling", "waiting", "yielded", "ended"}

WaitTypes ==
    /\ clock \in 1 .. MaxTime /\ now \in 0 .. MaxTime
    /\ ullStart \in 1 .. MaxTime /\ llStartIdx \in Slots
    /\ pItems \in [Slots -> Seq(Cos)] /\ pstActiveList \in Seq(Cos) /\ cond \in Seq(Cos)
    /\ phase \in {"app", "wait", "drain"}
    /\ epoll \in [Fds -> Cos \cup {None}] /\ ready \in SUBSET Fds
    /\ ullExpireTime \in [Cos -> Nat] /\ bTimeout \in [Cos -> BOOLEAN]
    /\ fds \in [Cos -> SUBSET Fds] /\ revents \in [Cos -> SUBSET Fds]
    /\ logged \in SUBSET Cos /\ state \in [Cos -> States]

\* The types in two parts.
LEMMA Types ==
  /\ TypeOK <=> StackTypes /\ WaitTypes
  /\ TypeOK' <=> StackTypes' /\ WaitTypes'
BY DEF TypeOK, StackTypes, WaitTypes, States

\* A step that leaves the call stack and the stacks alone, and starts or ends no
\* coroutine on a shared stack.
LEMMA StacksSame ==
  ASSUME StackTypes, CallStack, FramesKept, UNCHANGED <<pCallStack, stackVars, state>>
  PROVE  StackTypes' /\ CallStack' /\ FramesKept'
<1>1. StackTypes'
  BY DEF StackTypes, stackVars
<1>2. CallStack'
  BY DEF CallStack
<1>3. FramesKept'
  BY DEF FramesKept, Started, stackVars, GetCurrCo
<1> QED BY <1>1, <1>2, <1>3

\* co_create and co_free.
LEMMA CreateInv ==
  ASSUME IInv, NEW co \in Cos, NEW share_stack \in BOOLEAN, co_create(co, share_stack)
  PROVE  IInv'
<1>0. TypeOK /\ StackTypes /\ WaitTypes /\ CallStack /\ FramesKept /\ Waiters
  BY Types DEF IInv
<1>1. /\ state[co] = None /\ state' = [state EXCEPT ![co] = "created"]
      /\ UNCHANGED <<clock, ringVars, pstActiveList, phase, now, epoll, ready,
                     pCallStack, itemVars, cond, occupy_co, save_buffer, frames, version>>
      /\ \/ /\ cIsShareStack' = cIsShareStack \cup {co}
            /\ stack_mem' = [stack_mem EXCEPT ![co] = alloc_idx] /\ alloc_idx' = co_get_stackmem
         \/ UNCHANGED <<cIsShareStack, stack_mem, alloc_idx>>
  BY DEF co_create
<1>2. state'[co] = "created" /\ \A d \in Cos : d # co => state'[d] = state[d]
  BY <1>0, <1>1 DEF WaitTypes
<1>3. Waiters'
  <2>1. \A d \in Cos : \/ state'[d] = state[d]
                       \/ /\ state[d] \notin {"polling", "waiting"}
                          /\ state'[d] \notin {"polling", "waiting"}
    BY <1>1, <1>2, LibcoAssumption
  <2> QED BY <1>0, <1>1, <2>1, WaitersSame DEF ringVars
<1>4. WaitTypes'
  <2>1. state' \in [Cos -> States]
    BY <1>0, <1>1 DEF WaitTypes, States
  <2> QED BY <1>0, <1>1, <2>1 DEF WaitTypes, ringVars, itemVars
<1>5. co_get_stackmem \in Mems
  BY <1>0, LibcoAssumption DEF co_get_stackmem, StackTypes, Mems
<1>6. StackTypes'
  BY <1>0, <1>1, <1>5 DEF StackTypes
<1>7. CallStack'
  <2>1. state[co] # "running" /\ \A d \in Cos : state'[d] = "running" <=> state[d] = "running"
    BY <1>1, <1>2, LibcoAssumption
  <2> QED BY <1>0, <1>1, <2>1 DEF CallStack
<1>8. FramesKept'
  <2>1. co \notin cIsShareStack /\ GetCurrCo \in Cos \cup {Main} /\ GetCurrCo # co /\ GetCurrCo' = GetCurrCo
    <3>1. GetCurrCo # co
      BY <1>0, <1>1, CurrFacts, LibcoAssumption
    <3> QED BY <1>0, <1>1, <3>1, CurrFacts DEF FramesKept, GetCurrCo
  <2>2. /\ \A d \in Cos : d # co => (d \in cIsShareStack' <=> d \in cIsShareStack) /\ stack_mem'[d] = stack_mem[d]
        /\ cIsShareStack' \subseteq cIsShareStack \cup {co} /\ cIsShareStack \subseteq Cos /\ Main \notin Cos
    BY <1>0, <1>1, LibcoAssumption DEF StackTypes
  <2>3. \A d \in Cos : (Started(d)' <=> Started(d)) /\ (Started(d) => d # co)
    BY <1>2, <2>1, <2>2 DEF Started
  <2>4. \A d \in cIsShareStack' : state'[d] # None
    BY <1>0, <1>2, <2>2, LibcoAssumption DEF FramesKept
  <2>5. ASSUME NEW m \in Mems, occupy_co'[m] # None
        PROVE  (Started(occupy_co[m]))' /\ stack_mem'[occupy_co'[m]] = m
    <3>1. PICK d \in Cos : d = occupy_co[m] /\ d = occupy_co'[m]
      BY <1>0, <1>1, <2>5 DEF StackTypes
    <3>2. Started(d) /\ stack_mem[d] = m
      BY <1>0, <2>5, <3>1 DEF FramesKept
    <3>3. Started(d)' /\ stack_mem'[d] = m
      BY <2>2, <2>3, <3>2
    <3> QED BY <3>1, <3>3 DEF Started
  <2>6. ASSUME NEW d \in Cos, Started(d)'
        PROVE  Found(d, occupy_co'[stack_mem'[d]], frames'[stack_mem'[d]], save_buffer'[d], version'[d])
    <3>1. Started(d) /\ stack_mem'[d] = stack_mem[d]
      BY <2>2, <2>3, <2>6
    <3>2. Found(d, occupy_co[stack_mem[d]], frames[stack_mem[d]], save_buffer[d], version[d])
      BY <1>0, <3>1 DEF FramesKept, Found
    <3> QED BY <1>1, <3>1, <3>2
  <2>7. GetCurrCo \in cIsShareStack' => occupy_co'[stack_mem'[GetCurrCo]] = GetCurrCo
    BY <1>0, <1>1, <2>1, <2>2 DEF FramesKept
  <2> QED BY <2>1, <2>4, <2>5, <2>6, <2>7 DEF FramesKept, Found
<1> QED BY <1>3, <1>4, <1>6, <1>7, <1>8, Types DEF IInv

\* co_free of an ended coroutine with a stack of its own.
LEMMA FreeInv ==
  ASSUME IInv, NEW co \in Cos, co_free(co)
  PROVE  IInv'
<1>0. TypeOK /\ StackTypes /\ WaitTypes /\ CallStack /\ FramesKept /\ Waiters
  BY Types DEF IInv
<1>1. /\ state[co] = "ended" /\ co \notin cIsShareStack /\ state' = [state EXCEPT ![co] = None]
      /\ UNCHANGED <<clock, ringVars, pstActiveList, phase, now, epoll, ready,
                     pCallStack, itemVars, cond, stackVars>>
  BY DEF co_free
<1>2. state'[co] = None /\ \A d \in Cos : d # co => state'[d] = state[d]
  BY <1>0, <1>1 DEF WaitTypes
<1>3. Waiters'
  <2>1. \A d \in Cos : \/ state'[d] = state[d]
                       \/ /\ state[d] \notin {"polling", "waiting"}
                          /\ state'[d] \notin {"polling", "waiting"}
    BY <1>1, <1>2, LibcoAssumption
  <2> QED BY <1>0, <1>1, <2>1, WaitersSame DEF ringVars
<1>4. WaitTypes'
  <2>1. state' \in [Cos -> States]
    BY <1>0, <1>1 DEF WaitTypes, States
  <2> QED BY <1>0, <1>1, <2>1 DEF WaitTypes, ringVars, itemVars
<1>5. StackTypes'
  BY <1>0, <1>1 DEF StackTypes, stackVars
<1>6. CallStack'
  <2>1. \A d \in Cos : state'[d] = "running" <=> state[d] = "running"
    BY <1>1, <1>2, LibcoAssumption
  <2> QED BY <1>0, <1>1, <2>1 DEF CallStack
<1>7. FramesKept'
  <2>1. \A d \in cIsShareStack : d \in Cos /\ state'[d] = state[d]
    BY <1>0, <1>1, <1>2 DEF StackTypes
  <2>2. \A d : Started(d)' <=> Started(d)
    BY <1>1, <2>1 DEF Started, stackVars
  <2>3. \A m \in Mems : (Started(occupy_co[m]))' <=> Started(occupy_co[m])
    BY <1>1, <2>1 DEF Started, stackVars
  <2> QED BY <1>0, <1>1, <2>1, <2>2, <2>3 DEF FramesKept, stackVars, GetCurrCo
<1> QED BY <1>3, <1>4, <1>5, <1>6, <1>7, Types DEF IInv

\* Start of a coroutine, yield and end.
LEMMA SwitchInv ==
  ASSUME IInv, NEW co \in Cos, Resume(co) \/ co_yield_ct(co) \/ CoRoutineFunc(co)
  PROVE  IInv'
<1>0. TypeOK /\ StackTypes /\ WaitTypes /\ CallStack /\ FramesKept /\ Waiters /\ state \in [Cos -> States]
  BY Types DEF IInv, WaitTypes
<1>1. UNCHANGED <<clock, ringVars, pstActiveList, phase, now, epoll, ready, itemVars, cond>>
  BY DEF Resume, co_yield_ct, CoRoutineFunc
<1>2. ASSUME state' \in [Cos -> States], state[co] \notin {"polling", "waiting"},
             state'[co] \notin {"polling", "waiting"}, \A d \in Cos : d # co => state'[d] = state[d]
      PROVE  WaitTypes' /\ Waiters'
  <2>1. WaitTypes'
    BY <1>0, <1>1, <1>2 DEF WaitTypes, ringVars, itemVars
  <2>2. Waiters'
    BY <1>0, <1>1, <1>2, WaitersSame DEF ringVars
  <2> QED BY <2>1, <2>2
<1>3. CASE Resume(co)
  <2>1. state[co] \in {"created", "yielded"} /\ state' = [state EXCEPT ![co] = "running"] /\ co_resume(co)
    BY <1>3 DEF Resume
  <2>2. StackTypes' /\ CallStack' /\ FramesKept'
    BY <1>0, <2>1, ResumeStack DEF States
  <2>3. /\ state' \in [Cos -> States] /\ state'[co] = "running"
        /\ \A d \in Cos : d # co => state'[d] = state[d]
    BY <1>0, <2>1 DEF States
  <2> QED BY <1>2, <2>1, <2>2, <2>3, Types DEF IInv
<1>4. CASE co_yield_ct(co) \/ CoRoutineFunc(co)
  <2>1. PICK new \in {"yielded", "ended"} :
          GetCurrCo = co /\ state' = [state EXCEPT ![co] = new] /\ co_yield_env
    BY <1>4 DEF co_yield_ct, CoRoutineFunc, Running
  <2>2. StackTypes' /\ CallStack' /\ FramesKept'
    BY <1>0, <2>1, YieldStack DEF States
  <2>3. state[co] = "running"
    BY <1>0, <2>1, CurrFacts
  <2>4. /\ state' \in [Cos -> States] /\ state'[co] = new
        /\ \A d \in Cos : d # co => state'[d] = state[d]
    BY <1>0, <2>1 DEF States
  <2> QED BY <1>2, <2>2, <2>3, <2>4, Types DEF IInv
<1> QED BY <1>3, <1>4

\* Steps of the outside world, and those that only turn a page of co_eventloop.
LEMMA QuietInv ==
  ASSUME IInv, \/ \E fd \in Fds : Consume(fd) \/ FdReady(fd)
               \/ GetTickMS \/ EnterLoop \/ Drained \/ UNCHANGED vars
  PROVE  IInv'
<1>0. TypeOK /\ StackTypes /\ WaitTypes /\ CallStack /\ FramesKept /\ Waiters
  BY Types DEF IInv
<1>1. /\ UNCHANGED <<ullStart, llStartIdx, pItems, pstActiveList, epoll, itemVars, cond>>
      /\ UNCHANGED <<pCallStack, stackVars, state>>
  BY DEF Consume, FdReady, GetTickMS, EnterLoop, Drained, vars, ringVars
<1>2. ready' \in SUBSET Fds /\ clock' \in 1 .. MaxTime
  BY <1>0 DEF WaitTypes, Consume, FdReady, GetTickMS, EnterLoop, Drained, vars
<1>3. phase' \in {"app", "wait", "drain"} /\ now' \in 0 .. MaxTime
  BY <1>0, LibcoAssumption DEF WaitTypes, Consume, FdReady, GetTickMS, EnterLoop, Drained, vars
<1>4. WaitTypes'
  BY <1>0, <1>1, <1>2, <1>3 DEF WaitTypes, itemVars
<1>5. StackTypes' /\ CallStack' /\ FramesKept'
  BY <1>0, <1>1, StacksSame
<1>6. Waiters'
  <2>1. CASE UNCHANGED <<phase, now>>
    BY <1>0, <1>1, <2>1, WaitersSame
  <2>2. CASE EnterLoop \/ Drained
    <3>1. phase' # "drain" /\ (phase = "app" \/ pstActiveList = <<>>)
      BY <2>2 DEF EnterLoop, Drained, Running
    <3>2. /\ Linked' = Linked /\ InRing' = InRing /\ InActive' = InActive /\ LinkedOnce' = LinkedOnce
          /\ ToSet(cond)' = ToSet(cond)
      BY <1>1 DEF Linked, InRing, InActive, LinkedOnce
    <3>3. WaitersLinked' /\ CondWaits' /\ SlotsExact' /\ SignalNotLost' /\ EpollItemsLive'
      BY <1>0, <1>1, <3>2 DEF Waiters, WaitersLinked, CondWaits, SlotsExact, Ahead, SignalNotLost,
         EpollItemsLive, itemVars
    <3>4. ActiveRaised /\ bTimeout' = bTimeout /\ revents' = revents /\ state' = state
      BY <1>0, <1>1 DEF Waiters, itemVars
    <3>5. \A d \in InActive : phase = "app"
      <4>1. pstActiveList = <<>> => InActive = {}
        BY <1>0, Members DEF InActive, WaitTypes
      <4> QED BY <3>1, <4>1
    <3>6. (\A d \in InActive : state[d] = "waiting") /\ \A d \in Cos : ~bTimeout[d]
      BY <3>4, <3>5 DEF ActiveRaised
    <3>7. ActiveRaised'
      <4>1. \A d \in InActive' : state'[d] = "waiting"
        BY <3>2, <3>4, <3>6
      <4>2. \A d \in InActive' : state'[d] = "polling" => revents'[d] # {} \/ bTimeout'[d]
        BY <4>1
      <4>3. \A d \in Cos : ~bTimeout'[d]
        BY <3>4, <3>6
      <4> QED BY <4>1, <4>2, <4>3 DEF ActiveRaised
    <3> QED BY <3>3, <3>7 DEF Waiters
  <2> QED BY <2>1, <2>2 DEF Consume, FdReady, GetTickMS, vars
<1> QED BY <1>4, <1>5, <1>6, Types DEF IInv

\* A coroutine that runs is in no list and has no timeout raised.
LEMMA RunningApart ==
  ASSUME TypeOK, Waiters, NEW co \in Cos, state[co] = "running"
  PROVE  /\ co \notin InRing /\ co \notin InActive /\ co \notin ToSet(cond) /\ ~bTimeout[co]
         /\ \A fd \in Fds : epoll[fd] # co
<1>1. co \notin Linked /\ co \notin ToSet(cond)
  BY DEF Waiters, WaitersLinked, CondWaits
<1>2. \A fd \in Fds : epoll[fd] # co
  BY LibcoAssumption DEF Waiters, EpollItemsLive
<1>3. ~bTimeout[co]
  BY <1>1 DEF Waiters, ActiveRaised, Linked
<1> QED BY <1>1, <1>2, <1>3 DEF Linked

\* Everyone in a list is a coroutine.
LEMMA ListedCos ==
  ASSUME TypeOK
  PROVE  InRing \subseteq Cos /\ InActive \subseteq Cos /\ ToSet(cond) \subseteq Cos
<1>1. \A i \in Slots : ToSet(pItems[i]) \subseteq Cos
  BY Members DEF TypeOK
<1>2. ToSet(pstActiveList) \subseteq Cos /\ ToSet(cond) \subseteq Cos
  BY Members DEF TypeOK
<1> QED BY <1>1, <1>2 DEF InRing, InActive

\* The running coroutine parks: in the ring unless it waits without a timeout, in
\* the condition's list if it waits for a signal.
LEMMA ParkInv ==
  ASSUME IInv, NEW co \in Cos, NEW new \in {"polling", "waiting"}, NEW e \in Nat, NEW polled \in SUBSET Fds,
         state[co] = "running",
         state' = [state EXCEPT ![co] = new],
         ullExpireTime' = [ullExpireTime EXCEPT ![co] = e],
         bTimeout' = [bTimeout EXCEPT ![co] = FALSE],
         \/ /\ e >= ullStart /\ pItems' = AddTimeout(pItems, co, e)
            /\ logged' = IF BeyondRing(e) THEN logged \cup {co} ELSE logged
         \/ new = "waiting" /\ UNCHANGED <<pItems, logged>>,
         \/ /\ new = "polling" /\ cond' = cond /\ fds' = [fds EXCEPT ![co] = polled]
            /\ revents' = [revents EXCEPT ![co] = {}] /\ epoll' = Registered(co, polled)
         \/ new = "waiting" /\ cond' = AddTail(cond, co) /\ UNCHANGED <<fds, revents, epoll>>,
         UNCHANGED <<clock, ullStart, llStartIdx, pstActiveList, phase, now, ready>>
  PROVE  WaitTypes' /\ Waiters'
<1>0. TypeOK /\ WaitTypes /\ Waiters
  BY Types DEF IInv
<1>1. /\ co \notin InRing /\ co \notin InActive /\ co \notin ToSet(cond) /\ ~bTimeout[co]
      /\ \A fd \in Fds : epoll[fd] # co
  BY <1>0, RunningApart
<1>2. InRing \subseteq Cos /\ InActive \subseteq Cos /\ ToSet(cond) \subseteq Cos
  BY <1>0, ListedCos
<1>3. /\ LinkedOnce /\ Distinct(pstActiveList) /\ Exclusive(pItems) /\ InRing = RingOf(pItems)
      /\ InRing' = RingOf(pItems') /\ InActive' = InActive /\ InRing \cap InActive = {}
  BY <1>0, ByItems DEF Waiters, WaitersLinked, InActive
<1>4. /\ state' \in [Cos -> States] /\ state'[co] = new /\ \A d \in Cos : d # co => state'[d] = state[d]
  BY <1>0 DEF WaitTypes, States
<1>5. /\ ullExpireTime' \in [Cos -> Nat] /\ ullExpireTime'[co] = e
      /\ \A d \in Cos : d # co => ullExpireTime'[d] = ullExpireTime[d]
  BY <1>0 DEF WaitTypes
<1>6. /\ bTimeout' \in [Cos -> BOOLEAN] /\ ~bTimeout'[co] /\ \A d \in Cos : d # co => bTimeout'[d] = bTimeout[d]
  BY <1>0 DEF WaitTypes
<1>7. /\ pItems' \in [Slots -> Seq(Cos)] /\ Exclusive(pItems') /\ InRing \subseteq InRing'
      /\ InRing' \subseteq InRing \cup {co} /\ (new = "polling" => co \in InRing')
      /\ \A i \in Slots : \A d \in ToSet(pItems'[i]) :
            \/ d \in ToSet(pItems[i]) /\ d # co
            \/ d = co /\ ullStart + Ahead(i) <= e /\ (co \notin logged' => ullStart + Ahead(i) = e)
      /\ logged' \in SUBSET Cos /\ \A d \in Cos : d # co => (d \in logged' <=> d \in logged)
  <2>1. CASE new = "waiting" /\ UNCHANGED <<pItems, logged>>
    <3>1. \A i \in Slots : co \notin ToSet(pItems[i])
      BY <1>1, <1>3, InSlot
    <3> QED BY <1>0, <1>3, <2>1, <3>1 DEF WaitTypes
  <2>2. CASE /\ e >= ullStart /\ pItems' = AddTimeout(pItems, co, e)
             /\ logged' = IF BeyondRing(e) THEN logged \cup {co} ELSE logged
    <3>1. /\ pItems' \in [Slots -> Seq(Cos)] /\ Exclusive(pItems')
          /\ RingOf(pItems') = RingOf(pItems) \cup {co}
          /\ \A i \in Slots : \A d \in ToSet(pItems'[i]) :
                \/ d \in ToSet(pItems[i]) /\ d # co
                \/ /\ d = co /\ ullStart + Ahead(i) <= e
                   /\ ~BeyondRing(e) => ullStart + Ahead(i) = e
      BY <1>0, <1>1, <1>3, <2>2, AddTimeoutFacts
    <3>2. /\ logged' \in SUBSET Cos /\ (co \notin logged' => ~BeyondRing(e))
          /\ \A d \in Cos : d # co => (d \in logged' <=> d \in logged)
      BY <1>0, <2>2 DEF WaitTypes
    <3> QED BY <1>3, <3>1, <3>2
  <2> QED BY <2>1, <2>2
<1>8. /\ cond' \in Seq(Cos) /\ Distinct(cond') /\ ToSet(cond) \subseteq ToSet(cond')
      /\ ToSet(cond') \subseteq ToSet(cond) \cup {co}
      /\ (new = "waiting" => co \in ToSet(cond')) /\ (new = "polling" => ToSet(cond') = ToSet(cond))
  <2>1. cond \in Seq(Cos) /\ Distinct(cond)
    BY <1>0 DEF Waiters, CondWaits, WaitTypes
  <2>2. /\ AddTail(cond, co) \in Seq(Cos) /\ ToSet(AddTail(cond, co)) = ToSet(cond) \cup {co}
        /\ Distinct(AddTail(cond, co))
    BY <1>1, <2>1, AddTailFacts
  <2> QED BY <2>1, <2>2
<1>9. /\ fds' \in [Cos -> SUBSET Fds] /\ revents' \in [Cos -> SUBSET Fds] /\ epoll' \in [Fds -> Cos \cup {None}]
      /\ \A d \in Cos : d # co => fds'[d] = fds[d] /\ revents'[d] = revents[d]
      /\ \A fd \in Fds : \/ epoll'[fd] = epoll[fd]
                         \/ epoll'[fd] = co /\ new = "polling" /\ fd \in fds'[co]
  <2>0. fds \in [Cos -> SUBSET Fds] /\ revents \in [Cos -> SUBSET Fds] /\ epoll \in [Fds -> Cos \cup {None}]
    BY <1>0 DEF WaitTypes
  <2>1. CASE UNCHANGED <<fds, revents, epoll>>
    BY <2>0, <2>1
  <2>2. CASE /\ new = "polling" /\ fds' = [fds EXCEPT ![co] = polled]
             /\ revents' = [revents EXCEPT ![co] = {}] /\ epoll' = Registered(co, polled)
    <3>1. /\ fds' \in [Cos -> SUBSET Fds] /\ fds'[co] = polled /\ revents' \in [Cos -> SUBSET Fds]
          /\ \A d \in Cos : d # co => fds'[d] = fds[d] /\ revents'[d] = revents[d]
      BY <2>0, <2>2
    <3>2. epoll' = [fd \in Fds |-> IF fd \in polled /\ epoll[fd] = None THEN co ELSE epoll[fd]]
      BY <2>2 DEF Registered
    <3>3. /\ epoll' \in [Fds -> Cos \cup {None}]
          /\ \A fd \in Fds : epoll'[fd] = epoll[fd] \/ (epoll'[fd] = co /\ fd \in polled)
      BY <2>0, <3>2
    <3> QED BY <2>2, <3>1, <3>3
  <2> QED BY <2>1, <2>2
<1>10. WaitTypes'
  BY <1>0, <1>4, <1>5, <1>6, <1>7, <1>8, <1>9 DEF WaitTypes
<1>11. WaitersLinked'
  <2>1. LinkedOnce'
    BY <1>1, <1>3, <1>7, ByItems
  <2>2. Linked \subseteq Linked' /\ Linked' \subseteq Linked \cup {co} /\ (new = "polling" => co \in Linked')
    BY <1>3, <1>7 DEF Linked
  <2>3. Linked \subseteq Cos /\ co \notin Linked
    BY <1>1, <1>2 DEF Linked
  <2>4. WaitersLinked
    BY <1>0 DEF Waiters
  <2>5. \A d \in Linked' : state'[d] \in {"polling", "waiting"}
    BY <1>4, <2>2, <2>3, <2>4 DEF WaitersLinked
  <2>6. ASSUME NEW d \in Cos
        PROVE  /\ state'[d] = "polling" => d \in Linked'
               /\ state'[d] = "waiting" => d \in Linked' \cup ToSet(cond')
    BY <1>4, <1>8, <2>2, <2>4 DEF WaitersLinked
  <2> QED BY <2>1, <2>5, <2>6 DEF WaitersLinked
<1>12. CondWaits'
  <2>1. \A d \in ToSet(cond') : state'[d] = "waiting"
    BY <1>0, <1>1, <1>2, <1>4, <1>8 DEF Waiters, CondWaits
  <2> QED BY <1>8, <2>1 DEF CondWaits
<1>13. ActiveRaised'
  <2>0. ActiveRaised /\ phase' = phase /\ now' = now /\ ullStart' = ullStart
    BY <1>0 DEF Waiters
  <2>1. \A d \in InActive : d # co /\ d \in Cos
    BY <1>1, <1>2
  <2>2. phase' # "drain" => \A d \in InActive' : state'[d] = "waiting"
    BY <1>3, <1>4, <2>0, <2>1 DEF ActiveRaised
  <2>3. \A d \in InActive' : state'[d] = "polling" => revents'[d] # {} \/ bTimeout'[d]
    BY <1>3, <1>4, <1>6, <1>9, <2>0, <2>1 DEF ActiveRaised
  <2>4. ASSUME NEW d \in Cos, bTimeout'[d]
        PROVE  /\ phase' = "drain" /\ d \in InActive' /\ ullStart' <= now'
               /\ now' < ullExpireTime'[d] => d \in logged'
    <3>1. d # co /\ bTimeout[d]
      BY <1>6, <2>4
    <3> QED BY <1>3, <1>5, <1>7, <2>0, <3>1 DEF ActiveRaised
  <2> QED BY <2>2, <2>3, <2>4 DEF ActiveRaised
<1>14. SlotsExact'
  <2>1. \A i : Ahead(i)' = Ahead(i)
    BY DEF Ahead
  <2>2. ASSUME NEW i \in Slots, NEW d \in ToSet(pItems'[i])
        PROVE  /\ ullStart + Ahead(i) <= ullExpireTime'[d]
               /\ d \notin logged' => ullStart + Ahead(i) = ullExpireTime'[d]
    <3>1. CASE d \in ToSet(pItems[i]) /\ d # co
      <4>1. d \in Cos
        BY <1>2, <1>3, <3>1, InSlot
      <4>2. ullStart + Ahead(i) <= ullExpireTime[d] /\ (d \notin logged => ullStart + Ahead(i) = ullExpireTime[d])
        BY <1>0, <3>1 DEF Waiters, SlotsExact
      <4> QED BY <1>5, <1>7, <3>1, <4>1, <4>2
    <3>2. CASE d = co /\ ullStart + Ahead(i) <= e /\ (co \notin logged' => ullStart + Ahead(i) = e)
      BY <1>5, <3>2
    <3> QED BY <1>7, <3>1, <3>2
  <2> QED BY <2>1, <2>2 DEF SlotsExact
<1>15. SignalNotLost'
  <2>1. ASSUME NEW d \in InRing', state'[d] = "waiting" PROVE d \in ToSet(cond') \cup logged'
    <3>1. CASE d = co
      BY <1>4, <1>8, <2>1, <3>1
    <3>2. CASE d # co
      BY <1>0, <1>2, <1>4, <1>7, <1>8, <2>1, <3>2 DEF Waiters, SignalNotLost
    <3> QED BY <3>1, <3>2
  <2> QED BY <2>1 DEF SignalNotLost
<1>16. EpollItemsLive'
  <2>1. ASSUME NEW fd \in Fds, epoll'[fd] # None
        PROVE  state'[epoll'[fd]] = "polling" /\ fd \in fds'[epoll'[fd]]
    <3>1. CASE epoll'[fd] = epoll[fd]
      <4>1. epoll[fd] \in Cos /\ epoll[fd] # co
        BY <1>0, <1>1, <2>1, <3>1 DEF WaitTypes
      <4>2. state[epoll[fd]] = "polling" /\ fd \in fds[epoll[fd]]
        BY <1>0, <2>1, <3>1 DEF Waiters, EpollItemsLive
      <4> QED BY <1>4, <1>9, <3>1, <4>1, <4>2
    <3>2. CASE epoll'[fd] = co /\ new = "polling" /\ fd \in fds'[co]
      BY <1>4, <3>2
    <3> QED BY <1>9, <3>1, <3>2
  <2> QED BY <2>1 DEF EpollItemsLive
<1> QED BY <1>10, <1>11, <1>12, <1>13, <1>14, <1>15, <1>16 DEF Waiters

\* The steps by which a coroutine gives the processor back.
LEMMA SuspendInv ==
  ASSUME IInv, NEW co \in Cos, Suspend(co)
  PROVE  IInv'
<1>0. /\ TypeOK /\ StackTypes /\ WaitTypes /\ CallStack /\ FramesKept /\ Waiters /\ state \in [Cos -> States]
      /\ clock \in Nat /\ ullStart \in Nat
  BY Types DEF IInv, WaitTypes
<1>1. CASE co_yield_ct(co) \/ CoRoutineFunc(co)
  BY <1>1, SwitchInv
<1>2. ASSUME NEW polled \in SUBSET {fd \in Fds : Owner[fd] = co}, NEW timeout \in PollTimeouts,
             co_poll_inner(co, polled, timeout)
      PROVE  IInv'
  <2>1. GetCurrCo = co /\ state' = [state EXCEPT ![co] = "polling"] /\ co_yield_env
    BY <1>2 DEF co_poll_inner, Running
  <2>2. StackTypes' /\ CallStack' /\ FramesKept'
    BY <1>0, <2>1, YieldStack DEF States
  <2>3. state[co] = "running"
    BY <1>0, <2>1, CurrFacts
  <2>4. Expiry(timeout) \in Nat /\ Expiry(timeout) >= ullStart /\ polled \in SUBSET Fds
    <3>1. timeout \in Int /\ INT_MAX \in Nat
      BY LibcoAssumption
    <3>2. Expiry(timeout) \in Nat
      BY <1>0, <3>1 DEF Expiry
    <3>3. clock >= ullStart /\ Expiry(timeout) >= clock
      BY <1>2 DEF co_poll_inner, TimeoutAccepted
    <3> QED BY <1>0, <3>2, <3>3
  <2> DEFINE e == Expiry(timeout)
  <2>5. /\ ullExpireTime' = [ullExpireTime EXCEPT ![co] = e]
        /\ bTimeout' = [bTimeout EXCEPT ![co] = FALSE]
        /\ pItems' = AddTimeout(pItems, co, e)
        /\ logged' = IF BeyondRing(e) THEN logged \cup {co} ELSE logged
        /\ cond' = cond /\ fds' = [fds EXCEPT ![co] = polled]
        /\ revents' = [revents EXCEPT ![co] = {}] /\ epoll' = Registered(co, polled)
        /\ UNCHANGED <<clock, ullStart, llStartIdx, pstActiveList, phase, now, ready>>
    BY <1>2 DEF co_poll_inner
  <2>6. e \in Nat /\ e >= ullStart
    BY <2>4
  <2> HIDE DEF e
  <2>7. WaitTypes' /\ Waiters'
    BY <2>1, <2>3, <2>4, <2>5, <2>6, ParkInv
  <2> QED BY <2>2, <2>7, Types DEF IInv
<1>3. ASSUME NEW ms \in CondTimeouts, co_cond_timedwait(co, ms)
      PROVE  IInv'
  <2>1. GetCurrCo = co /\ state' = [state EXCEPT ![co] = "waiting"] /\ co_yield_env
    BY <1>3 DEF co_cond_timedwait, Running
  <2>2. StackTypes' /\ CallStack' /\ FramesKept'
    BY <1>0, <2>1, YieldStack DEF States
  <2>3. state[co] = "running"
    BY <1>0, <2>1, CurrFacts
  <2>4. ms \in Nat
    BY LibcoAssumption
  <2> DEFINE e == IF ms > 0 THEN clock + ms ELSE 0
  <2>5. e \in Nat
    BY <1>0, <2>4
  <2>6. \/ /\ e >= ullStart /\ pItems' = AddTimeout(pItems, co, e)
           /\ logged' = IF BeyondRing(e) THEN logged \cup {co} ELSE logged
        \/ UNCHANGED <<pItems, logged>>
    <3>1. CASE ms > 0
      <4>1. e = clock + ms /\ clock >= ullStart /\ e >= clock
        BY <1>3, <3>1 DEF co_cond_timedwait, TimeoutAccepted
      <4>2. e >= ullStart
        BY <1>0, <2>5, <4>1
      <4>3. pItems' = AddTimeout(pItems, co, e) /\ logged' = IF BeyondRing(e) THEN logged \cup {co} ELSE logged
        BY <1>3, <3>1 DEF co_cond_timedwait
      <4> QED BY <4>2, <4>3
    <3>2. CASE ~(ms > 0)
      BY <1>3, <3>2 DEF co_cond_timedwait
    <3> QED BY <3>1, <3>2
  <2>7. /\ ullExpireTime' = [ullExpireTime EXCEPT ![co] = e]
        /\ bTimeout' = [bTimeout EXCEPT ![co] = FALSE] /\ cond' = AddTail(cond, co)
        /\ UNCHANGED <<clock, ullStart, llStartIdx, pstActiveList, phase, now, ready>>
        /\ UNCHANGED <<fds, revents, epoll>>
    BY <1>3 DEF co_cond_timedwait
  <2> HIDE DEF e
  <2>8. WaitTypes' /\ Waiters'
    BY <2>1, <2>3, <2>5, <2>6, <2>7, ParkInv
  <2> QED BY <2>2, <2>8, Types DEF IInv
<1> QED BY <1>1, <1>2, <1>3 DEF Suspend

\* co_cond_signal and co_cond_broadcast: the signalled waiters go from the
\* condition's list, and wherever their timeouts are, to the active list.
LEMMA SignalInv ==
  ASSUME IInv, co_cond_signal \/ co_cond_broadcast
  PROVE  IInv'
<1>0. TypeOK /\ StackTypes /\ WaitTypes /\ CallStack /\ FramesKept /\ Waiters
  BY Types DEF IInv
<1>1. /\ UNCHANGED <<clock, ullStart, llStartIdx, phase, now, epoll, ready, itemVars>>
      /\ UNCHANGED <<pCallStack, stackVars, state>> /\ cond # <<>>
  BY DEF co_cond_signal, co_cond_broadcast
<1>2. /\ cond \in Seq(Cos) /\ Distinct(cond) /\ pstActiveList \in Seq(Cos) /\ Distinct(pstActiveList)
      /\ pItems \in [Slots -> Seq(Cos)] /\ Exclusive(pItems) /\ InRing = RingOf(pItems)
      /\ InRing' = RingOf(pItems') /\ InRing \cap InActive = {}
      /\ InActive = ToSet(pstActiveList) /\ InActive' = ToSet(pstActiveList')
  BY <1>0, ByItems DEF WaitTypes, Waiters, CondWaits, WaitersLinked
<1>3. PICK gone \in SUBSET ToSet(cond) :
        /\ pItems' = [i \in Slots |-> Without(pItems[i], gone)]
        /\ pstActiveList' \in Seq(Cos) /\ Distinct(pstActiveList') /\ InActive' = InActive \cup gone
        /\ cond' \in Seq(Cos) /\ Distinct(cond') /\ ToSet(cond') = ToSet(cond) \ gone
  <2>1. CASE co_cond_signal
    <3> DEFINE co == Head(cond)
               rest == Without(pstActiveList, {co})
    <3>1. /\ co \in Cos /\ co \in ToSet(cond) /\ cond' \in Seq(Cos) /\ Distinct(cond')
          /\ ToSet(cond') = ToSet(cond) \ {co}
      BY <1>1, <1>2, <2>1, PopHeadFacts DEF co_cond_signal
    <3>2. /\ pItems' = [i \in Slots |-> Without(pItems[i], {co})] /\ pstActiveList' = AddTail(rest, co)
      BY <2>1 DEF co_cond_signal, Activate, RemoveFromLink
    <3>3. rest \in Seq(Cos) /\ Distinct(rest) /\ ToSet(rest) = InActive \ {co}
      BY <1>2, WithoutFacts
    <3> HIDE DEF co, rest
    <3>4. /\ AddTail(rest, co) \in Seq(Cos) /\ ToSet(AddTail(rest, co)) = (InActive \ {co}) \cup {co}
          /\ Distinct(AddTail(rest, co))
      BY <3>1, <3>3, AddTailFacts
    <3>5. InActive' = InActive \cup {co}
      BY <1>2, <3>2, <3>4
    <3> QED BY <3>1, <3>2, <3>4, <3>5
  <2>2. CASE co_cond_broadcast
    <3> DEFINE rest == Without(pstActiveList, ToSet(cond))
    <3>1. /\ cond' = <<>> /\ pItems' = [i \in Slots |-> Without(pItems[i], ToSet(cond))]
          /\ pstActiveList' = rest \o cond
      BY <2>2 DEF co_cond_broadcast
    <3>2. rest \in Seq(Cos) /\ Distinct(rest) /\ ToSet(rest) = InActive \ ToSet(cond)
      BY <1>2, WithoutFacts
    <3> HIDE DEF rest
    <3>3. ToSet(rest) \cap ToSet(cond) = {}
      BY <3>2
    <3>4. /\ pstActiveList' \in Seq(Cos) /\ Distinct(pstActiveList')
          /\ ToSet(pstActiveList') = ToSet(rest) \cup ToSet(cond)
      BY <1>2, <3>1, <3>2, <3>3, JoinFacts
    <3>5. InActive' = InActive \cup ToSet(cond)
      BY <1>2, <3>2, <3>4
    <3>6. cond' \in Seq(Cos) /\ Distinct(cond') /\ ToSet(cond') = {}
      BY <3>1 DEF Distinct, ToSet
    <3> QED BY <3>1, <3>4, <3>5, <3>6
  <2> QED BY <2>1, <2>2
<1>4. /\ pItems' \in [Slots -> Seq(Cos)] /\ Exclusive(pItems') /\ InRing' = InRing \ gone
      /\ \A i \in Slots : ToSet(pItems'[i]) = ToSet(pItems[i]) \ gone
  <2>1. pItems' = Unlinked(pItems, gone)
    BY <1>3 DEF Unlinked
  <2>2. /\ pItems' \in [Slots -> Seq(Cos)] /\ Exclusive(pItems') /\ RingOf(pItems') = RingOf(pItems) \ gone
        /\ \A i \in Slots : ToSet(pItems'[i]) = ToSet(pItems[i]) \ gone
    BY <1>2, <2>1, UnlinkFacts
  <2> QED BY <1>2, <2>2
<1>5. WaitTypes'
  BY <1>0, <1>1, <1>3, <1>4 DEF WaitTypes, itemVars
<1>6. StackTypes' /\ CallStack' /\ FramesKept'
  BY <1>0, <1>1, StacksSame
<1>7. \A d \in gone : state[d] = "waiting"
  BY <1>0, <1>3 DEF Waiters, CondWaits
<1>8. WaitersLinked'
  <2>1. LinkedOnce'
    BY <1>2, <1>3, <1>4, ByItems
  <2>2. Linked' = Linked \cup gone
    BY <1>3, <1>4 DEF Linked
  <2>3. \A d \in Linked' : state'[d] \in {"polling", "waiting"}
    BY <1>0, <1>1, <1>7, <2>2 DEF Waiters, WaitersLinked
  <2>4. \A d \in Cos : /\ state'[d] = "polling" => d \in Linked'
                       /\ state'[d] = "waiting" => d \in Linked' \cup ToSet(cond')
    BY <1>0, <1>1, <1>3, <2>2 DEF Waiters, WaitersLinked
  <2> QED BY <2>1, <2>3, <2>4 DEF WaitersLinked
<1>9. CondWaits'
  BY <1>0, <1>1, <1>3 DEF Waiters, CondWaits
<1>10. ActiveRaised'
  BY <1>0, <1>1, <1>3, <1>7 DEF Waiters, ActiveRaised, itemVars
<1>11. SlotsExact'
  BY <1>0, <1>1, <1>4 DEF Waiters, SlotsExact, Ahead, itemVars
<1>12. SignalNotLost'
  BY <1>0, <1>1, <1>3, <1>4 DEF Waiters, SignalNotLost, itemVars
<1>13. EpollItemsLive'
  BY <1>0, <1>1 DEF Waiters, EpollItemsLive, itemVars
<1>14. Waiters'
  BY <1>8, <1>9, <1>10, <1>11, <1>12, <1>13 DEF Waiters
<1> QED BY <1>5, <1>6, <1>14, Types DEF IInv

\* Readd: a timeout raised too early goes back into the ring.
LEMMA ReaddInv ==
  ASSUME IInv, Readd
  PROVE  IInv'
<1> DEFINE co == Head(pstActiveList)
           e == ullExpireTime[co]
<1>0. TypeOK /\ StackTypes /\ WaitTypes /\ CallStack /\ FramesKept /\ Waiters
  BY Types DEF IInv
<1>1. /\ phase = "drain" /\ pstActiveList # <<>> /\ TooEarly(co) /\ TimeoutAccepted(e, now)
      /\ pItems' = AddTimeout(pItems, co, e) /\ bTimeout' = [bTimeout EXCEPT ![co] = FALSE]
      /\ logged' = IF BeyondRing(e) THEN logged \cup {co} ELSE logged
      /\ pstActiveList' = PopHead(pstActiveList)
      /\ UNCHANGED <<clock, ullStart, llStartIdx, phase, now, epoll, ready, ullExpireTime, fds, revents, cond>>
      /\ UNCHANGED <<pCallStack, stackVars, state>>
  BY DEF Readd
<1>2. /\ pstActiveList \in Seq(Cos) /\ Distinct(pstActiveList)
      /\ pItems \in [Slots -> Seq(Cos)] /\ Exclusive(pItems) /\ InRing = RingOf(pItems)
      /\ InRing' = RingOf(pItems') /\ InRing \cap InActive = {}
      /\ InActive = ToSet(pstActiveList) /\ InActive' = ToSet(pstActiveList')
  BY <1>0, ByItems DEF WaitTypes, Waiters, WaitersLinked
<1>3. /\ co \in Cos /\ co \in InActive /\ pstActiveList' \in Seq(Cos) /\ Distinct(pstActiveList')
      /\ InActive' = InActive \ {co}
  BY <1>1, <1>2, PopHeadFacts
<1> HIDE DEF co
<1>4. /\ now \in Nat /\ ullStart \in Nat /\ e \in Nat /\ bTimeout[co] /\ now < e
      /\ now >= ullStart /\ e >= now
  BY <1>0, <1>1, <1>3 DEF WaitTypes, TooEarly, TimeoutAccepted
<1>5. e >= ullStart
  BY <1>4
<1>6. co \in logged
  BY <1>0, <1>3, <1>4 DEF Waiters, ActiveRaised
<1>7. logged' = logged /\ e = ullExpireTime'[co] /\ ullExpireTime' = ullExpireTime
  BY <1>1, <1>6
<1> HIDE DEF e
<1>8. /\ pItems' \in [Slots -> Seq(Cos)] /\ Exclusive(pItems') /\ InRing' = InRing \cup {co}
      /\ \A i \in Slots : \A d \in ToSet(pItems'[i]) :
            \/ d \in ToSet(pItems[i])
            \/ d = co /\ ullStart + Ahead(i) <= e
  <2>1. co \notin RingOf(pItems)
    BY <1>2, <1>3
  <2> QED BY <1>0, <1>1, <1>2, <1>3, <1>4, <1>5, <2>1, AddTimeoutFacts
<1>9. /\ bTimeout' \in [Cos -> BOOLEAN] /\ ~bTimeout'[co] /\ \A d \in Cos : d # co => bTimeout'[d] = bTimeout[d]
  BY <1>0, <1>1, <1>3 DEF WaitTypes
<1>10. WaitTypes'
  BY <1>0, <1>1, <1>3, <1>7, <1>8, <1>9 DEF WaitTypes
<1>11. StackTypes' /\ CallStack' /\ FramesKept'
  BY <1>0, <1>1, StacksSame
<1>12. WaitersLinked'
  <2>1. LinkedOnce'
    BY <1>2, <1>3, <1>8, ByItems
  <2>2. Linked' = Linked
    BY <1>3, <1>8 DEF Linked
  <2> QED BY <1>0, <1>1, <2>1, <2>2 DEF Waiters, WaitersLinked
<1>13. CondWaits'
  BY <1>0, <1>1 DEF Waiters, CondWaits
<1>14. ActiveRaised'
  <2>1. ActiveRaised /\ InActive \subseteq Cos
    BY <1>0, ListedCos DEF Waiters
  <2>2. \A d \in InActive' : state'[d] = "polling" => revents'[d] # {} \/ bTimeout'[d]
    BY <1>1, <1>3, <1>9, <2>1 DEF ActiveRaised
  <2>3. ASSUME NEW d \in Cos, bTimeout'[d]
        PROVE  /\ phase' = "drain" /\ d \in InActive' /\ ullStart' <= now'
               /\ now' < ullExpireTime'[d] => d \in logged'
    <3>1. d # co /\ bTimeout[d]
      BY <1>9, <2>3
    <3> QED BY <1>1, <1>3, <1>7, <2>1, <3>1 DEF ActiveRaised
  <2> QED BY <1>1, <2>2, <2>3 DEF ActiveRaised
<1>15. SlotsExact'
  <2>1. ASSUME NEW i \in Slots, NEW d \in ToSet(pItems'[i])
        PROVE  /\ ullStart + Ahead(i) <= ullExpireTime[d]
               /\ d \notin logged => ullStart + Ahead(i) = ullExpireTime[d]
    <3>1. CASE d \in ToSet(pItems[i])
      BY <1>0, <3>1 DEF Waiters, SlotsExact
    <3>2. CASE d = co /\ ullStart + Ahead(i) <= e
      BY <1>6, <1>7, <3>2
    <3> QED BY <1>8, <3>1, <3>2
  <2>2. \A i : Ahead(i)' = Ahead(i)
    BY <1>1 DEF Ahead
  <2> QED BY <1>1, <1>7, <2>1, <2>2 DEF SlotsExact
<1>16. SignalNotLost'
  BY <1>0, <1>1, <1>6, <1>7, <1>8 DEF Waiters, SignalNotLost
<1>17. EpollItemsLive'
  BY <1>0, <1>1 DEF Waiters, EpollItemsLive
<1>18. Waiters'
  BY <1>12, <1>13, <1>14, <1>15, <1>16, <1>17 DEF Waiters
<1> QED BY <1>10, <1>11, <1>18, Types DEF IInv

\* Process: the head of the active list is resumed and leaves every list.
LEMMA ProcessInv ==
  ASSUME IInv, Process
  PROVE  IInv'
<1> DEFINE co == Head(pstActiveList)
<1>0. /\ TypeOK /\ StackTypes /\ WaitTypes /\ CallStack /\ FramesKept /\ Waiters /\ state \in [Cos -> States]
  BY Types DEF IInv, WaitTypes
<1>1. /\ phase = "drain" /\ pstActiveList # <<>>
      /\ state' = [state EXCEPT ![co] = "running"] /\ epoll' = Unregistered(co)
      /\ fds' = [fds EXCEPT ![co] = {}] /\ revents' = [revents EXCEPT ![co] = {}]
      /\ ullExpireTime' = [ullExpireTime EXCEPT ![co] = 0] /\ bTimeout' = [bTimeout EXCEPT ![co] = FALSE]
      /\ logged' = logged \ {co} /\ cond' = Without(cond, {co}) /\ co_resume(co)
      /\ pstActiveList' = PopHead(pstActiveList)
      /\ UNCHANGED <<clock, ullStart, llStartIdx, pItems, phase, now, ready>>
  BY DEF Process, RemoveFromLink, ringVars
<1>2. /\ pstActiveList \in Seq(Cos) /\ Distinct(pstActiveList) /\ cond \in Seq(Cos) /\ Distinct(cond)
      /\ Exclusive(pItems) /\ InRing = RingOf(pItems)
      /\ InRing' = RingOf(pItems') /\ InRing \cap InActive = {}
      /\ InActive = ToSet(pstActiveList) /\ InActive' = ToSet(pstActiveList')
  BY <1>0, ByItems DEF WaitTypes, Waiters, WaitersLinked, CondWaits
<1>3. /\ co \in Cos /\ co \in InActive /\ pstActiveList' \in Seq(Cos) /\ Distinct(pstActiveList')
      /\ InActive' = InActive \ {co}
  BY <1>1, <1>2, PopHeadFacts
<1>4. cond' \in Seq(Cos) /\ Distinct(cond') /\ ToSet(cond') = ToSet(cond) \ {co}
  BY <1>1, <1>2, WithoutFacts
<1> HIDE DEF co
<1>5. state[co] \in {"polling", "waiting"} /\ co \notin InRing
  BY <1>0, <1>2, <1>3 DEF Waiters, WaitersLinked, Linked
<1>6. StackTypes' /\ CallStack' /\ FramesKept'
  BY <1>0, <1>1, <1>3, <1>5, ResumeStack DEF States
<1>7. /\ state' \in [Cos -> States] /\ state'[co] = "running" /\ \A d \in Cos : d # co => state'[d] = state[d]
  BY <1>0, <1>1, <1>3 DEF States
<1>8. /\ bTimeout' \in [Cos -> BOOLEAN] /\ ~bTimeout'[co] /\ \A d \in Cos : d # co => bTimeout'[d] = bTimeout[d]
  BY <1>0, <1>1, <1>3 DEF WaitTypes
<1>9. /\ ullExpireTime' \in [Cos -> Nat] /\ \A d \in Cos : d # co => ullExpireTime'[d] = ullExpireTime[d]
  BY <1>0, <1>1, <1>3 DEF WaitTypes
<1>10. /\ fds' \in [Cos -> SUBSET Fds] /\ revents' \in [Cos -> SUBSET Fds] /\ logged' \in SUBSET Cos
       /\ \A d \in Cos : d # co => /\ fds'[d] = fds[d] /\ revents'[d] = revents[d]
                                   /\ d \in logged' <=> d \in logged
  BY <1>0, <1>1, <1>3 DEF WaitTypes
<1>11. /\ epoll' \in [Fds -> Cos \cup {None}]
       /\ \A fd \in Fds : epoll'[fd] # None => epoll'[fd] = epoll[fd] /\ fd \notin fds[co]
  BY <1>0, <1>1 DEF WaitTypes, Unregistered
<1>12. WaitTypes'
  BY <1>0, <1>1, <1>3, <1>4, <1>7, <1>8, <1>9, <1>10, <1>11 DEF WaitTypes
<1>13. InRing' = InRing /\ InRing \subseteq Cos /\ InActive \subseteq Cos /\ ToSet(cond) \subseteq Cos
  BY <1>0, <1>1, <1>2, ListedCos
<1>14. WaitersLinked'
  <2>1. LinkedOnce'
    BY <1>1, <1>2, <1>3, <1>13, ByItems
  <2>2. Linked' = Linked \ {co} /\ Linked \subseteq Cos
    BY <1>3, <1>5, <1>13 DEF Linked
  <2>3. WaitersLinked
    BY <1>0 DEF Waiters
  <2>4. \A d \in Linked' : state'[d] \in {"polling", "waiting"}
    BY <1>7, <2>2, <2>3 DEF WaitersLinked
  <2>5. \A d \in Cos : /\ state'[d] = "polling" => d \in Linked'
                       /\ state'[d] = "waiting" => d \in Linked' \cup ToSet(cond')
    BY <1>4, <1>7, <2>2, <2>3 DEF WaitersLinked
  <2> QED BY <2>1, <2>4, <2>5 DEF WaitersLinked
<1>15. CondWaits'
  BY <1>0, <1>4, <1>7, <1>13 DEF Waiters, CondWaits
<1>16. ActiveRaised'
  <2>1. ActiveRaised
    BY <1>0 DEF Waiters
  <2>2. \A d \in InActive' : state'[d] = "polling" => revents'[d] # {} \/ bTimeout'[d]
    BY <1>3, <1>7, <1>8, <1>10, <1>13, <2>1 DEF ActiveRaised
  <2>3. ASSUME NEW d \in Cos, bTimeout'[d]
        PROVE  /\ phase' = "drain" /\ d \in InActive' /\ ullStart' <= now'
               /\ now' < ullExpireTime'[d] => d \in logged'
    <3>1. d # co /\ bTimeout[d]
      BY <1>8, <2>3
    <3> QED BY <1>1, <1>3, <1>9, <1>10, <2>1, <3>1 DEF ActiveRaised
  <2> QED BY <1>1, <2>2, <2>3 DEF ActiveRaised
<1>17. SlotsExact'
  <2>1. ASSUME NEW i \in Slots, NEW d \in ToSet(pItems[i])
        PROVE  /\ ullStart + Ahead(i) <= ullExpireTime'[d]
               /\ d \notin logged' => ullStart + Ahead(i) = ullExpireTime'[d]
    <3>1. d \in Cos /\ d # co
      BY <1>2, <1>5, <1>13, InSlot
    <3> QED BY <1>0, <1>9, <1>10, <3>1 DEF Waiters, SlotsExact
  <2>2. \A i : Ahead(i)' = Ahead(i)
    BY <1>1 DEF Ahead
  <2> QED BY <1>1, <2>1, <2>2 DEF SlotsExact
<1>18. SignalNotLost'
  BY <1>0, <1>4, <1>5, <1>7, <1>10, <1>13 DEF Waiters, SignalNotLost
<1>19. EpollItemsLive'
  <2>1. ASSUME NEW fd \in Fds, epoll'[fd] # None
        PROVE  state'[epoll'[fd]] = "polling" /\ fd \in fds'[epoll'[fd]]
    <3>1. epoll'[fd] = epoll[fd] /\ fd \notin fds[co] /\ epoll[fd] \in Cos
      BY <1>0, <1>11, <2>1 DEF WaitTypes
    <3>2. state[epoll[fd]] = "polling" /\ fd \in fds[epoll[fd]]
      BY <1>0, <2>1, <3>1 DEF Waiters, EpollItemsLive
    <3> QED BY <1>7, <1>10, <3>1, <3>2
  <2> QED BY <2>1 DEF EpollItemsLive
<1>20. Waiters'
  BY <1>14, <1>15, <1>16, <1>17, <1>18, <1>19 DEF Waiters
<1> QED BY <1>6, <1>12, <1>20, Types DEF IInv

\* The slots that TakeAllTimeout leaves keep their time once the ring has turned.
LEMMA Turned ==
  ASSUME NEW s \in Slots, NEW cnt \in 1 .. RingSize, NEW t, t = (s + cnt - 1) % RingSize
  PROVE  /\ t \in Slots
         /\ \A i \in Slots : (i - s) % RingSize >= cnt => (i - t) % RingSize = ((i - s) % RingSize) - (cnt - 1)
<1>1. RingSize \in Nat \ {0} /\ s \in Nat /\ s < RingSize /\ cnt \in Nat /\ cnt >= 1 /\ cnt <= RingSize
  BY LibcoAssumption DEF Slots
<1>2. cnt - 1 \in Slots /\ s + (cnt - 1) = s + cnt - 1
  BY <1>1 DEF Slots
<1>3. t = IF s + (cnt - 1) < RingSize THEN s + (cnt - 1) ELSE s + (cnt - 1) - RingSize
  BY <1>2, Modulo
<1>4. t \in Slots
  BY <1>1, <1>3 DEF Slots
<1>5. ASSUME NEW i \in Slots, (i - s) % RingSize >= cnt
      PROVE  (i - t) % RingSize = ((i - s) % RingSize) - (cnt - 1)
  <2>1. (i - s) % RingSize = IF i >= s THEN i - s ELSE i - s + RingSize
    BY Modulo
  <2>2. (i - t) % RingSize = IF i >= t THEN i - t ELSE i - t + RingSize
    BY <1>4, Modulo
  <2>3. i \in Nat /\ i < RingSize
    BY <1>1 DEF Slots
  <2> QED BY <1>1, <1>3, <1>5, <2>1, <2>2, <2>3
<1> QED BY <1>4, <1>5

\* The slots whose time has come, and the others.
Remaining(items, cnt) == [i \in Slots |-> IF Ahead(i) < cnt THEN <<>> ELSE items[i]]

\* TakeAllTimeout takes the items whose time has come and leaves the others where
\* their time is.
LEMMA TakeFacts ==
  ASSUME TypeOK, NEW kept \in [Slots -> Seq(Cos)], Exclusive(kept), NEW cnt, cnt = TakenSlots(clock),
         ullStart' = IF cnt = 0 THEN ullStart ELSE clock,
         llStartIdx' = IF cnt = 0 THEN llStartIdx ELSE (llStartIdx + cnt - 1) % RingSize
  PROVE  /\ TakeAllTimeout(kept, clock) \in Seq(Cos) /\ Distinct(TakeAllTimeout(kept, clock))
         /\ Remaining(kept, cnt) \in [Slots -> Seq(Cos)] /\ Exclusive(Remaining(kept, cnt))
         /\ RingOf(Remaining(kept, cnt)) \cup ToSet(TakeAllTimeout(kept, clock)) = RingOf(kept)
         /\ RingOf(Remaining(kept, cnt)) \cap ToSet(TakeAllTimeout(kept, clock)) = {}
         /\ ullStart' \in 1 .. MaxTime /\ llStartIdx' \in Slots
         /\ \A d \in ToSet(TakeAllTimeout(kept, clock)) :
               /\ ullStart' = clock
               /\ \E i \in Slots : d \in ToSet(kept[i]) /\ ullStart + Ahead(i) <= clock
         /\ \A i \in Slots : \A d \in ToSet(Remaining(kept, cnt)[i]) :
               d \in ToSet(kept[i]) /\ ullStart' + Ahead(i)' = ullStart + Ahead(i)
<1> DEFINE late == TakeAllTimeout(kept, clock)
           items == Remaining(kept, cnt)
<1>0. /\ RingSize \in Nat \ {0} /\ clock \in 1 .. MaxTime /\ ullStart \in 1 .. MaxTime /\ llStartIdx \in Slots
      /\ MaxTime \in Nat /\ clock \in Nat /\ ullStart \in Nat
  BY LibcoAssumption DEF TypeOK
<1>1. /\ cnt \in 0 .. RingSize
      /\ cnt # 0 => /\ clock >= ullStart /\ cnt <= clock - ullStart + 1
                    /\ cnt = clock - ullStart + 1 \/ cnt = RingSize
  BY <1>0 DEF TakenSlots
<1>2. \A i \in Slots : Ahead(i) \in Slots /\ Ahead(i) \in Nat /\ Ahead(i) < RingSize
  <2>1. \A i \in Slots : Ahead(i) = IF i >= llStartIdx THEN i - llStartIdx ELSE i - llStartIdx + RingSize
    BY <1>0, Modulo DEF Ahead
  <2> QED BY <1>0, <2>1 DEF Slots
<1>3. ASSUME NEW i \in Slots PROVE Slot(llStartIdx, Ahead(i)) = i
  <2>1. Ahead(i) = IF i >= llStartIdx THEN i - llStartIdx ELSE i - llStartIdx + RingSize
    BY <1>0, Modulo DEF Ahead
  <2>2. Slot(llStartIdx, Ahead(i)) = IF llStartIdx + Ahead(i) < RingSize THEN llStartIdx + Ahead(i)
                                     ELSE llStartIdx + Ahead(i) - RingSize
    BY <1>0, <1>2, Modulo DEF Slot
  <2> QED BY <1>0, <2>1, <2>2 DEF Slots
<1>4. ASSUME NEW d \in 0 .. cnt - 1
      PROVE  Slot(llStartIdx, d) \in Slots /\ Ahead(Slot(llStartIdx, d)) = d
  <2>1. d \in Slots
    BY <1>0, <1>1 DEF Slots
  <2>2. Slot(llStartIdx, d) = IF llStartIdx + d < RingSize THEN llStartIdx + d
                              ELSE llStartIdx + d - RingSize
    BY <1>0, <2>1, Modulo DEF Slot
  <2>3. Slot(llStartIdx, d) \in Slots
    BY <1>0, <2>1, <2>2 DEF Slots
  <2> DEFINE i == Slot(llStartIdx, d)
  <2> HIDE DEF i
  <2>4. i \in Slots /\ i = Slot(llStartIdx, d)
    BY <2>3 DEF i
  <2>5. Ahead(i) = IF i >= llStartIdx THEN i - llStartIdx ELSE i - llStartIdx + RingSize
    BY <1>0, <2>4, Modulo DEF Ahead
  <2>6. Ahead(i) = d
    BY <1>0, <2>1, <2>2, <2>4, <2>5 DEF Slots
  <2> QED BY <2>4, <2>6
<1>5. /\ late \in Seq(Cos) /\ Distinct(late)
      /\ ToSet(late) = UNION {ToSet(kept[Slot(llStartIdx, d)]) : d \in 0 .. cnt - 1}
  BY <1>0, <1>1, JoinSlotsFacts DEF TakeAllTimeout, Exclusive
<1> HIDE DEF late
<1>6. \A d : d \in ToSet(late) <=> \E i \in Slots : Ahead(i) < cnt /\ d \in ToSet(kept[i])
  <2>1. ASSUME NEW d \in ToSet(late) PROVE \E i \in Slots : Ahead(i) < cnt /\ d \in ToSet(kept[i])
    <3>1. PICK m \in 0 .. cnt - 1 : d \in ToSet(kept[Slot(llStartIdx, m)])
      BY <1>5
    <3> DEFINE i == Slot(llStartIdx, m)
    <3>2. i \in Slots /\ Ahead(i) = m
      BY <1>4
    <3> HIDE DEF i
    <3>3. Ahead(i) < cnt
      BY <1>1, <3>2
    <3> QED BY <3>1, <3>2, <3>3 DEF i
  <2>2. ASSUME NEW d, NEW i \in Slots, Ahead(i) < cnt, d \in ToSet(kept[i]) PROVE d \in ToSet(late)
    <3>1. Ahead(i) \in 0 .. cnt - 1
      BY <1>1, <1>2, <2>2
    <3>2. d \in ToSet(kept[Slot(llStartIdx, Ahead(i))])
      BY <1>3, <2>2
    <3> QED BY <1>5, <3>1, <3>2
  <2> QED BY <2>1, <2>2
<1>7. \A i \in Slots : items[i] = IF Ahead(i) < cnt THEN <<>> ELSE kept[i]
  BY DEF Remaining
<1>8. ToSet(<<>>) = {} /\ Distinct(<<>>) /\ <<>> \in Seq(Cos)
  BY DEF ToSet, Distinct
<1>9. items \in [Slots -> Seq(Cos)]
  <2>1. items = [i \in Slots |-> IF Ahead(i) < cnt THEN <<>> ELSE kept[i]]
    BY DEF Remaining
  <2>2. \A i \in Slots : (IF Ahead(i) < cnt THEN <<>> ELSE kept[i]) \in Seq(Cos)
    BY <1>8
  <2> QED BY <2>1, <2>2
<1>10. \A i \in Slots : /\ Distinct(items[i]) /\ ToSet(items[i]) \subseteq ToSet(kept[i])
                        /\ \A d \in ToSet(items[i]) : ~(Ahead(i) < cnt)
  BY <1>7, <1>8 DEF Exclusive
<1>11. Exclusive(items)
  BY <1>10 DEF Exclusive
<1>12. /\ RingOf(items) \cup ToSet(late) = RingOf(kept) /\ RingOf(items) \cap ToSet(late) = {}
  <2>1. \A d : d \in RingOf(items) <=> \E i \in Slots : d \in ToSet(items[i])
    BY InSlot
  <2>2. \A d : d \in RingOf(kept) <=> \E i \in Slots : d \in ToSet(kept[i])
    BY InSlot
  <2>3. ASSUME NEW d \in RingOf(kept) PROVE d \in RingOf(items) \cup ToSet(late)
    <3>1. PICK i \in Slots : d \in ToSet(kept[i])
      BY <2>2
    <3>2. CASE Ahead(i) < cnt
      BY <1>6, <3>1, <3>2
    <3>3. CASE ~(Ahead(i) < cnt)
      BY <1>7, <2>1, <3>1, <3>3
    <3> QED BY <3>2, <3>3
  <2>4. \A d \in RingOf(items) \cup ToSet(late) : d \in RingOf(kept)
    BY <1>6, <1>10, <2>1, <2>2
  <2>5. ASSUME NEW d \in RingOf(items), d \in ToSet(late) PROVE FALSE
    <3>1. PICK i \in Slots : d \in ToSet(items[i])
      BY <2>1
    <3>2. PICK j \in Slots : Ahead(j) < cnt /\ d \in ToSet(kept[j])
      BY <1>6, <2>5
    <3>3. d \in ToSet(kept[i]) /\ i # j
      BY <1>10, <3>1, <3>2
    <3> QED BY <3>2, <3>3 DEF Exclusive
  <2> QED BY <2>3, <2>4, <2>5
<1>13. llStartIdx' \in Slots /\ ullStart' \in 1 .. MaxTime
  <2>1. CASE cnt = 0
    BY <1>0, <2>1
  <2>2. CASE cnt # 0
    <3>1. cnt \in 1 .. RingSize
      BY <1>0, <1>1, <2>2
    <3> QED BY <1>0, <2>2, <3>1, Turned
  <2> QED BY <2>1, <2>2
<1>14. ASSUME NEW d \in ToSet(late)
       PROVE  ullStart' = clock /\ \E i \in Slots : d \in ToSet(kept[i]) /\ ullStart + Ahead(i) <= clock
  <2>1. PICK i \in Slots : Ahead(i) < cnt /\ d \in ToSet(kept[i])
    BY <1>6
  <2>2. cnt # 0 /\ ullStart + Ahead(i) <= clock
    BY <1>0, <1>1, <1>2, <2>1
  <2> QED BY <2>1, <2>2
<1>15. ASSUME NEW i \in Slots, NEW d \in ToSet(items[i])
       PROVE  d \in ToSet(kept[i]) /\ ullStart' + Ahead(i)' = ullStart + Ahead(i)
  <2>1. d \in ToSet(kept[i]) /\ ~(Ahead(i) < cnt)
    BY <1>10
  <2>2. CASE cnt = 0
    BY <2>1, <2>2 DEF Ahead
  <2>3. CASE cnt # 0
    <3>1. cnt \in 1 .. RingSize
      BY <1>0, <1>1, <2>3
    <3>2. cnt = clock - ullStart + 1 /\ Ahead(i) >= cnt
      BY <1>0, <1>1, <1>2, <2>1, <2>3
    <3>3. llStartIdx' = (llStartIdx + cnt - 1) % RingSize /\ ullStart' = clock
      BY <2>3
    <3> DEFINE s == llStartIdx
               t == llStartIdx'
               a == Ahead(i)
               b == Ahead(i)'
    <3>4. /\ s \in Slots /\ t = (s + cnt - 1) % RingSize
          /\ a = (i - s) % RingSize /\ b = (i - t) % RingSize
      BY <1>0, <3>3 DEF Ahead
    <3>5. a \in Nat /\ a >= cnt /\ ullStart' = clock
      BY <1>2, <3>2, <3>3
    <3> HIDE DEF s, t, a, b
    <3>6. b = a - (cnt - 1)
      BY <3>1, <3>4, <3>5, Turned
    <3>7. clock + b = ullStart + a
      BY <1>0, <3>2, <3>5, <3>6
    <3> QED BY <2>1, <3>5, <3>7 DEF a, b
  <2> QED BY <2>2, <2>3
<1> QED BY <1>5, <1>9, <1>11, <1>12, <1>13, <1>14, <1>15 DEF late

\* Wait: the polls with an event and the items whose time has come go to the
\* active list.
LEMMA WaitInv ==
  ASSUME IInv, Wait
  PROVE  IInv'
<1>0. TypeOK /\ StackTypes /\ WaitTypes /\ CallStack /\ FramesKept /\ Waiters
  BY Types DEF IInv
<1>1. /\ phase = "wait" /\ now' = clock /\ phase' = "drain"
      /\ UNCHANGED <<clock, epoll, ready, ullExpireTime, fds, logged, cond>>
      /\ UNCHANGED <<pCallStack, stackVars, state>>
  BY DEF Wait
<1> DEFINE cnt == TakenSlots(clock)
<1>2. PICK events \in SetToSeqs({fd \in ready : epoll[fd] # None}) :
        /\ revents' = [co \in Cos |-> revents[co] \cup {fd \in ToSet(events) : epoll[fd] = co}]
        /\ LET kept == [i \in Slots |-> Without(pItems[i], ToSet(Detached(events)))] IN
           /\ bTimeout' = [co \in Cos |-> bTimeout[co] \/ co \in ToSet(TakeAllTimeout(kept, clock))]
           /\ pstActiveList' = pstActiveList \o Detached(events) \o TakeAllTimeout(kept, clock)
           /\ pItems' = [i \in Slots |-> IF (i - llStartIdx) % RingSize < cnt THEN <<>> ELSE kept[i]]
        /\ ullStart' = IF cnt = 0 THEN ullStart ELSE clock
        /\ llStartIdx' = IF cnt = 0 THEN llStartIdx ELSE (llStartIdx + cnt - 1) % RingSize
  BY DEF Wait
<1>3. PICK detached, D, kept, late, L :
        /\ detached = Detached(events) /\ D = ToSet(detached) /\ kept = Unlinked(pItems, D)
        /\ late = TakeAllTimeout(kept, clock) /\ L = ToSet(late)
  OBVIOUS
<1>4. /\ bTimeout' = [co \in Cos |-> bTimeout[co] \/ co \in L]
      /\ pstActiveList' = pstActiveList \o detached \o late
      /\ pItems' = Remaining(kept, cnt)
  BY <1>2, <1>3 DEF Remaining, Ahead, Unlinked
<1>5. events \in Seq(Fds) /\ \A fd \in ToSet(events) : fd \in Fds /\ epoll[fd] # None
  <2>1. PICK n : n = Cardinality({fd \in ready : epoll[fd] # None})
    OBVIOUS
  <2>2. n \in Nat
    <3>1. {fd \in ready : epoll[fd] # None} \in SUBSET Fds
      BY <1>0 DEF WaitTypes
    <3>2. IsFiniteSet({fd \in ready : epoll[fd] # None})
      BY <3>1, LibcoAssumption, FS_Subset
    <3> QED BY <2>1, <3>2, FS_CardinalityType
  <2>3. events \in [1 .. n -> {fd \in ready : epoll[fd] # None}]
    BY <1>2, <2>1 DEF SetToSeqs
  <2>4. events \in Seq(Fds)
    BY <1>0, <2>2, <2>3 DEF WaitTypes
  <2> QED BY <1>0, <2>3, <2>4 DEF ToSet, WaitTypes
<1> HIDE DEF cnt
<1>6. /\ detached \in Seq(Cos) /\ Distinct(detached) /\ D = {epoll[fd] : fd \in ToSet(events)}
  <2>1. \A i \in DOMAIN events : epoll[events[i]] \in Cos
    BY <1>0, <1>5 DEF WaitTypes, ToSet
  <2> QED BY <1>3, <1>5, <2>1, DetachedFacts
<1>7. \A d \in D : d \in Cos /\ state[d] = "polling"
  <2>1. ASSUME NEW fd \in ToSet(events) PROVE epoll[fd] \in Cos /\ state[epoll[fd]] = "polling"
    BY <1>0, <1>5 DEF WaitTypes, Waiters, EpollItemsLive
  <2> QED BY <1>6, <2>1
<1>8. /\ pstActiveList \in Seq(Cos) /\ Distinct(pstActiveList) /\ Exclusive(pItems) /\ InRing = RingOf(pItems)
      /\ InRing' = RingOf(pItems') /\ InRing \cap InActive = {} /\ pItems \in [Slots -> Seq(Cos)]
      /\ InActive = ToSet(pstActiveList) /\ InActive' = ToSet(pstActiveList')
  BY <1>0, ByItems DEF WaitTypes, Waiters, WaitersLinked
<1>9. /\ kept \in [Slots -> Seq(Cos)] /\ Exclusive(kept) /\ RingOf(kept) = InRing \ D
      /\ \A i \in Slots : ToSet(kept[i]) = ToSet(pItems[i]) \ D
  <2>1. kept = Unlinked(pItems, D)
    BY <1>3
  <2>2. /\ kept \in [Slots -> Seq(Cos)] /\ Exclusive(kept) /\ RingOf(kept) = RingOf(pItems) \ D
        /\ \A i \in Slots : ToSet(kept[i]) = ToSet(pItems[i]) \ D
    <3>1. pItems \in [Slots -> Seq(Cos)] /\ Exclusive(pItems)
      BY <1>8
    <3> QED BY <2>1, <3>1, UnlinkFacts
  <2> QED BY <1>8, <2>2
<1>10. cnt = TakenSlots(clock) /\ late = TakeAllTimeout(kept, clock)
  BY <1>3 DEF cnt
<1>11. /\ late \in Seq(Cos) /\ Distinct(late) /\ pItems' \in [Slots -> Seq(Cos)] /\ Exclusive(pItems')
       /\ InRing' \cup L = InRing \ D /\ InRing' \cap L = {}
       /\ ullStart' \in 1 .. MaxTime /\ llStartIdx' \in Slots
       /\ \A d \in L : /\ ullStart' = clock
                       /\ \E i \in Slots : d \in ToSet(kept[i]) /\ ullStart + Ahead(i) <= clock
       /\ \A i \in Slots : \A d \in ToSet(pItems'[i]) :
             d \in ToSet(kept[i]) /\ ullStart' + Ahead(i)' = ullStart + Ahead(i)
  <2>1. /\ late \in Seq(Cos) /\ Distinct(late) /\ pItems' \in [Slots -> Seq(Cos)] /\ Exclusive(pItems')
        /\ RingOf(pItems') \cup L = RingOf(kept) /\ RingOf(pItems') \cap L = {}
        /\ ullStart' \in 1 .. MaxTime /\ llStartIdx' \in Slots
        /\ \A d \in L : /\ ullStart' = clock
                        /\ \E i \in Slots : d \in ToSet(kept[i]) /\ ullStart + Ahead(i) <= clock
        /\ \A i \in Slots : \A d \in ToSet(pItems'[i]) :
              d \in ToSet(kept[i]) /\ ullStart' + Ahead(i)' = ullStart + Ahead(i)
    <3>1. /\ ullStart' = IF cnt = 0 THEN ullStart ELSE clock
          /\ llStartIdx' = IF cnt = 0 THEN llStartIdx ELSE (llStartIdx + cnt - 1) % RingSize
      BY <1>2
    <3>2. pItems' = Remaining(kept, cnt)
      BY <1>4
    <3>3. TypeOK /\ kept \in [Slots -> Seq(Cos)] /\ Exclusive(kept) /\ L = ToSet(late)
      BY <1>0, <1>3, <1>9
    <3> QED BY <1>10, <3>1, <3>2, <3>3, TakeFacts
  <2> QED BY <1>8, <1>9, <2>1
<1>12. /\ InRing \subseteq Cos /\ InActive \subseteq Cos
       /\ \A d \in InActive : state[d] = "waiting"
       /\ \A d \in Cos : ~bTimeout[d]
  BY <1>0, <1>1, ListedCos DEF Waiters, ActiveRaised
<1>13. D \subseteq InRing
  <2>1. ASSUME NEW d \in D PROVE d \in InRing
    <3>1. d \in Linked
      BY <1>0, <1>7 DEF Waiters, WaitersLinked
    <3>2. d \notin InActive
      BY <1>7, <1>12
    <3> QED BY <3>1, <3>2 DEF Linked
  <2> QED BY <2>1
<1>14. pstActiveList' \in Seq(Cos) /\ Distinct(pstActiveList') /\ InActive' = InActive \cup D \cup L
  <2> DEFINE both == pstActiveList \o detached
  <2>1. InActive \cap D = {} /\ (InActive \cup D) \cap L = {}
    BY <1>8, <1>11, <1>13
  <2>2. both \in Seq(Cos) /\ Distinct(both) /\ ToSet(both) = InActive \cup D
    BY <1>6, <1>8, <2>1, <1>3, JoinFacts
  <2>3. pstActiveList' = both \o late
    BY <1>4
  <2> HIDE DEF both
  <2>4. both \o late \in Seq(Cos) /\ Distinct(both \o late) /\ ToSet(both \o late) = ToSet(both) \cup L
    BY <1>11, <2>1, <2>2, <1>3, JoinFacts
  <2> QED BY <1>8, <2>2, <2>3, <2>4
<1>15. /\ revents' \in [Cos -> SUBSET Fds] /\ bTimeout' \in [Cos -> BOOLEAN]
       /\ \A d \in Cos : bTimeout'[d] <=> d \in L
       /\ \A d \in D : revents'[d] # {}
  <2>1. revents' \in [Cos -> SUBSET Fds]
    BY <1>0, <1>2, <1>5 DEF WaitTypes
  <2>2. bTimeout' \in [Cos -> BOOLEAN] /\ \A d \in Cos : bTimeout'[d] <=> d \in L
    BY <1>4, <1>12, Zenon
  <2>3. ASSUME NEW d \in D PROVE revents'[d] # {}
    <3>1. PICK fd \in ToSet(events) : epoll[fd] = d
      BY <1>6
    <3>2. fd \in revents'[d]
      BY <1>2, <1>7, <3>1
    <3> QED BY <3>2
  <2> QED BY <2>1, <2>2, <2>3
<1>16. WaitTypes'
  BY <1>0, <1>1, <1>11, <1>14, <1>15 DEF WaitTypes
<1>17. StackTypes' /\ CallStack' /\ FramesKept'
  BY <1>0, <1>1, StacksSame
<1>18. WaitersLinked'
  <2>1. LinkedOnce'
    <3>1. InRing' \cap InActive' = {}
      BY <1>8, <1>11, <1>14
    <3> QED BY <1>11, <1>14, <3>1, ByItems
  <2>2. Linked' = Linked
    BY <1>11, <1>13, <1>14 DEF Linked
  <2> QED BY <1>0, <1>1, <2>1, <2>2 DEF Waiters, WaitersLinked
<1>19. CondWaits'
  BY <1>0, <1>1 DEF Waiters, CondWaits
<1>20. ActiveRaised'
  <2>1. \A d \in InActive' : state'[d] = "polling" => revents'[d] # {} \/ bTimeout'[d]
    <3>1. \A d \in L : d \in Cos
      BY <1>11, <1>12
    <3> QED BY <1>1, <1>12, <1>14, <1>15, <3>1
  <2>2. ASSUME NEW d \in Cos, bTimeout'[d]
        PROVE  /\ d \in InActive' /\ ullStart' <= now'
               /\ now' < ullExpireTime'[d] => d \in logged'
    <3>1. d \in L /\ ullStart' = clock
      BY <1>11, <1>15, <2>2
    <3>2. PICK i \in Slots : d \in ToSet(kept[i]) /\ ullStart + Ahead(i) <= clock
      BY <1>11, <3>1
    <3>3. d \notin logged => ullStart + Ahead(i) = ullExpireTime[d]
      BY <1>0, <1>9, <3>2 DEF Waiters, SlotsExact
    <3>4. clock \in Nat /\ ullExpireTime[d] \in Nat
      BY <1>0 DEF WaitTypes
    <3>5. clock < ullExpireTime[d] => d \in logged
      BY <3>2, <3>3, <3>4
    <3> QED BY <1>1, <1>14, <3>1, <3>4, <3>5
  <2> QED BY <1>1, <2>1, <2>2 DEF ActiveRaised
<1>21. SlotsExact'
  <2>1. ASSUME NEW i \in Slots, NEW d \in ToSet(pItems'[i])
        PROVE  /\ ullStart' + Ahead(i)' <= ullExpireTime'[d]
               /\ d \notin logged' => ullStart' + Ahead(i)' = ullExpireTime'[d]
    <3>1. d \in ToSet(pItems[i]) /\ ullStart' + Ahead(i)' = ullStart + Ahead(i)
      BY <1>9, <1>11
    <3>2. ullStart + Ahead(i) <= ullExpireTime[d] /\ (d \notin logged => ullStart + Ahead(i) = ullExpireTime[d])
      BY <1>0, <3>1 DEF Waiters, SlotsExact
    <3> QED BY <1>1, <3>1, <3>2
  <2> QED BY <2>1 DEF SlotsExact
<1>22. SignalNotLost'
  BY <1>0, <1>1, <1>11 DEF Waiters, SignalNotLost
<1>23. EpollItemsLive'
  BY <1>0, <1>1 DEF Waiters, EpollItemsLive
<1>24. Waiters'
  BY <1>18, <1>19, <1>20, <1>21, <1>22, <1>23 DEF Waiters
<1> QED BY <1>16, <1>17, <1>24, Types DEF IInv

-----------------------------------------------------------------------------
(* The theorems. *)

\* The initial state.
LEMMA InitInv ==
  ASSUME Init
  PROVE  IInv
<1>0. /\ Main \notin Cos /\ None \notin Cos \cup {Main} /\ RingSize \in Nat \ {0} /\ Stacks \in Nat \ {0}
      /\ MaxTime \in Nat \ {0}
  BY LibcoAssumption
<1>1. <<>> \in Seq(Cos) /\ ToSet(<<>>) = {} /\ Distinct(<<>>) /\ 0 \in Slots /\ 0 \in Mems
  BY <1>0 DEF ToSet, Distinct, Slots, Mems
<1>2. WaitTypes
  BY <1>0, <1>1 DEF Init, WaitTypes, States
<1>3. StackTypes
  BY <1>0, <1>1 DEF Init, StackTypes, Bytes
<1>4. pCallStack = <<Main>> /\ ToSet(pCallStack) = {Main} /\ GetCurrCo = Main /\ Distinct(pCallStack)
  BY DEF Init, ToSet, GetCurrCo, Last, Distinct
<1>5. \A co \in Cos : state[co] = None
  BY DEF Init
<1>6. CallStack
  BY <1>0, <1>4, <1>5, LibcoAssumption DEF CallStack
<1>7. FramesKept
  BY <1>0, <1>4, <1>5 DEF Init, FramesKept, Started
<1>8. InRing = {} /\ InActive = {} /\ ToSet(cond) = {} /\ Linked = {} /\ \A i \in Slots : pItems[i] = <<>>
  BY <1>1 DEF Init, InRing, InActive, Linked
<1>9. LinkedOnce
  BY <1>1, <1>8 DEF Init, LinkedOnce
<1>10. WaitersLinked
  BY <1>5, <1>8, <1>9, LibcoAssumption DEF WaitersLinked
<1>11. CondWaits /\ SignalNotLost
  BY <1>1, <1>8 DEF Init, CondWaits, SignalNotLost
<1>12. ActiveRaised
  BY <1>8 DEF Init, ActiveRaised
<1>13. SlotsExact
  BY <1>1, <1>8 DEF SlotsExact
<1>14. EpollItemsLive
  BY DEF Init, EpollItemsLive
<1> QED BY <1>2, <1>3, <1>6, <1>7, <1>10, <1>11, <1>12, <1>13, <1>14, Types DEF IInv, Waiters

\* Every step.
LEMMA NextInv ==
  ASSUME IInv, [Next]_vars
  PROVE  IInv'
<1>1. CASE \E co \in Cos : \E share_stack \in BOOLEAN : co_create(co, share_stack)
  BY <1>1, CreateInv
<1>2. ASSUME NEW co \in Cos, co_free(co) \/ Resume(co) \/ Suspend(co) PROVE IInv'
  BY <1>2, FreeInv, SwitchInv, SuspendInv
<1>3. CASE co_cond_signal \/ co_cond_broadcast
  BY <1>3, SignalInv
<1>4. CASE \/ \E fd \in Fds : Consume(fd) \/ FdReady(fd)
           \/ GetTickMS \/ EnterLoop \/ Drained \/ UNCHANGED vars
  BY <1>4, QuietInv
<1>5. CASE Wait
  BY <1>5, WaitInv
<1>6. CASE Readd
  BY <1>6, ReaddInv
<1>7. CASE Process
  BY <1>7, ProcessInv
<1> QED BY <1>1, <1>2, <1>3, <1>4, <1>5, <1>6, <1>7 DEF Next, co_eventloop

\* The inductive invariant holds in every reachable state.
THEOREM Invariance == Spec => []IInv
<1>1. Init => IInv
  BY InitInv
<1>2. IInv /\ [Next]_vars => IInv'
  BY NextInv
<1> QED BY <1>1, <1>2, PTL DEF Spec

\* co_poll, co_cond_timedwait, signals and co_eventloop: every waiter is in the
\* ring or the active list, once, in a slot that is emptied no later than its time;
\* a signalled waiter is not put to sleep again; epoll holds only polls in progress.
THEOREM WaitersAreExact == Spec => []WaitersExact
<1>1. IInv => WaitersExact
  <2> SUFFICES ASSUME IInv PROVE WaitersExact
    OBVIOUS
  <2>1. TypeOK /\ WaitersLinked /\ SlotsExact /\ SignalNotLost /\ EpollItemsLive
    BY DEF IInv, Waiters
  <2>2. NeverLate
    BY <2>1 DEF SlotsExact, NeverLate, Ahead
  <2> QED BY <2>1, <2>2 DEF WaitersExact
<1> QED BY <1>1, Invariance, PTL

\* co_swap: the coroutine that runs on a shared stack finds there the frames it
\* left, however the resumes were nested and whoever used the stack meanwhile.
THEOREM StacksAreIntact == Spec => []StackIntact
<1>1. IInv => StackIntact
  <2> SUFFICES ASSUME IInv, GetCurrCo \in cIsShareStack
               PROVE  frames[stack_mem[GetCurrCo]] = <<GetCurrCo, version[GetCurrCo]>>
    BY DEF StackIntact
  <2>1. StackTypes /\ CallStack /\ FramesKept
    BY Types DEF IInv
  <2>2. GetCurrCo \in Cos /\ state[GetCurrCo] = "running"
    BY <2>1, CurrFacts DEF StackTypes
  <2>3. Started(GetCurrCo) /\ occupy_co[stack_mem[GetCurrCo]] = GetCurrCo
    BY <2>1, <2>2, LibcoAssumption DEF FramesKept, Started
  <2> QED BY <2>1, <2>2, <2>3 DEF FramesKept
<1> QED BY <1>1, Invariance, PTL

\* co_poll returns without an event only once its timeout is over, whatever the
\* clock does and however far beyond the ring the timeout was.
THEOREM PollsAreNotEarly == Spec => NoEarlyTimeout
<1> DEFINE NotEarly == \A co \in Cos : state[co] = "polling" /\ state'[co] = "running" =>
                          revents[co] # {} \/ now >= ullExpireTime[co]
<1>1. ASSUME IInv, [Next]_vars PROVE NotEarly
  <2> SUFFICES ASSUME NEW co \in Cos, state[co] = "polling", state'[co] = "running", revents[co] = {}
               PROVE  now >= ullExpireTime[co]
    OBVIOUS
  <2>0. TypeOK /\ WaitTypes /\ StackTypes /\ CallStack /\ Waiters /\ state \in [Cos -> States]
    BY <1>1, Types DEF IInv, WaitTypes
  <2>1. Process
    <3>1. ASSUME NEW c \in Cos, NEW share_stack \in BOOLEAN, co_create(c, share_stack) PROVE FALSE
      BY <2>0, <3>1, LibcoAssumption DEF co_create
    <3>2. ASSUME NEW c \in Cos, co_free(c) \/ Resume(c) PROVE FALSE
      BY <2>0, <3>2, LibcoAssumption DEF co_free, Resume
    <3>3. ASSUME NEW c \in Cos, Suspend(c) PROVE FALSE
      BY <2>0, <3>3 DEF Suspend, co_yield_ct, CoRoutineFunc, co_poll_inner, co_cond_timedwait
    <3>4. ASSUME state' = state PROVE FALSE
      BY <3>4
    <3>5. co_cond_signal \/ co_cond_broadcast => state' = state
      BY DEF co_cond_signal, co_cond_broadcast
    <3>6. (\E fd \in Fds : Consume(fd) \/ FdReady(fd)) \/ GetTickMS \/ UNCHANGED vars => state' = state
      BY DEF Consume, FdReady, GetTickMS, vars
    <3>7. EnterLoop \/ Wait \/ Readd \/ Drained => state' = state
      BY DEF EnterLoop, Wait, Readd, Drained
    <3> QED BY <1>1, <3>1, <3>2, <3>3, <3>4, <3>5, <3>6, <3>7 DEF Next, co_eventloop
  <2> DEFINE h == Head(pstActiveList)
  <2>2. /\ pstActiveList \in Seq(Cos) /\ Distinct(pstActiveList) /\ pstActiveList # <<>>
        /\ state' = [state EXCEPT ![h] = "running"]
        /\ ~(TooEarly(h) /\ TimeoutAccepted(ullExpireTime[h], now))
    BY <2>0, <2>1 DEF Process, WaitTypes, Waiters, WaitersLinked, LinkedOnce
  <2>3. h \in InActive
    BY <2>2, PopHeadFacts DEF InActive
  <2> HIDE DEF h
  <2>4. h = co
    BY <2>0, <2>2
  <2>5. bTimeout[co] /\ ullStart <= now
    BY <2>0, <2>3, <2>4 DEF Waiters, ActiveRaised
  <2>6. now \in Nat /\ ullStart \in Nat /\ ullExpireTime[co] \in Nat
    BY <2>0 DEF WaitTypes
  <2>7. ~(now < ullExpireTime[co])
    BY <2>2, <2>4, <2>5, <2>6 DEF TooEarly, TimeoutAccepted
  <2> QED BY <2>6, <2>7
<1>2. IInv /\ [Next]_vars => [NotEarly]_vars
  BY <1>1
<1> QED BY <1>2, Invariance, PTL DEF Spec, NoEarlyTimeout
=============================================================================
