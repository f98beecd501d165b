-------------------------- MODULE CocgiServer_proofs --------------------------
(***************************************************************************)
(* For any number of coroutines, connections and descriptors: the stack of *)
(* idle coroutines is exact and every open descriptor has one owner.       *)
(***************************************************************************)
EXTENDS CocgiServer, FiniteSetTheorems, SequenceTheorems, TLAPS

\* The accept queue holds every waiting connection once; needed because Accept
\* must not open a connection that is already behind a descriptor.
BacklogExact ==
    /\ \A i \in 1..Len(backlog) : st[backlog[i]] = "backlog"
    /\ \A i, j \in 1..Len(backlog) : backlog[i] = backlog[j] => i = j

\* Types of the state that the ownership invariants are about.
OwnTypes ==
    /\ alive \in BOOLEAN
    /\ g_readwrite \in Seq(Tasks)
    /\ fd \in [Tasks -> Fds \cup {NoFd}]
    /\ recycle \in [Tasks -> 0..MaxRecycle]
    /\ fdtab \in [Fds -> Conns \cup {NoConn}]
    /\ backlog \in Seq(Conns)
    /\ st \in [Conns -> {"none", "backlog", "open", "closed"}]

\* The types of everything else.
DataTypes ==
    /\ errno \in {"none", "EAGAIN", "other"}
    /\ acc \in {"run", "sleep", "poll"}
    /\ m_keepConn \in [Tasks -> BOOLEAN]
    /\ inq \in [Conns -> Seq(Unit)]
    /\ peer \in [Conns -> {"none", "up", "gone"}]
    /\ phase \in [Conns -> {"idle", "sending", "waiting"}]
    /\ flags \in [Conns -> 0..255]
    /\ nreq \in [Conns -> 0..MaxRequests]
    /\ resp \in [Conns -> {"none", "cut", "whole"}]

OwnInv == OwnTypes /\ PoolExact /\ FdOwned /\ BacklogExact
IndInv == OwnInv /\ DataTypes

-----------------------------------------------------------------------------
\* A coroutine that serves a descriptor serves an open connection.
LEMMA ServedIsOpen ==
    ASSUME OwnInv, NEW t \in Tasks, fd[t] # NoFd
    PROVE  /\ fd[t] \in Fds
           /\ fdtab[fd[t]] \in Conns
           /\ st[fdtab[fd[t]]] = "open"
  <1>1. fd[t] \in Fds
    BY DEF OwnInv, OwnTypes
  <1>2. fdtab[fd[t]] # NoConn
    BY <1>1 DEF OwnInv, FdOwned
  <1>3. fdtab[fd[t]] \in Conns
    BY <1>1, <1>2 DEF OwnInv, OwnTypes
  <1> QED
    BY <1>1, <1>3 DEF OwnInv, FdOwned

\* close(fd) and the return to the stack keep the ownership invariants.
LEMMA ClosePreserves ==
    ASSUME OwnInv, NEW t \in Tasks, fd[t] # NoFd, alive, alive' = alive,
           backlog' = backlog, Close(t)
    PROVE  OwnInv'
  <1> DEFINE k == fdtab[fd[t]]
  <1> USE ConstantsAssumption
  <1>0. /\ fd[t] \in Fds /\ k \in Conns /\ st[k] = "open"
        /\ \A i \in DOMAIN g_readwrite : g_readwrite[i] # t
    BY ServedIsOpen DEF OwnInv, PoolExact
  <1>1. /\ <<t>> \in Seq(Tasks) /\ Len(<<t>>) = 1 /\ <<t>>[1] = t
    OBVIOUS
  <1>2. /\ g_readwrite' \in Seq(Tasks)
        /\ Len(g_readwrite') = Len(g_readwrite) + 1
        /\ Len(g_readwrite) \in Nat
        /\ DOMAIN g_readwrite = 1..Len(g_readwrite)
        /\ DOMAIN g_readwrite' = 1..Len(g_readwrite')
        /\ g_readwrite'[1] = t
        /\ \A i \in 2..Len(g_readwrite') : g_readwrite'[i] = g_readwrite[i - 1]
    <2>1. g_readwrite \in Seq(Tasks) /\ g_readwrite' = <<t>> \o g_readwrite
      BY DEF OwnInv, OwnTypes, Close
    <2>2. /\ g_readwrite' \in Seq(Tasks)
          /\ Len(g_readwrite') = 1 + Len(g_readwrite)
          /\ \A i \in 1..(1 + Len(g_readwrite)) :
                g_readwrite'[i] = IF i <= 1 THEN <<t>>[i] ELSE g_readwrite[i - 1]
      BY <2>1, <1>1, ConcatProperties
    <2> QED
      BY <2>1, <2>2, <1>1, LenProperties
  <1>3. OwnTypes'
    BY <1>0, <1>2 DEF OwnInv, OwnTypes, Close
  <1>4. PoolExact'
    <2>1. \A i, j \in DOMAIN g_readwrite' : g_readwrite'[i] = g_readwrite'[j] => i = j
      BY <1>0, <1>2 DEF OwnInv, PoolExact
    <2>2. ASSUME NEW u \in Tasks
          PROVE  fd'[u] = NoFd <=> \E i \in DOMAIN g_readwrite' : g_readwrite'[i] = u
      <3>1. CASE u = t
        <4>1. fd'[t] = NoFd
          BY DEF OwnInv, OwnTypes, Close
        <4> QED  BY <3>1, <4>1, <1>2
      <3>2. CASE u # t
        <4>1. fd'[u] = fd[u]
          BY <3>2 DEF OwnInv, OwnTypes, Close
        <4>2. fd[u] = NoFd <=> \E i \in 1..Len(g_readwrite) : g_readwrite[i] = u
          BY <1>2 DEF OwnInv, PoolExact
        <4>3. ASSUME NEW i \in 1..Len(g_readwrite), g_readwrite[i] = u
              PROVE  \E j \in DOMAIN g_readwrite' : g_readwrite'[j] = u
          <5>1. i + 1 \in 2..Len(g_readwrite') /\ (i + 1) - 1 = i
            BY <1>2
          <5>2. g_readwrite'[i + 1] = g_readwrite[i]
            BY <5>1, <1>2
          <5>3. i + 1 \in DOMAIN g_readwrite'
            BY <5>1, <1>2
          <5> QED  BY <5>2, <5>3, <4>3
        <4>4. ASSUME NEW i \in DOMAIN g_readwrite', g_readwrite'[i] = u
              PROVE  \E j \in 1..Len(g_readwrite) : g_readwrite[j] = u
          BY <4>4, <1>2, <3>2, i # 1, i - 1 \in 1..Len(g_readwrite)
        <4> QED  BY <4>1, <4>2, <4>3, <4>4
      <3> QED  BY <3>1, <3>2
    <2> QED  BY <2>1, <2>2 DEF PoolExact
  <1>5. FdOwned'
    <2>1. /\ \A u \in Tasks : fd'[u] = IF u = t THEN NoFd ELSE fd[u]
          /\ \A x \in Fds : fdtab'[x] = IF x = fd[t] THEN NoConn ELSE fdtab[x]
          /\ \A c \in Conns : st'[c] = IF c = k THEN "closed" ELSE st[c]
      BY <1>0 DEF OwnInv, OwnTypes, Close
    <2>2. \A x \in Fds : fdtab'[x] # NoConn <=> \E u \in Tasks : fd'[u] = x
      BY <2>1, <1>0 DEF OwnInv, FdOwned
    <2>3. \A u, v \in Tasks : fd'[u] = fd'[v] /\ fd'[u] # NoFd => u = v
      BY <2>1 DEF OwnInv, FdOwned
    <2>4. \A x, y \in Fds : fdtab'[x] = fdtab'[y] /\ fdtab'[x] # NoConn => x = y
      BY <2>1 DEF OwnInv, FdOwned
    <2>5. \A c \in Conns : st'[c] = "open" <=> \E x \in Fds : fdtab'[x] = c
      BY <2>1, <1>0 DEF OwnInv, FdOwned
    <2> QED  BY <2>2, <2>3, <2>4, <2>5 DEF FdOwned
  <1>6. BacklogExact'
    BY <1>0, ElementOfSeq DEF OwnInv, OwnTypes, BacklogExact, Close
  <1> QED  BY <1>3, <1>4, <1>5, <1>6 DEF OwnInv

\* Going back to co_poll() leaves all ownership state but the count alone.
LEMMA StayPreserves ==
    ASSUME OwnInv, alive' = alive, backlog' = backlog,
           recycle' \in [Tasks -> 0..MaxRecycle],
           UNCHANGED <<st, fdtab, fd, g_readwrite>>
    PROVE  OwnInv'
  BY DEF OwnInv, OwnTypes, PoolExact, FdOwned, BacklogExact

\* Both branches of the recycle count.
LEMMA EagainPreserves ==
    ASSUME OwnInv, NEW t \in Tasks, fd[t] # NoFd, alive, alive' = alive,
           backlog' = backlog, ContinueEagain(t)
    PROVE  OwnInv'
  <1>1. CASE Close(t)
    BY <1>1, ClosePreserves
  <1>2. CASE /\ recycle[t] < MaxRecycle
             /\ recycle' = [recycle EXCEPT ![t] = @ + 1]
             /\ UNCHANGED <<st, fdtab, fd, g_readwrite>>
    <2>1. recycle' \in [Tasks -> 0..MaxRecycle]
      BY <1>2, ConstantsAssumption DEF OwnInv, OwnTypes
    <2> QED  BY <1>2, <2>1, StayPreserves
  <1> QED  BY <1>1, <1>2 DEF ContinueEagain

\* Popping a coroutine and the oldest connection together.
LEMMA HandOffPreserves ==
    ASSUME OwnInv, alive, alive' = alive, g_readwrite # <<>>, backlog # <<>>,
           NEW x \in Fds, fdtab[x] = NoConn,
           HandOff(Head(g_readwrite), x, Head(backlog))
    PROVE  OwnInv'
  <1> DEFINE t == Head(g_readwrite)
             k == Head(backlog)
  <1> USE ConstantsAssumption
  <1>1. /\ t \in Tasks /\ t = g_readwrite[1] /\ fd[t] = NoFd
        /\ Len(g_readwrite) \in Nat \ {0}
        /\ DOMAIN g_readwrite = 1..Len(g_readwrite)
        /\ g_readwrite' \in Seq(Tasks)
        /\ Len(g_readwrite') = Len(g_readwrite) - 1
        /\ DOMAIN g_readwrite' = 1..Len(g_readwrite')
        /\ \A i \in 1..Len(g_readwrite') : g_readwrite'[i] = g_readwrite[i + 1]
    <2>1. g_readwrite \in Seq(Tasks) /\ g_readwrite' = Tail(g_readwrite)
      BY DEF OwnInv, OwnTypes, HandOff
    <2>2. /\ t \in Tasks
          /\ g_readwrite' \in Seq(Tasks)
          /\ Len(g_readwrite') = Len(g_readwrite) - 1
          /\ \A i \in 1..Len(g_readwrite') : g_readwrite'[i] = g_readwrite[i + 1]
      BY <2>1, HeadTailProperties
    <2>3. /\ Len(g_readwrite) \in Nat \ {0}
          /\ DOMAIN g_readwrite = 1..Len(g_readwrite)
          /\ DOMAIN g_readwrite' = 1..Len(g_readwrite')
      BY <2>1, <2>2, LenProperties, EmptySeq
    <2>4. t = g_readwrite[1]
      BY <2>1, <2>3
    <2>5. fd[t] = NoFd
      BY <2>2, <2>3, <2>4, 1 \in 1..Len(g_readwrite) DEF OwnInv, PoolExact
    <2> QED  BY <2>2, <2>3, <2>4, <2>5
  <1>2. /\ k \in Conns /\ k = backlog[1] /\ st[k] = "backlog"
        /\ Len(backlog) \in Nat \ {0}
        /\ backlog' \in Seq(Conns)
        /\ Len(backlog') = Len(backlog) - 1
        /\ \A i \in 1..Len(backlog') : backlog'[i] = backlog[i + 1]
    <2>1. backlog \in Seq(Conns) /\ backlog' = Tail(backlog)
      BY DEF OwnInv, OwnTypes, HandOff
    <2>2. /\ k \in Conns
          /\ backlog' \in Seq(Conns)
          /\ Len(backlog') = Len(backlog) - 1
          /\ \A i \in 1..Len(backlog') : backlog'[i] = backlog[i + 1]
      BY <2>1, HeadTailProperties
    <2>3. Len(backlog) \in Nat \ {0}
      BY <2>1, EmptySeq
    <2>4. k = backlog[1]
      BY <2>1, <2>3
    <2>5. st[k] = "backlog"
      BY <2>3, <2>4, 1 \in 1..Len(backlog) DEF OwnInv, BacklogExact
    <2> QED  BY <2>2, <2>3, <2>4, <2>5
  <1>3. /\ \A u \in Tasks : fd'[u] = IF u = t THEN x ELSE fd[u]
        /\ \A y \in Fds : fdtab'[y] = IF y = x THEN k ELSE fdtab[y]
        /\ \A c \in Conns : st'[c] = IF c = k THEN "open" ELSE st[c]
    BY <1>1, <1>2 DEF OwnInv, OwnTypes, HandOff
  <1>4. OwnTypes'
    BY <1>1, <1>2 DEF OwnInv, OwnTypes, HandOff
  <1>5. PoolExact'
    <2>1. \A i, j \in DOMAIN g_readwrite' : g_readwrite'[i] = g_readwrite'[j] => i = j
      <3> SUFFICES ASSUME NEW i \in 1..Len(g_readwrite'), NEW j \in 1..Len(g_readwrite'),
                          g_readwrite'[i] = g_readwrite'[j]
                   PROVE  i = j
        BY <1>1
      <3>1. i + 1 \in 1..Len(g_readwrite) /\ j + 1 \in 1..Len(g_readwrite)
        BY <1>1
      <3> QED  BY <3>1, <1>1 DEF OwnInv, PoolExact
    <2>2. ASSUME NEW u \in Tasks
          PROVE  fd'[u] = NoFd <=> \E i \in DOMAIN g_readwrite' : g_readwrite'[i] = u
      <3>1. CASE u = t
        <4>1. fd'[u] # NoFd
          BY <3>1, <1>3
        <4>2. ASSUME NEW i \in 1..Len(g_readwrite'), g_readwrite'[i] = u
              PROVE  FALSE
          <5>1. i + 1 \in 1..Len(g_readwrite) /\ 1 \in 1..Len(g_readwrite)
            BY <1>1
          <5>2. g_readwrite[i + 1] = g_readwrite[1]
            BY <4>2, <3>1, <1>1
          <5>3. i + 1 = 1
            BY <5>1, <5>2, <1>1 DEF OwnInv, PoolExact
          <5> QED  BY <5>3
        <4> QED  BY <4>1, <4>2, <1>1
      <3>2. CASE u # t
        <4>1. fd'[u] = fd[u]
          BY <3>2, <1>3
        <4>2. fd[u] = NoFd <=> \E i \in 1..Len(g_readwrite) : g_readwrite[i] = u
          BY <1>1 DEF OwnInv, PoolExact
        <4>3. ASSUME NEW i \in 1..Len(g_readwrite), g_readwrite[i] = u
              PROVE  \E j \in DOMAIN g_readwrite' : g_readwrite'[j] = u
          <5>1. i # 1
            BY <4>3, <3>2, <1>1
          <5>2. i - 1 \in 1..Len(g_readwrite') /\ (i - 1) + 1 = i
            BY <5>1, <1>1
          <5> QED  BY <5>2, <4>3, <1>1
        <4>4. ASSUME NEW i \in DOMAIN g_readwrite', g_readwrite'[i] = u
              PROVE  \E j \in 1..Len(g_readwrite) : g_readwrite[j] = u
          BY <4>4, <1>1, i + 1 \in 1..Len(g_readwrite)
        <4> QED  BY <4>1, <4>2, <4>3, <4>4
      <3> QED  BY <3>1, <3>2
    <2> QED  BY <2>1, <2>2 DEF PoolExact
  <1>6. FdOwned'
    <2>0. \A y \in Fds : fdtab[y] # k
      BY <1>2 DEF OwnInv, FdOwned
    <2>1. \A u \in Tasks : fd[u] # x
      BY DEF OwnInv, FdOwned
    <2>2. \A y \in Fds : fdtab'[y] # NoConn <=> \E u \in Tasks : fd'[u] = y
      BY <1>1, <1>2, <1>3, <2>1 DEF OwnInv, FdOwned
    <2>3. \A u, v \in Tasks : fd'[u] = fd'[v] /\ fd'[u] # NoFd => u = v
      BY <1>3, <2>1 DEF OwnInv, FdOwned
    <2>4. \A y, z \in Fds : fdtab'[y] = fdtab'[z] /\ fdtab'[y] # NoConn => y = z
      BY <1>2, <1>3, <2>0 DEF OwnInv, FdOwned
    <2>5. \A c \in Conns : st'[c] = "open" <=> \E y \in Fds : fdtab'[y] = c
      BY <1>2, <1>3, <2>0 DEF OwnInv, FdOwned
    <2> QED  BY <2>2, <2>3, <2>4, <2>5 DEF FdOwned
  <1>7. BacklogExact'
    <2>1. \A i \in 1..Len(backlog') : i + 1 \in 1..Len(backlog) /\ i + 1 # 1
      BY <1>2
    <2>2. \A i, j \in 1..Len(backlog') : backlog'[i] = backlog'[j] => i = j
      BY <2>1, <1>2 DEF OwnInv, BacklogExact
    <2>3. \A i \in 1..Len(backlog') : st'[backlog'[i]] = "backlog"
      <3> SUFFICES ASSUME NEW i \in 1..Len(backlog')  PROVE st'[backlog'[i]] = "backlog"
        OBVIOUS
      <3>1. backlog'[i] = backlog[i + 1] /\ backlog[i + 1] \in Conns
        BY <2>1, <1>2, ElementOfSeq DEF OwnInv, OwnTypes
      <3>2. backlog[i + 1] # k /\ st[backlog[i + 1]] = "backlog"
        BY <2>1, <1>2, 1 \in 1..Len(backlog) DEF OwnInv, BacklogExact
      <3> QED  BY <3>1, <3>2, <1>3
    <2> QED  BY <2>2, <2>3 DEF BacklogExact
  <1> QED  BY <1>4, <1>5, <1>6, <1>7 DEF OwnInv

-----------------------------------------------------------------------------
\* What readFd() leaves unread is a sequence of units again.
LEMMA UnreadType ==
    ASSUME DataTypes, NEW k \in Conns
    PROVE  Unread(k) \in Seq(Unit)
  <1> DEFINE m == Len(Readable(k)) + 1
             n == IF Len(inq[k]) < ReadCap THEN Len(inq[k]) ELSE ReadCap
  <1>1. inq[k] \in Seq(Unit) /\ Len(inq[k]) \in Nat
    BY LenProperties DEF DataTypes
  <1>2. n \in 0..Len(inq[k])
    BY <1>1, ConstantsAssumption
  <1>3. Len(Readable(k)) = IF 1 <= n THEN n - 1 + 1 ELSE 0
    <2>1. \A i \in 1..n : inq[k][i] \in Unit
      BY <1>1, <1>2, ElementOfSeq
    <2> HIDE DEF n
    <2>2. Len(SubSeq(inq[k], 1, n)) = IF 1 <= n THEN n - 1 + 1 ELSE 0
      BY <1>2, <2>1, SubSeqProperties
    <2> QED  BY <2>2 DEF Readable, n
  <1>4. m \in Nat \ {0}
    BY <1>2, <1>3
  <1>5. \A i \in m..Len(inq[k]) : inq[k][i] \in Unit
    BY <1>1, <1>4, ElementOfSeq
  <1> HIDE DEF m
  <1>6. SubSeq(inq[k], m, Len(inq[k])) \in Seq(Unit)
    BY <1>1, <1>4, <1>5, SubSeqProperties
  <1> QED  BY <1>6 DEF Unread, m

\* ParsedKeepConn is a Boolean.
LEMMA KeepConnType ==
    ASSUME NEW units, NEW keep \in BOOLEAN
    PROVE  ParsedKeepConn(units, keep) \in BOOLEAN
  BY DEF ParsedKeepConn

\* A worker that has just started satisfies the inductive invariant.
LEMMA InitInd == Init => IndInv
  <1> SUFFICES ASSUME Init PROVE IndInv
    OBVIOUS
  <1> USE ConstantsAssumption DEF Init
  <1>1. Cardinality(Tasks) \in Nat
    BY FS_CardinalityType
  <1>2. g_readwrite \in Seq(Tasks)
    BY <1>1, SeqDef
  <1>3. backlog \in Seq(Conns) /\ Len(backlog) = 0
    BY EmptySeq
  <1>4. OwnTypes
    BY <1>2, <1>3 DEF OwnTypes
  <1>5. PoolExact
    BY DEF PoolExact, StartStack
  <1>6. FdOwned
    BY DEF FdOwned
  <1>7. BacklogExact
    BY <1>3 DEF BacklogExact
  <1>8. DataTypes
    BY EmptySeq DEF DataTypes
  <1> QED  BY <1>4, <1>5, <1>6, <1>7, <1>8 DEF IndInv, OwnInv

\* Every step of the routines and of their peers preserves the inductive invariant.
LEMMA StepInd == IndInv /\ [Next]_vars => IndInv'
  <1> SUFFICES ASSUME IndInv, [Next]_vars PROVE IndInv'
    OBVIOUS
  <1> USE ConstantsAssumption DEF IndInv
  <1>0. recycle \in [Tasks -> 0..MaxRecycle]
    BY DEF OwnInv, OwnTypes
  <1>1. CASE AcceptSleep
    <2>1. OwnInv'
      BY <1>1, <1>0, StayPreserves DEF AcceptSleep, kernelVars
    <2> QED  BY <2>1, <1>1 DEF AcceptSleep, DataTypes, kernelVars, peerVars
  <1>2. CASE AcceptFails
    <2>1. OwnInv'
      BY <1>2, <1>0, StayPreserves DEF AcceptFails, kernelVars
    <2> QED  BY <2>1, <1>2 DEF AcceptFails, DataTypes, kernelVars, peerVars
  <1>3. CASE Accept
    <2>1. OwnInv'
      BY <1>3, HandOffPreserves DEF Accept
    <2>2. m_keepConn' \in [Tasks -> BOOLEAN]
      BY <1>3 DEF Accept, HandOff, DataTypes
    <2> QED  BY <2>1, <2>2, <1>3 DEF Accept, DataTypes, peerVars
  <1>4. ASSUME NEW t \in Tasks, ServeRequest(t)
        PROVE  IndInv'
    <2> DEFINE k == fdtab[fd[t]]
               keep == ParsedKeepConn(Readable(k), m_keepConn[t])
    <2>1. /\ alive /\ alive' = alive /\ backlog' = backlog /\ fd[t] # NoFd
          /\ acc' = acc /\ UNCHANGED <<peer, phase, flags, nreq>>
      BY <1>4 DEF ServeRequest
    <2>2. k \in Conns
      BY <2>1, ServedIsOpen
    <2>3. inq' \in [Conns -> Seq(Unit)]
      <3>1. inq' = [inq EXCEPT ![k] = Unread(k)]
        BY <1>4 DEF ServeRequest
      <3> QED  BY <3>1, <2>2, UnreadType DEF DataTypes
    <2>4. m_keepConn' \in [Tasks -> BOOLEAN]
      <3>1. keep \in BOOLEAN
        BY KeepConnType DEF DataTypes
      <3>2. m_keepConn' = [m_keepConn EXCEPT ![t] = keep]
        BY <1>4 DEF ServeRequest
      <3> QED  BY <3>1, <3>2 DEF DataTypes
    <2>5. CASE AnswerWhole(t, k, keep)
      <3>1. OwnInv'
        <4>1. CASE Close(t)
          BY <4>1, <2>1, ClosePreserves
        <4>2. CASE ContinueOk(t)
          BY <4>2, <2>1, <1>0, StayPreserves DEF ContinueOk
        <4> QED  BY <4>1, <4>2, <2>5 DEF AnswerWhole
      <3> QED  BY <3>1, <2>1, <2>2, <2>3, <2>4, <2>5 DEF AnswerWhole, DataTypes
    <2>6. CASE AnswerEagain(t, k)
      <3>1. OwnInv'
        BY <2>6, <2>1, EagainPreserves DEF AnswerEagain
      <3> QED  BY <3>1, <2>1, <2>2, <2>3, <2>4, <2>6 DEF AnswerEagain, DataTypes
    <2>7. CASE AnswerError(t, k)
      <3>1. OwnInv'
        BY <2>7, <2>1, ClosePreserves DEF AnswerError
      <3> QED  BY <3>1, <2>1, <2>2, <2>3, <2>4, <2>7 DEF AnswerError, DataTypes
    <2> QED  BY <1>4, <2>5, <2>6, <2>7 DEF ServeRequest
  <1>5. ASSUME NEW t \in Tasks, DropIncomplete(t)
        PROVE  IndInv'
    <2> DEFINE k == fdtab[fd[t]]
    <2>1. OwnInv' /\ k \in Conns
      BY <1>5, ClosePreserves, ServedIsOpen DEF DropIncomplete
    <2>2. inq' \in [Conns -> Seq(Unit)]
      <3>1. inq' = [inq EXCEPT ![k] = Unread(k)]
        BY <1>5 DEF DropIncomplete
      <3> QED  BY <3>1, <2>1, UnreadType DEF DataTypes
    <2>3. m_keepConn' \in [Tasks -> BOOLEAN]
      <3>1. m_keepConn' = [m_keepConn EXCEPT ![t] = ParsedKeepConn(Readable(k), m_keepConn[t])]
        BY <1>5 DEF DropIncomplete
      <3> QED  BY <3>1, KeepConnType DEF DataTypes
    <2> QED  BY <2>1, <2>2, <2>3, <1>5 DEF DropIncomplete, DataTypes, peerVars
  <1>6. ASSUME NEW t \in Tasks, NothingToRead(t)
        PROVE  IndInv'
    <2>1. OwnInv'
      BY <1>6, EagainPreserves DEF NothingToRead
    <2> QED  BY <2>1, <1>6 DEF NothingToRead, DataTypes, peerVars
  <1>7. ASSUME NEW t \in Tasks, ReadEof(t)
        PROVE  IndInv'
    <2>1. OwnInv'
      BY <1>7, EagainPreserves, ClosePreserves DEF ReadEof
    <2> QED  BY <2>1, <1>7 DEF ReadEof, DataTypes, peerVars
  <1>8. ASSUME NEW t \in Tasks, ReadError(t)
        PROVE  IndInv'
    <2>1. OwnInv'
      BY <1>8, ClosePreserves DEF ReadError
    <2> QED  BY <2>1, <1>8 DEF ReadError, DataTypes, peerVars
  <1>9. ASSUME NEW t \in Tasks, DieBySigpipe(t)
        PROVE  IndInv'
    <2>1. OwnTypes'
      BY <1>9, EmptySeq DEF DieBySigpipe, OwnInv, OwnTypes
    <2>2. PoolExact'
      BY <1>9 DEF DieBySigpipe, PoolExact
    <2>3. FdOwned'
      <3>1. \A c \in Conns : st'[c] # "open"
        BY <1>9 DEF DieBySigpipe
      <3> QED  BY <3>1, <1>9 DEF DieBySigpipe, FdOwned
    <2>4. BacklogExact'
      <3>1. \A i \in 1..Len(backlog) : backlog[i] \in Conns
        BY ElementOfSeq DEF OwnInv, OwnTypes
      <3> QED  BY <3>1, <1>9 DEF DieBySigpipe, OwnInv, BacklogExact
    <2> QED  BY <2>1, <2>2, <2>3, <2>4, <1>9 DEF OwnInv, DieBySigpipe, DataTypes, peerVars
  <1>10. ASSUME NEW k \in Conns, PeerConnect(k)
         PROVE  IndInv'
    <2>1. /\ backlog \in Seq(Conns) /\ Len(backlog) \in Nat
          /\ backlog' = Append(backlog, k) /\ st[k] = "none"
          /\ \A i \in 1..Len(backlog) : backlog[i] \in Conns
      BY <1>10, LenProperties, ElementOfSeq DEF PeerConnect, OwnInv, OwnTypes
    <2>2. /\ backlog' \in Seq(Conns)
          /\ Len(backlog') = Len(backlog) + 1
          /\ \A i \in 1..Len(backlog) : backlog'[i] = backlog[i]
          /\ backlog'[Len(backlog) + 1] = k
      BY <2>1
    <2>3. /\ \A c \in Conns : st'[c] = IF c = k THEN "backlog" ELSE st[c]
          /\ UNCHANGED <<alive, g_readwrite, fd, recycle, fdtab>>
      BY <1>10 DEF PeerConnect, OwnInv, OwnTypes, procVars
    <2>4. OwnTypes'
      BY <2>2, <1>10 DEF PeerConnect, OwnInv, OwnTypes, procVars
    <2>5. PoolExact' /\ FdOwned'
      <3>1. PoolExact'
        BY <2>3 DEF OwnInv, PoolExact
      <3>2. \A x \in Fds : fdtab[x] # k
        BY <2>1 DEF OwnInv, FdOwned
      <3>3. FdOwned'
        BY <2>3, <3>2, <2>1 DEF OwnInv, FdOwned
      <3> QED  BY <3>1, <3>3
    <2>6. BacklogExact'
      <3>1. \A i \in 1..Len(backlog') : i \in 1..Len(backlog) \/ i = Len(backlog) + 1
        BY <2>1, <2>2
      <3>2. \A i \in 1..Len(backlog) : backlog[i] # k
        BY <2>1 DEF OwnInv, BacklogExact
      <3>3. \A i \in 1..Len(backlog') : st'[backlog'[i]] = "backlog"
        BY <3>1, <3>2, <2>1, <2>2, <2>3 DEF OwnInv, BacklogExact
      <3>4. \A i, j \in 1..Len(backlog') : backlog'[i] = backlog'[j] => i = j
        BY <3>1, <3>2, <2>1, <2>2 DEF OwnInv, BacklogExact
      <3> QED  BY <3>3, <3>4 DEF BacklogExact
    <2> QED  BY <2>4, <2>5, <2>6, <1>10 DEF OwnInv, PeerConnect, DataTypes, procVars
  <1>11. ASSUME NEW k \in Conns, NEW f \in Flags, PeerSend(k, f)
         PROVE  IndInv'
    <2>1. OwnInv'
      BY <1>11, <1>0, StayPreserves DEF PeerSend, procVars
    <2>2. /\ Begin(f) \in Unit /\ End \in Unit
          /\ inq[k] \in Seq(Unit)
      BY DEF Begin, End, Unit, DataTypes
    <2>3. /\ inq[k] \o <<Begin(f), End>> \in Seq(Unit)
          /\ Append(inq[k], Begin(f)) \in Seq(Unit)
      BY <2>2
    <2>4. inq' \in [Conns -> Seq(Unit)]
      BY <1>11, <2>3 DEF PeerSend, DataTypes
    <2>5. /\ nreq' \in [Conns -> 0..MaxRequests]
          /\ flags' \in [Conns -> 0..255]
          /\ resp' \in [Conns -> {"none", "cut", "whole"}]
      BY <1>11 DEF PeerSend, DataTypes
    <2>6. phase' \in [Conns -> {"idle", "sending", "waiting"}]
      BY <1>11 DEF PeerSend, DataTypes
    <2>7. UNCHANGED <<errno, acc, m_keepConn, peer>>
      BY <1>11 DEF PeerSend, procVars
    <2> QED  BY <2>1, <2>4, <2>5, <2>6, <2>7 DEF DataTypes
  <1>12. ASSUME NEW k \in Conns, PeerSendRest(k)
         PROVE  IndInv'
    <2>1. OwnInv'
      BY <1>12, <1>0, StayPreserves DEF PeerSendRest, procVars
    <2>2. End \in Unit /\ inq[k] \in Seq(Unit)
      BY DEF End, Unit, DataTypes
    <2>3. inq' \in [Conns -> Seq(Unit)]
      BY <1>12, <2>2 DEF PeerSendRest, DataTypes
    <2> QED  BY <2>1, <2>3, <1>12 DEF PeerSendRest, DataTypes, procVars
  <1>13. ASSUME NEW k \in Conns, PeerReceive(k)
         PROVE  IndInv'
    <2>1. OwnInv'
      BY <1>13, <1>0, StayPreserves DEF PeerReceive, procVars, kernelVars
    <2> QED  BY <2>1, <1>13 DEF PeerReceive, DataTypes, procVars, kernelVars
  <1>16. ASSUME NEW k \in Conns, PeerClose(k)
         PROVE  IndInv'
    <2>1. OwnInv'
      BY <1>16, <1>0, StayPreserves DEF PeerClose, procVars, kernelVars
    <2> QED  BY <2>1, <1>16 DEF PeerClose, DataTypes, procVars, kernelVars
  <1>14. CASE SiblingAccepts
    <2> DEFINE k == Head(backlog)
    <2>1. backlog \in Seq(Conns) /\ backlog # <<>> /\ backlog' = Tail(backlog)
      BY <1>14 DEF SiblingAccepts, OwnInv, OwnTypes
    <2>2. /\ k \in Conns
          /\ backlog' \in Seq(Conns)
          /\ Len(backlog') = Len(backlog) - 1
          /\ \A i \in 1..Len(backlog') : backlog'[i] = backlog[i + 1]
      BY <2>1, HeadTailProperties
    <2>3. /\ Len(backlog) \in Nat \ {0}
          /\ k = backlog[1]
          /\ \A i \in 1..Len(backlog) : backlog[i] \in Conns
      BY <2>1, EmptySeq, ElementOfSeq
    <2>4. st[k] = "backlog"
      BY <2>3, 1 \in 1..Len(backlog) DEF OwnInv, BacklogExact
    <2>5. /\ \A c \in Conns : st'[c] = IF c = k THEN "closed" ELSE st[c]
          /\ UNCHANGED <<alive, g_readwrite, fd, recycle, fdtab>>
      BY <1>14, <2>2 DEF SiblingAccepts, OwnInv, OwnTypes, procVars
    <2>6. OwnTypes'
      BY <1>14, <2>2 DEF SiblingAccepts, OwnInv, OwnTypes, procVars
    <2>7. PoolExact'
      BY <2>5 DEF OwnInv, PoolExact
    <2>8. FdOwned'
      <3>1. \A x \in Fds : fdtab[x] # k
        BY <2>2, <2>4 DEF OwnInv, FdOwned
      <3> QED  BY <3>1, <2>5, <2>4, <2>2 DEF OwnInv, FdOwned
    <2>9. BacklogExact'
      <3>1. \A i \in 1..Len(backlog') : i + 1 \in 1..Len(backlog) /\ i + 1 # 1
        BY <2>2, <2>3
      <3>2. \A i, j \in 1..Len(backlog') : backlog'[i] = backlog'[j] => i = j
        BY <3>1, <2>2 DEF OwnInv, BacklogExact
      <3>3. \A i \in 1..Len(backlog') : backlog'[i] # k /\ st[backlog'[i]] = "backlog"
        BY <3>1, <2>2, <2>3, 1 \in 1..Len(backlog) DEF OwnInv, BacklogExact
      <3>4. \A i \in 1..Len(backlog') : backlog'[i] \in Conns
        BY <3>1, <2>2, <2>3
      <3> QED  BY <3>2, <3>3, <3>4, <2>5 DEF BacklogExact
    <2> QED  BY <2>6, <2>7, <2>8, <2>9, <1>14 DEF OwnInv, SiblingAccepts, DataTypes, procVars, peerVars
  <1>15. CASE UNCHANGED vars
    <2>1. OwnInv'
      BY <1>15, <1>0, StayPreserves DEF vars, procVars, kernelVars
    <2> QED  BY <2>1, <1>15 DEF vars, procVars, kernelVars, peerVars, DataTypes
  <1> QED
    BY <1>1, <1>2, <1>3, <1>4, <1>5, <1>6, <1>7, <1>8, <1>9, <1>10, <1>11, <1>12,
       <1>13, <1>14, <1>15, <1>16 DEF Next, accept_routine, readwrite_routine, Environment

\* The inductive invariant holds in every reachable state.
LEMMA AlwaysInd == Spec => []IndInv
  BY InitInd, StepInd, PTL DEF Spec

-----------------------------------------------------------------------------
\* Type correctness of the worker process, in particular that the recycle count
\* of readwrite_routine never passes MAX_RECYCLE_COUNT.
THEOREM TypeCorrect == Spec => []TypeOK
  <1>1. IndInv => TypeOK
    BY DEF IndInv, OwnInv, OwnTypes, DataTypes, TypeOK
  <1> QED  BY <1>1, AlwaysInd, PTL

\* accept_routine only ever resumes coroutines that are idle: g_readwrite holds
\* every idle coroutine once, for any number of coroutines and connections.
THEOREM PoolIsExact == Spec => []PoolExact
  <1>1. IndInv => PoolExact
    BY DEF IndInv, OwnInv
  <1> QED  BY <1>1, AlwaysInd, PTL

\* One connection per coroutine, no descriptor leaked and none used after
\* close(), whatever the peers and the sibling workers do.
THEOREM DescriptorsOwned == Spec => []FdOwned
  <1>1. IndInv => FdOwned
    BY DEF IndInv, OwnInv
  <1> QED  BY <1>1, AlwaysInd, PTL

-----------------------------------------------------------------------------
(* One request in flight on a connection. *)

\* What is unread of a connection the server may still read, by what its peer is
\* doing: a begun request, a whole one, or nothing once it was answered.
\* KeepConnObeyed needs it, since the flag must be that of the request answered.
OneRequest ==
    \A k \in Conns :
        /\ st[k] = "none" => phase[k] = "idle" /\ inq[k] = <<>>
        /\ st[k] \in {"backlog", "open"} =>
              \/ phase[k] = "idle" /\ inq[k] = <<>>
              \/ phase[k] = "sending" /\ inq[k] = <<Begin(flags[k])>> /\ resp[k] = "none"
              \/ phase[k] = "waiting" /\ inq[k] = <<Begin(flags[k]), End>> /\ resp[k] = "none"
              \/ phase[k] = "waiting" /\ inq[k] = <<>> /\ resp[k] # "none"
        /\ flags[k] \in Flags \cup {0}

\* What one readFd() takes is a prefix of what is there.
LEMMA ReadablePrefix ==
    ASSUME DataTypes, NEW k \in Conns
    PROVE  /\ Len(Readable(k)) = IF Len(inq[k]) < ReadCap THEN Len(inq[k]) ELSE ReadCap
           /\ DOMAIN Readable(k) = 1..Len(Readable(k))
           /\ \A i \in 1..Len(Readable(k)) : i \in 1..Len(inq[k]) /\ Readable(k)[i] = inq[k][i]
           /\ Len(Readable(k)) = Len(inq[k]) => Unread(k) = <<>>
  <1> DEFINE n == IF Len(inq[k]) < ReadCap THEN Len(inq[k]) ELSE ReadCap
  <1>1. inq[k] \in Seq(Unit) /\ Len(inq[k]) \in Nat
    BY LenProperties DEF DataTypes
  <1>2. n \in 0..Len(inq[k])
    BY <1>1, ConstantsAssumption
  <1>3. \A i \in 1..n : inq[k][i] \in Unit
    BY <1>1, <1>2, ElementOfSeq
  <1> HIDE DEF n
  <1>4. Readable(k) = SubSeq(inq[k], 1, n)
    BY DEF Readable, n
  <1>5. /\ SubSeq(inq[k], 1, n) \in Seq(Unit)
        /\ Len(SubSeq(inq[k], 1, n)) = n
        /\ \A i \in 1..n : SubSeq(inq[k], 1, n)[i] = inq[k][i]
    BY <1>1, <1>2, <1>3
  <1>6. ASSUME Len(Readable(k)) = Len(inq[k]) PROVE Unread(k) = <<>>
    BY <1>1, <1>6 DEF Unread
  <1> QED  BY <1>1, <1>2, <1>4, <1>5, <1>6 DEF n

\* A request that readFd() found complete was read as a whole: the flag that
\* decides is its own, and nothing is left.
LEMMA WholeRead ==
    ASSUME IndInv, OneRequest, NEW k \in Conns, st[k] = "open", inq[k] # <<>>,
           GotRequest(Readable(k))
    PROVE  /\ phase[k] = "waiting" /\ resp[k] = "none" /\ Unread(k) = <<>>
           /\ \A keep \in BOOLEAN : ParsedKeepConn(Readable(k), keep) <=> KeepConn(flags[k])
  <1> USE ConstantsAssumption
  <1>1. DataTypes /\ flags[k] \in 0..255
    BY DEF IndInv, DataTypes
  <1>2. PICK e \in DOMAIN Readable(k) : Readable(k)[e].type = "end"
    BY DEF GotRequest
  <1>3. e \in 1..Len(inq[k]) /\ inq[k][e].type = "end" /\ e \in 1..Len(Readable(k))
    BY <1>1, <1>2, ReadablePrefix
  <1>4. phase[k] = "waiting" /\ inq[k] = <<Begin(flags[k]), End>> /\ resp[k] = "none"
    <2>1. inq[k] # <<Begin(flags[k])>>
      BY <1>3 DEF Begin
    <2> QED  BY <2>1 DEF OneRequest
  <1>5. /\ Len(inq[k]) = 2 /\ inq[k][1] = Begin(flags[k]) /\ inq[k][2] = End
    BY <1>4
  <1>6. e = 2
    BY <1>3, <1>5 DEF Begin
  <1>7. Len(Readable(k)) = 2
    <2>1. Len(Readable(k)) = IF Len(inq[k]) < ReadCap THEN Len(inq[k]) ELSE ReadCap
      BY <1>1, ReadablePrefix
    <2>2. 2 <= Len(Readable(k))
      BY <1>3, <1>6
    <2> QED  BY <1>5, <2>1, <2>2
  <1>8. Unread(k) = <<>> /\ DOMAIN Readable(k) = 1..2
        /\ Readable(k)[1] = Begin(flags[k]) /\ Readable(k)[2] = End
    BY <1>1, <1>5, <1>7, ReadablePrefix
  <1>9. ASSUME NEW keep \in BOOLEAN
        PROVE  ParsedKeepConn(Readable(k), keep) <=> KeepConn(flags[k])
    <2>1. /\ \A i \in 1..2 : Readable(k)[i].type = "begin" <=> i = 1
          /\ Readable(k)[1].flags = flags[k] /\ 1 \in 1..2
      BY <1>8 DEF Begin, End
    <2> QED  BY <1>8, <2>1 DEF ParsedKeepConn
  <1> QED  BY <1>4, <1>8, <1>9

\* Close and the return to co_poll() leave every other connection as it is.
LEMMA CloseOnly ==
    ASSUME IndInv, NEW t \in Tasks, fd[t] # NoFd, NEW k, k = fdtab[fd[t]],
           Close(t) \/ ContinueOk(t) \/ ContinueEagain(t)
    PROVE  /\ k \in Conns /\ st[k] = "open"
           /\ \A d \in Conns : d # k => st'[d] = st[d]
           /\ st'[k] = st[k] \/ st'[k] = "closed"
           /\ Close(t) => st'[k] = "closed"
           /\ ContinueOk(t) => st'[k] = "open"
  <1>1. k \in Conns /\ st[k] = "open" /\ st \in [Conns -> {"none", "backlog", "open", "closed"}]
    BY ServedIsOpen DEF IndInv, OwnInv, OwnTypes
  <1>2. st' = st \/ st' = [st EXCEPT ![k] = "closed"]
    BY DEF Close, ContinueOk, ContinueEagain
  <1>3. (Close(t) => st' = [st EXCEPT ![k] = "closed"]) /\ (ContinueOk(t) => st' = st)
    BY DEF Close, ContinueOk
  <1> QED  BY <1>1, <1>2, <1>3

\* Serving a request.
LEMMA ServeOneRequest ==
    ASSUME IndInv, OneRequest, NEW t \in Tasks, ServeRequest(t)
    PROVE  OneRequest'
  <1> DEFINE k == fdtab[fd[t]]
  <1>1. /\ fd[t] # NoFd /\ inq[k] # <<>> /\ GotRequest(Readable(k))
        /\ inq' = [inq EXCEPT ![k] = Unread(k)]
        /\ Close(t) \/ ContinueOk(t) \/ ContinueEagain(t)
        /\ resp' = [resp EXCEPT ![k] = "whole"] \/ resp' = [resp EXCEPT ![k] = "cut"]
        /\ phase' = phase /\ flags' = flags
    BY DEF ServeRequest, AnswerWhole, AnswerEagain, AnswerError
  <1>2. /\ k \in Conns /\ st[k] = "open"
        /\ \A d \in Conns : d # k => st'[d] = st[d]
        /\ st'[k] = st[k] \/ st'[k] = "closed"
    BY <1>1, CloseOnly
  <1>3. phase[k] = "waiting" /\ Unread(k) = <<>>
    BY <1>1, <1>2, WholeRead
  <1>4. inq \in [Conns -> Seq(Unit)] /\ resp \in [Conns -> {"none", "cut", "whole"}]
    BY DEF IndInv, DataTypes
  <1> HIDE DEF k
  <1>5. /\ inq'[k] = <<>> /\ resp'[k] # "none"
        /\ \A d \in Conns : d # k => inq'[d] = inq[d] /\ resp'[d] = resp[d]
    BY <1>1, <1>2, <1>3, <1>4
  <1>6. ASSUME NEW d \in Conns
        PROVE  /\ st'[d] = "none" => phase[d] = "idle" /\ inq'[d] = <<>>
               /\ st'[d] \in {"backlog", "open"} =>
                     \/ phase[d] = "idle" /\ inq'[d] = <<>>
                     \/ phase[d] = "sending" /\ inq'[d] = <<Begin(flags[d])>> /\ resp'[d] = "none"
                     \/ phase[d] = "waiting" /\ inq'[d] = <<Begin(flags[d]), End>> /\ resp'[d] = "none"
                     \/ phase[d] = "waiting" /\ inq'[d] = <<>> /\ resp'[d] # "none"
               /\ flags[d] \in Flags \cup {0}
    <2>1. CASE d = k
      BY <1>2, <1>3, <1>5, <2>1 DEF OneRequest
    <2>2. CASE d # k
      BY <1>2, <1>5, <2>2 DEF OneRequest
    <2> QED  BY <2>1, <2>2
  <1> QED  BY <1>1, <1>6 DEF OneRequest

\* Steps that add nothing to a connection and answer nothing.
LEMMA QuietOneRequest ==
    ASSUME OneRequest, UNCHANGED <<phase, flags, resp>>,
           \A d \in Conns :
              \/ st'[d] = "closed"
              \/ st'[d] = st[d] /\ inq'[d] = inq[d]
              \/ st'[d] = "open" /\ st[d] = "backlog" /\ inq'[d] = inq[d]
    PROVE  OneRequest'
  <1> SUFFICES ASSUME NEW d \in Conns
               PROVE  /\ st'[d] = "none" => phase[d] = "idle" /\ inq'[d] = <<>>
                      /\ st'[d] \in {"backlog", "open"} =>
                            \/ phase[d] = "idle" /\ inq'[d] = <<>>
                            \/ phase[d] = "sending" /\ inq'[d] = <<Begin(flags[d])>> /\ resp[d] = "none"
                            \/ phase[d] = "waiting" /\ inq'[d] = <<Begin(flags[d]), End>> /\ resp[d] = "none"
                            \/ phase[d] = "waiting" /\ inq'[d] = <<>> /\ resp[d] # "none"
                      /\ flags[d] \in Flags \cup {0}
    BY DEF OneRequest
  <1> QED  BY DEF OneRequest

\* The rest of a request that had begun to arrive.
LEMMA AppendToOne ==
    ASSUME NEW x, NEW y
    PROVE  Append(<<x>>, y) = <<x, y>>
  <1> DEFINE S == {x, y}
  <1>1. <<x>> \in Seq(S) /\ y \in S /\ Len(<<x>>) = 1 /\ <<x>>[1] = x
    OBVIOUS
  <1>2. /\ Append(<<x>>, y) \in Seq(S) /\ Len(Append(<<x>>, y)) = 2
        /\ Append(<<x>>, y)[1] = x /\ Append(<<x>>, y)[2] = y
    <2> HIDE DEF S
    <2> QED  BY <1>1, AppendProperties
  <1>3. <<x, y>> \in Seq(S) /\ Len(<<x, y>>) = 2 /\ <<x, y>>[1] = x /\ <<x, y>>[2] = y
    OBVIOUS
  <1> HIDE DEF S
  <1>4. \A i \in 1..2 : Append(<<x>>, y)[i] = <<x, y>>[i]
    <2> SUFFICES ASSUME NEW i \in 1..2 PROVE Append(<<x>>, y)[i] = <<x, y>>[i]
      OBVIOUS
    <2>1. i = 1 \/ i = 2
      OBVIOUS
    <2> QED  BY <1>2, <1>3, <2>1
  <1> QED  BY <1>2, <1>3, <1>4, SeqEqual

\* Steps of one peer.
LEMMA PeerOneRequest ==
    ASSUME IndInv, OneRequest, NEW k \in Conns,
           \/ PeerConnect(k) \/ PeerSendRest(k) \/ PeerReceive(k) \/ PeerClose(k)
           \/ \E f \in Flags : PeerSend(k, f)
    PROVE  OneRequest'
  <1> DEFINE Fine(s, p, q, f, r) ==
               /\ s = "none" => p = "idle" /\ q = <<>>
               /\ s \in {"backlog", "open"} =>
                     \/ p = "idle" /\ q = <<>>
                     \/ p = "sending" /\ q = <<Begin(f)>> /\ r = "none"
                     \/ p = "waiting" /\ q = <<Begin(f), End>> /\ r = "none"
                     \/ p = "waiting" /\ q = <<>> /\ r # "none"
               /\ f \in Flags \cup {0}
  <1>1. \A d \in Conns : Fine(st[d], phase[d], inq[d], flags[d], resp[d])
    BY DEF OneRequest
  <1>2. /\ st \in [Conns -> {"none", "backlog", "open", "closed"}] /\ inq \in [Conns -> Seq(Unit)]
        /\ phase \in [Conns -> {"idle", "sending", "waiting"}] /\ flags \in [Conns -> 0..255]
        /\ resp \in [Conns -> {"none", "cut", "whole"}]
    BY DEF IndInv, OwnInv, OwnTypes, DataTypes
  <1>3. SUFFICES /\ Fine(st'[k], phase'[k], inq'[k], flags'[k], resp'[k])
                 /\ \A d \in Conns : d # k =>
                       /\ st'[d] = st[d] /\ phase'[d] = phase[d] /\ inq'[d] = inq[d]
                       /\ flags'[d] = flags[d] /\ resp'[d] = resp[d]
    BY <1>1 DEF OneRequest
  <1>4. CASE PeerConnect(k)
    <2>1. /\ st[k] = "none" /\ st' = [st EXCEPT ![k] = "backlog"]
          /\ UNCHANGED <<inq, phase, flags, resp>>
      BY <1>4 DEF PeerConnect
    <2> QED  BY <1>1, <1>2, <2>1
  <1>5. CASE PeerSendRest(k)
    <2>1. /\ st[k] \in {"backlog", "open"} /\ phase[k] = "sending"
          /\ inq' = [inq EXCEPT ![k] = Append(@, End)] /\ phase' = [phase EXCEPT ![k] = "waiting"]
          /\ UNCHANGED <<st, flags, resp>>
      BY <1>5 DEF PeerSendRest
    <2>2. inq[k] = <<Begin(flags[k])>> /\ resp[k] = "none" /\ flags[k] \in Flags \cup {0}
      BY <1>1, <2>1
    <2>3. Append(inq[k], End) = <<Begin(flags[k]), End>>
      BY <2>2, AppendToOne
    <2>4. /\ inq'[k] = <<Begin(flags[k]), End>> /\ phase'[k] = "waiting" /\ resp'[k] = "none"
          /\ flags'[k] = flags[k] /\ st'[k] = st[k]
          /\ \A d \in Conns : d # k => inq'[d] = inq[d] /\ phase'[d] = phase[d]
      BY <1>2, <2>1, <2>2, <2>3
    <2> QED  BY <2>1, <2>2, <2>4
  <1>6. CASE PeerReceive(k)
    <2>1. /\ phase[k] = "waiting" /\ resp[k] = "whole" /\ phase' = [phase EXCEPT ![k] = "idle"]
          /\ UNCHANGED <<st, inq, flags, resp>>
      BY <1>6 DEF PeerReceive, kernelVars
    <2> QED  BY <1>1, <1>2, <2>1
  <1>7. CASE PeerClose(k)
    <2>1. UNCHANGED <<st, inq, phase, flags, resp>>
      BY <1>7 DEF PeerClose, kernelVars
    <2> QED  BY <1>1, <2>1
  <1>8. ASSUME NEW f \in Flags, PeerSend(k, f)
        PROVE  /\ Fine(st'[k], phase'[k], inq'[k], flags'[k], resp'[k])
               /\ \A d \in Conns : d # k =>
                     /\ st'[d] = st[d] /\ phase'[d] = phase[d] /\ inq'[d] = inq[d]
                     /\ flags'[d] = flags[d] /\ resp'[d] = resp[d]
    <2>1. /\ st[k] \in {"backlog", "open"} /\ phase[k] = "idle"
          /\ flags' = [flags EXCEPT ![k] = f] /\ resp' = [resp EXCEPT ![k] = "none"] /\ st' = st
      BY <1>8 DEF PeerSend
    <2>2. inq[k] = <<>>
      BY <1>1, <2>1
    <2>3. \/ /\ inq' = [inq EXCEPT ![k] = <<Begin(f), End>>] /\ phase' = [phase EXCEPT ![k] = "waiting"]
          \/ /\ inq' = [inq EXCEPT ![k] = <<Begin(f)>>] /\ phase' = [phase EXCEPT ![k] = "sending"]
      <3>1. <<>> \o <<Begin(f), End>> = <<Begin(f), End>> /\ Append(<<>>, Begin(f)) = <<Begin(f)>>
        OBVIOUS
      <3> QED  BY <1>8, <2>2, <3>1 DEF PeerSend
    <2> QED  BY <1>2, <2>1, <2>3
  <1> QED  BY <1>4, <1>5, <1>6, <1>7, <1>8

\* Every step keeps it.
LEMMA StepOneRequest == IndInv /\ OneRequest /\ [Next]_vars => OneRequest'
  <1> SUFFICES ASSUME IndInv, OneRequest, [Next]_vars PROVE OneRequest'
    OBVIOUS
  <1>0. /\ st \in [Conns -> {"none", "backlog", "open", "closed"}] /\ inq \in [Conns -> Seq(Unit)]
        /\ backlog \in Seq(Conns) /\ BacklogExact
    BY DEF IndInv, OwnInv, OwnTypes, DataTypes
  <1>1. CASE AcceptSleep \/ AcceptFails \/ UNCHANGED vars
    BY <1>1, QuietOneRequest DEF AcceptSleep, AcceptFails, vars, kernelVars, peerVars
  <1>2. backlog # <<>> => Head(backlog) \in Conns /\ st[Head(backlog)] = "backlog"
    <2> SUFFICES ASSUME backlog # <<>> PROVE Head(backlog) \in Conns /\ st[Head(backlog)] = "backlog"
      OBVIOUS
    <2>1. 1 \in 1..Len(backlog) /\ Head(backlog) = backlog[1] /\ Head(backlog) \in Conns
      BY <1>0, EmptySeq, HeadTailProperties
    <2> QED  BY <1>0, <2>1 DEF BacklogExact
  <1>3. CASE Accept
    <2>1. /\ backlog # <<>> /\ st' = [st EXCEPT ![Head(backlog)] = "open"]
          /\ UNCHANGED <<inq, phase, flags, resp>>
      BY <1>3 DEF Accept, HandOff, peerVars
    <2> QED  BY <1>0, <1>2, <2>1, QuietOneRequest
  <1>4. CASE SiblingAccepts
    <2>1. /\ backlog # <<>> /\ st' = [st EXCEPT ![Head(backlog)] = "closed"]
          /\ UNCHANGED <<inq, phase, flags, resp>>
      BY <1>4 DEF SiblingAccepts, peerVars
    <2> QED  BY <1>0, <1>2, <2>1, QuietOneRequest
  <1>5. ASSUME NEW t \in Tasks, NothingToRead(t) \/ ReadEof(t) \/ ReadError(t)
        PROVE  OneRequest'
    <2>1. /\ fd[t] # NoFd /\ (Close(t) \/ ContinueOk(t) \/ ContinueEagain(t))
          /\ UNCHANGED <<inq, phase, flags, resp>>
      BY <1>5 DEF NothingToRead, ReadEof, ReadError, peerVars
    <2>2. \A d \in Conns : st'[d] = st[d] \/ st'[d] = "closed"
      <3> DEFINE c == fdtab[fd[t]]
      <3>1. (\A d \in Conns : d # c => st'[d] = st[d]) /\ (st'[c] = st[c] \/ st'[c] = "closed")
        BY <2>1, CloseOnly
      <3> QED  BY <3>1
    <2> QED  BY <2>1, <2>2, QuietOneRequest
  <1>6. ASSUME NEW t \in Tasks, DropIncomplete(t)
        PROVE  OneRequest'
    <2> DEFINE k == fdtab[fd[t]]
    <2>1. /\ fd[t] # NoFd /\ Close(t) /\ inq' = [inq EXCEPT ![k] = Unread(k)]
          /\ UNCHANGED <<phase, flags, resp>>
      BY <1>6 DEF DropIncomplete, peerVars
    <2>2. /\ k \in Conns /\ st'[k] = "closed" /\ \A d \in Conns : d # k => st'[d] = st[d]
      BY <2>1, CloseOnly
    <2> HIDE DEF k
    <2>3. \A d \in Conns : d # k => inq'[d] = inq[d]
      BY <1>0, <2>1
    <2> QED  BY <2>1, <2>2, <2>3, QuietOneRequest
  <1>7. ASSUME NEW t \in Tasks, DieBySigpipe(t)
        PROVE  OneRequest'
    <2>1. /\ st' = [k \in Conns |-> IF st[k] = "open" THEN "closed" ELSE st[k]]
          /\ UNCHANGED <<inq, phase, flags, resp>>
      BY <1>7 DEF DieBySigpipe, peerVars
    <2> QED  BY <2>1, QuietOneRequest
  <1> QED
    BY <1>1, <1>3, <1>4, <1>5, <1>6, <1>7, ServeOneRequest, PeerOneRequest
    DEF Next, accept_routine, readwrite_routine, Environment

\* One request at a time on a connection, in every reachable state.
LEMMA AlwaysOneRequest == Spec => [](IndInv /\ OneRequest)
  <1>1. Init => OneRequest
    BY DEF Init, OneRequest
  <1> QED  BY <1>1, InitInd, StepInd, StepOneRequest, PTL DEF Spec

\* The only step that answers a request in whole is a read that found it whole.
LEMMA AnswersWhole ==
    ASSUME IndInv, OneRequest, [Next]_vars, NEW k \in Conns, resp[k] = "none", resp'[k] = "whole"
    PROVE  \E t \in Tasks : /\ ServeRequest(t) /\ fd[t] # NoFd /\ k = fdtab[fd[t]]
                            /\ AnswerWhole(t, k, ParsedKeepConn(Readable(k), m_keepConn[t]))
  <1>0. resp \in [Conns -> {"none", "cut", "whole"}]
    BY DEF IndInv, DataTypes
  <1>1. resp' # resp
    OBVIOUS
  <1>2. ASSUME NEW c \in Conns, NEW f \in Flags, PeerSend(c, f) PROVE FALSE
    <2>1. resp' = [resp EXCEPT ![c] = "none"]
      BY <1>2 DEF PeerSend
    <2> QED  BY <1>0, <2>1
  <1>3. PICK t \in Tasks : ServeRequest(t)
    BY <1>1, <1>2 DEF Next, accept_routine, AcceptSleep, AcceptFails, Accept, readwrite_routine,
       DropIncomplete, NothingToRead, ReadEof, ReadError, DieBySigpipe, Environment, PeerConnect,
       PeerSendRest, PeerReceive, PeerClose, SiblingAccepts, peerVars, vars
  <1>4. fd[t] # NoFd
    BY <1>3 DEF ServeRequest
  <1>5. fdtab[fd[t]] \in Conns
    BY <1>4, ServedIsOpen DEF IndInv
  <1> DEFINE c == fdtab[fd[t]]
  <1>6. \/ AnswerWhole(t, c, ParsedKeepConn(Readable(c), m_keepConn[t]))
        \/ AnswerEagain(t, c) \/ AnswerError(t, c)
    BY <1>3 DEF ServeRequest
  <1>7. /\ AnswerWhole(t, c, ParsedKeepConn(Readable(c), m_keepConn[t])) => resp' = [resp EXCEPT ![c] = "whole"]
        /\ AnswerEagain(t, c) \/ AnswerError(t, c) => resp' = [resp EXCEPT ![c] = "cut"]
    BY DEF AnswerWhole, AnswerEagain, AnswerError
  <1> HIDE DEF c
  <1>8. c = k /\ AnswerWhole(t, c, ParsedKeepConn(Readable(c), m_keepConn[t]))
    BY <1>0, <1>5, <1>6, <1>7 DEF c
  <1> QED  BY <1>3, <1>4, <1>8 DEF c

\* The flag byte of each request decides by itself whether its connection is
\* closed after the answer, if no bit but FCGI_KEEP_CONN is set in an odd one:
\* onBeginRequest compares the whole byte with 1.
THEOREM KeepConnIsObeyed ==
    ASSUME \A f \in Flags : f % 2 = 1 => f = 1
    PROVE  Spec => KeepConnObeyed
  <1>1. ASSUME IndInv, OneRequest, [Next]_vars, NEW k \in Conns, resp[k] = "none", resp'[k] = "whole"
        PROVE  st'[k] = (IF flags[k] % 2 = 1 THEN "open" ELSE "closed")
    <2>1. PICK t \in Tasks : /\ ServeRequest(t) /\ fd[t] # NoFd /\ k = fdtab[fd[t]]
                             /\ AnswerWhole(t, k, ParsedKeepConn(Readable(k), m_keepConn[t]))
      BY <1>1, AnswersWhole
    <2>2. inq[k] # <<>> /\ GotRequest(Readable(k)) /\ st[k] = "open" /\ m_keepConn[t] \in BOOLEAN
      BY <1>1, <2>1, ServedIsOpen DEF ServeRequest, IndInv, DataTypes
    <2>3. ParsedKeepConn(Readable(k), m_keepConn[t]) <=> KeepConn(flags[k])
      BY <1>1, <2>2, WholeRead
    <2>4. KeepConn(flags[k]) <=> flags[k] % 2 = 1
      BY <1>1 DEF KeepConn, OneRequest
    <2>5. CASE KeepConn(flags[k])
      <3>1. ContinueOk(t)
        BY <2>1, <2>3, <2>5 DEF AnswerWhole
      <3> QED  BY <1>1, <2>1, <2>4, <2>5, <3>1, CloseOnly
    <2>6. CASE ~KeepConn(flags[k])
      <3>1. Close(t)
        BY <2>1, <2>3, <2>6 DEF AnswerWhole
      <3> QED  BY <1>1, <2>1, <2>4, <2>6, <3>1, CloseOnly
    <2> QED  BY <2>5, <2>6
  <1>2. IndInv /\ OneRequest /\ [Next]_vars =>
          [\A k \in Conns : resp[k] = "none" /\ resp'[k] = "whole"
              => st'[k] = (IF flags[k] % 2 = 1 THEN "open" ELSE "closed")]_vars
    BY <1>1
  <1> QED  BY <1>2, AlwaysOneRequest, PTL DEF Spec, KeepConnObeyed

\* A live peer's connection is not closed over a whole request that is there to
\* be read, provided one readFd() takes a whole request.
THEOREM WholeRequestIsAnswered ==
    ASSUME ReadCap >= 2
    PROVE  Spec => WholeRequestAnswered
  <1>1. ASSUME IndInv, OneRequest, [Next]_vars, NEW k \in Conns, st[k] = "open", st'[k] = "closed",
               peer[k] = "up", GotRequest(inq[k]), alive'
        PROVE  resp'[k] # "none"
    <2>0. /\ st \in [Conns -> {"none", "backlog", "open", "closed"}] /\ DataTypes
          /\ backlog \in Seq(Conns) /\ BacklogExact
      BY <1>1 DEF IndInv, OwnInv, OwnTypes
    <2>1. inq[k] # <<>> /\ inq[k] # <<Begin(flags[k])>>
      BY <1>1 DEF GotRequest, Begin
    <2>2. Len(inq[k]) = 2
      <3>1. inq[k] = <<Begin(flags[k]), End>>
        BY <1>1, <2>1 DEF OneRequest
      <3> QED  BY <3>1
    <2>3. GotRequest(Readable(k))
      <3>1. Len(Readable(k)) = 2
        <4>1. Len(Readable(k)) = IF Len(inq[k]) < ReadCap THEN Len(inq[k]) ELSE ReadCap
          BY <2>0, ReadablePrefix
        <4> QED  BY <2>2, <4>1, ConstantsAssumption
      <3>2. /\ DOMAIN Readable(k) = 1..2 /\ \A i \in 1..2 : Readable(k)[i] = inq[k][i]
        BY <2>0, <3>1, ReadablePrefix
      <3>3. DOMAIN inq[k] = 1..2
        BY <2>0, <2>2 DEF DataTypes
      <3> QED  BY <1>1, <3>2, <3>3 DEF GotRequest
    <2>4. st' # st
      BY <1>1
    <2>5. ASSUME NEW t \in Tasks, DropIncomplete(t) \/ NothingToRead(t) \/ ReadEof(t) \/ ReadError(t)
          PROVE  FALSE
      <3>1. /\ fd[t] # NoFd /\ (Close(t) \/ ContinueOk(t) \/ ContinueEagain(t))
        BY <2>5 DEF DropIncomplete, NothingToRead, ReadEof, ReadError
      <3>2. k = fdtab[fd[t]]
        <4> DEFINE c == fdtab[fd[t]]
        <4>1. \A d \in Conns : d # c => st'[d] = st[d]
          BY <1>1, <3>1, CloseOnly
        <4> QED  BY <1>1, <4>1
      <3> QED  BY <2>1, <2>3, <2>5, <3>2 DEF DropIncomplete, NothingToRead, ReadEof, ReadError
    <2>6. ASSUME NEW t \in Tasks, DieBySigpipe(t) PROVE FALSE
      BY <1>1, <2>6 DEF DieBySigpipe
    <2>7. ASSUME NEW c \in Conns, PeerConnect(c) PROVE FALSE
      BY <1>1, <2>0, <2>7 DEF PeerConnect
    <2>8. ASSUME Accept \/ SiblingAccepts PROVE FALSE
      <3>1. /\ backlog # <<>>
            /\ \/ st' = [st EXCEPT ![Head(backlog)] = "open"]
               \/ st' = [st EXCEPT ![Head(backlog)] = "closed"]
        BY <2>8 DEF Accept, HandOff, SiblingAccepts
      <3>2. 1 \in 1..Len(backlog) /\ Head(backlog) = backlog[1]
        BY <2>0, <3>1, EmptySeq, HeadTailProperties
      <3>3. st[Head(backlog)] = "backlog"
        BY <2>0, <3>2 DEF BacklogExact
      <3> QED  BY <1>1, <2>0, <3>1, <3>3
    <2>9. PICK t \in Tasks : ServeRequest(t)
      BY <1>1, <2>4, <2>5, <2>6, <2>7, <2>8 DEF Next, accept_routine, AcceptSleep, AcceptFails,
         readwrite_routine, Environment, PeerSend, PeerSendRest, PeerReceive, PeerClose, kernelVars, vars
    <2>10. /\ fd[t] # NoFd /\ (Close(t) \/ ContinueOk(t) \/ ContinueEagain(t))
           /\ \/ resp' = [resp EXCEPT ![fdtab[fd[t]]] = "whole"]
              \/ resp' = [resp EXCEPT ![fdtab[fd[t]]] = "cut"]
      BY <2>9 DEF ServeRequest, AnswerWhole, AnswerEagain, AnswerError
    <2>11. k = fdtab[fd[t]]
      <3> DEFINE c == fdtab[fd[t]]
      <3>1. \A d \in Conns : d # c => st'[d] = st[d]
        BY <1>1, <2>10, CloseOnly
      <3> QED  BY <1>1, <3>1
    <2> QED  BY <2>0, <2>10, <2>11 DEF DataTypes
  <1>2. IndInv /\ OneRequest /\ [Next]_vars =>
          [\A k \in Conns :
              (st[k] = "open" /\ st'[k] = "closed" /\ peer[k] = "up" /\ GotRequest(inq[k]) /\ alive')
                => resp'[k] # "none"]_vars
    BY <1>1
  <1> QED  BY <1>2, AlwaysOneRequest, PTL DEF Spec, WholeRequestAnswered
=============================================================================
