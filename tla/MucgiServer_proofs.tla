-------------------------- MODULE MucgiServer_proofs --------------------------
(***************************************************************************)
(* The mucgi server for any number of connections, loops, descriptors and  *)
(* requests: every assertion on a connection's way down holds, and a       *)
(* shutdown behind buffered output neither cuts it nor is forgotten.       *)
(***************************************************************************)
EXTENDS MucgiServer, SequenceTheorems, TLAPS

(* The stages of a connection's life. *)

\* Its channel is in the poller and wants to read.
Up(r) == r.state_ \in {"kConnected", "kDisconnecting"} /\ r.reading /\ r.index = "kAdded"

Quiet(r) == ~r.reading /\ ~r.writing

\* What is known of c by its state_.
Stage(c) ==
    LET r == conn[c] IN
    /\ r.state_ = "none" => r = NoConn /\ c \notin connections_
    /\ r.state_ = "kConnecting" =>
          Quiet(r) /\ r.index = "kNew" /\ r.outputBuffer_ = 0 /\ c \in connections_
    /\ r.state_ \in {"kConnected", "kDisconnecting"} => Up(r) /\ c \in connections_
    /\ r.state_ = "kDisconnected" =>
          /\ Quiet(r) /\ r.index \in {"kNew", "kDeleted"}
          /\ c \in connections_ => r.index = "kDeleted"

Stages == \A c \in Conns : Stage(c)

\* A functor that is still to run finds its connection in the right stage.
Fits(l, f) ==
    LET r == conn[f.conn] IN
    /\ f.op = "established" => r.state_ = "kConnecting" /\ r.loop = l
    /\ f.op = "remove" =>
          /\ l = Base /\ r.loop # Base /\ r.state_ = "kDisconnected"
          /\ f.conn \in connections_
    /\ f.op = "destroy" =>
          /\ r.loop = l /\ r.state_ = "kDisconnected" /\ r.index = "kDeleted"
          /\ f.conn \notin connections_

QueuesFit == \A l \in Loops : \A i \in DOMAIN ToRun(l) : Fits(l, ToRun(l)[i])

\* No loop has two functors to run for one connection.
QueuedOnce ==
    \A l \in Loops : \A i, j \in DOMAIN ToRun(l) : ToRun(l)[i].conn = ToRun(l)[j].conn => i = j

\* A connection out of the map whose channel is not removed yet will be destroyed.
WillBeDestroyed ==
    \A c \in Conns : c \notin connections_ /\ conn[c].index # "kNew" =>
        \E l \in Loops : \E i \in DOMAIN ToRun(l) : ToRun(l)[i].conn = c

\* The functors of a loop are those of the batch it runs.
BatchOnly == \A l \in Loops : pc[l] # "functors" => functors[l] = <<>> /\ done[l] = 0

ActiveOnce ==
    \A l \in Loops : \A a \in activeChannels_[l] :
        /\ conn[a.conn].loop = l /\ conn[a.conn].state_ \in {"kConnected", "kDisconnecting"}
        /\ \A b \in activeChannels_[l] : a.conn = b.conn => a = b

\* A connection that has a descriptor and may still use it.
HasFd(c) == c \in connections_ \/ conn[c].index # "kNew"
FdsDistinct == \A c, d \in Conns : HasFd(c) /\ HasFd(d) /\ c # d => conn[c].fd # conn[d].fd

\* The accept queue holds connections that were never accepted, once.
BacklogNew ==
    /\ acceptActive => backlog # <<>>
    /\ \A i, j \in DOMAIN backlog : backlog[i] = backlog[j] => i = j
    /\ \A i \in DOMAIN backlog :
          conn[backlog[i]].state_ = "none" /\ net[backlog[i]].peer # "absent"
    /\ \A c \in Conns : net[c].peer = "absent" => conn[c].state_ = "none"

\* What sendInLoop, handleWrite and shutdownInLoop have done with the output:
\* r and n are the connection and its socket, prod the units it was given, and
\* given up whether a reset made sendInLoop drop some.
OutOK(r, n, prod, givenUp) ==
    /\ ~givenUp => n.sent + r.outputBuffer_ = prod
    /\ r.state_ \in {"kConnected", "kDisconnecting"} /\ r.outputBuffer_ > 0 => r.writing
    /\ r.state_ = "kDisconnecting" /\ ~r.writing => n.wshut
    /\ n.wshut => /\ r.state_ \in {"kDisconnecting", "kDisconnected"}
                  /\ r.state_ = "kDisconnecting" => r.outputBuffer_ = 0

Output == \A c \in Conns : OutOK(conn[c], net[c], produced[c], c \in fault)

Life == Stages /\ QueuesFit /\ QueuedOnce /\ WillBeDestroyed /\ BatchOnly
Channels == ActiveOnce /\ FdsDistinct /\ BacklogNew

IInv == TypeOK /\ Life /\ Channels /\ Output

-----------------------------------------------------------------------------
(* Channel, EPollPoller and TcpConnection. *)

\* What enabling and disabling events leaves alone.
SameBut(r, q) ==
    /\ q \in Connections /\ q.state_ = r.state_ /\ q.loop = r.loop /\ q.fd = r.fd
    /\ q.outputBuffer_ = r.outputBuffer_ /\ q.keepConn_ = r.keepConn_

\* Channel::enableReading and enableWriting put the channel into the poller.
LEMMA EnableFacts ==
  ASSUME NEW r \in Connections
  PROVE  /\ SameBut(r, EnableReading(r)) /\ EnableReading(r).index = "kAdded"
         /\ EnableReading(r).reading = TRUE /\ EnableReading(r).writing = r.writing
         /\ SameBut(r, EnableWriting(r)) /\ EnableWriting(r).index = "kAdded"
         /\ EnableWriting(r).reading = r.reading /\ EnableWriting(r).writing = TRUE
BY DEF SameBut, EnableReading, EnableWriting, SetEvents, Update, Connections

\* Channel::disableWriting keeps a channel that reads in the poller, disableAll
\* takes it out of epoll.
LEMMA DisableFacts ==
  ASSUME NEW r \in Connections, r.index = "kAdded"
  PROVE  /\ SameBut(r, DisableWriting(r)) /\ DisableWriting(r).writing = FALSE
         /\ DisableWriting(r).reading = r.reading
         /\ r.reading => DisableWriting(r).index = "kAdded"
         /\ SameBut(r, DisableAll(r)) /\ DisableAll(r).index = "kDeleted"
         /\ DisableAll(r).reading = FALSE /\ DisableAll(r).writing = FALSE
BY DEF SameBut, DisableWriting, DisableAll, SetEvents, Update, Connections

Pairs == [r : Connections, n : Sockets]

\* write() never takes more than it is given or than the buffer has room for.
LEMMA WriteFacts ==
  ASSUME NEW n \in Sockets, NEW len \in Nat
  PROVE  /\ Writes(n, len) \in 0 .. len
         /\ LET m == AfterWrite(n, len) IN
            /\ m \in Sockets /\ m.sent = n.sent + Writes(n, len) /\ m.wshut = n.wshut
            /\ m.peer = n.peer
<1>1. n.snd \in 0 .. SndBuf /\ SndBuf \in Nat /\ n.sent \in Nat /\ n.err \in BOOLEAN
  BY MucgiConstants DEF Sockets
<1>2. Writes(n, len) \in 0 .. len /\ n.snd + Writes(n, len) \in 0 .. SndBuf
  BY <1>1 DEF Writes, Min2
<1> DEFINE w == Writes(n, len)
<1>3. AfterWrite(n, len) = [n EXCEPT !.snd = n.snd + w, !.sent = n.sent + w,
                                     !.err = IF n.peer = "reset" THEN FALSE ELSE n.err]
  BY DEF AfterWrite
<1>4. n.sent + w \in Nat
  BY <1>1, <1>2
<1> HIDE DEF w
<1>5. /\ AfterWrite(n, len) \in Sockets /\ AfterWrite(n, len).sent = n.sent + w
      /\ AfterWrite(n, len).wshut = n.wshut /\ AfterWrite(n, len).peer = n.peer
  BY <1>1, <1>2, <1>3, <1>4 DEF Sockets, w
<1> QED BY <1>2, <1>5 DEF w

\* A handler of an open connection keeps its loop, its descriptor and its
\* channel in the poller.
Keeps(p, q) ==
    /\ q \in Pairs /\ Up(q.r) /\ q.r.loop = p.r.loop /\ q.r.fd = p.r.fd /\ q.n.peer = p.n.peer

\* shutdownInLoop of a disconnecting connection.
LEMMA ShutdownInLoopFacts ==
  ASSUME NEW p \in Pairs, Up(p.r), p.r.state_ = "kDisconnecting",
         NEW prod \in Nat, NEW given \in BOOLEAN,
         ~given => p.n.sent + p.r.outputBuffer_ = prod,
         p.r.outputBuffer_ > 0 => p.r.writing,
         p.n.wshut => p.r.outputBuffer_ = 0
  PROVE  LET q == ShutdownInLoop(p) IN
         Keeps(p, q) /\ OutOK(q.r, q.n, prod, given)
<1>1. CASE p.r.writing
  BY <1>1 DEF ShutdownInLoop, Keeps, OutOK, Up
<1>2. CASE ~p.r.writing
  <2> DEFINE m == [p.n EXCEPT !.wshut = TRUE]
  <2>1. ShutdownInLoop(p) = [r |-> p.r, n |-> m]
    BY <1>2 DEF ShutdownInLoop, Pairs
  <2>2. m \in Sockets /\ m.wshut = TRUE /\ m.sent = p.n.sent /\ m.peer = p.n.peer
    BY DEF Pairs, Sockets
  <2> HIDE DEF m
  <2>3. p.r \in Connections /\ p.r.outputBuffer_ = 0
    BY <1>2 DEF Pairs, Connections
  <2> QED BY <1>2, <2>1, <2>2, <2>3 DEF Keeps, OutOK, Up, Pairs
<1> QED BY <1>1, <1>2

\* shutdown() in the loop thread.
LEMMA ShutdownFacts ==
  ASSUME NEW p \in Pairs, Up(p.r), NEW prod \in Nat, NEW given \in BOOLEAN,
         OutOK(p.r, p.n, prod, given)
  PROVE  LET q == Shutdown(p) IN
         Keeps(p, q) /\ OutOK(q.r, q.n, prod, given)
<1>1. CASE p.r.state_ # "kConnected"
  BY <1>1 DEF Shutdown, Keeps
<1>2. CASE p.r.state_ = "kConnected"
  <2> DEFINE s == [p.r EXCEPT !.state_ = "kDisconnecting"]
             t == [r |-> s, n |-> p.n]
  <2>1. [p EXCEPT !.r.state_ = "kDisconnecting"] = t
    BY DEF Pairs
  <2>2. /\ s \in Connections /\ s.state_ = "kDisconnecting" /\ s.loop = p.r.loop /\ s.fd = p.r.fd
        /\ s.reading = p.r.reading /\ s.writing = p.r.writing /\ s.index = p.r.index
        /\ s.outputBuffer_ = p.r.outputBuffer_
    BY DEF Pairs, Connections, States
  <2> HIDE DEF s
  <2>3. /\ t \in Pairs /\ Up(t.r) /\ t.r.state_ = "kDisconnecting" /\ t.n = p.n
        /\ t.r = s
    BY <2>2 DEF Pairs, Up
  <2> HIDE DEF t
  <2>4. ~p.n.wshut
    BY <1>2 DEF OutOK
  <2>5. LET q == ShutdownInLoop(t) IN Keeps(t, q) /\ OutOK(q.r, q.n, prod, given)
    <3>1. ~given => t.n.sent + t.r.outputBuffer_ = prod
      BY <2>2, <2>3 DEF OutOK
    <3>2. t.r.outputBuffer_ > 0 => t.r.writing
      BY <1>2, <2>2, <2>3 DEF OutOK
    <3> QED BY <2>3, <2>4, <3>1, <3>2, ShutdownInLoopFacts
  <2>6. Shutdown(p) = ShutdownInLoop(t)
    BY <1>2, <2>1 DEF Shutdown
  <2> QED BY <2>2, <2>3, <2>5, <2>6 DEF Keeps
<1> QED BY <1>1, <1>2

\* send() of a response of len units: all of it is written, waits with POLLOUT
\* asked for, or is given up after a reset.
LEMMA SendFacts ==
  ASSUME NEW p \in Pairs, Up(p.r), NEW prod \in Nat, NEW given \in BOOLEAN,
         OutOK(p.r, p.n, prod, given), NEW len \in Nat, p.r.state_ = "kConnected"
  PROVE  LET q == Send(p, len) IN
         /\ Keeps(p, q) /\ q.r.state_ = "kConnected" /\ q.r.keepConn_ = p.r.keepConn_
         /\ OutOK(q.r, q.n, prod + len, given \/ p.n.peer = "reset")
<1> DEFINE direct == ~p.r.writing /\ p.r.outputBuffer_ = 0
           w == IF direct THEN Writes(p.n, len) ELSE 0
           left == len - w
           m == IF direct THEN AfterWrite(p.n, len) ELSE p.n
           faultError == direct /\ p.n.peer = "reset"
           s == [p.r EXCEPT !.outputBuffer_ = @ + left]
           t == IF s.writing THEN s ELSE EnableWriting(s)
<1>1. p.n \in Sockets /\ p.r \in Connections /\ p.r.outputBuffer_ \in Nat /\ p.n.sent \in Nat
      /\ p.r.writing \in BOOLEAN
  BY DEF Pairs, Connections, Sockets
<1>2. w \in 0 .. len /\ m \in Sockets /\ m.sent = p.n.sent + w /\ m.wshut = p.n.wshut
      /\ m.peer = p.n.peer
  <2>1. CASE direct
    BY <1>1, <2>1, WriteFacts
  <2>2. CASE ~direct
    BY <1>1, <2>2
  <2> QED BY <2>1, <2>2
<1>3. Send(p, len) = IF faultError \/ left = 0 THEN [p EXCEPT !.n = m] ELSE [r |-> t, n |-> m]
  BY DEF Send, SendInLoop
<1>4. ~p.n.wshut
  BY DEF OutOK
<1>5. direct => p.r.outputBuffer_ = 0
  OBVIOUS
<1>6. ~direct => p.r.writing \/ p.r.outputBuffer_ > 0
  BY <1>1
<1>7. p.r.outputBuffer_ > 0 => p.r.writing
  BY DEF OutOK
<1> HIDE DEF w, m, direct
<1>8. left \in 0 .. len /\ w + left = len
  BY <1>2
<1> HIDE DEF left
<1>9. CASE faultError \/ left = 0
  <2>1. Send(p, len) = [r |-> p.r, n |-> m]
    BY <1>3, <1>9 DEF Pairs
  <2>2. ~(given \/ p.n.peer = "reset") => left = 0
    BY <1>9
  <2>3. ~(given \/ p.n.peer = "reset") => m.sent + p.r.outputBuffer_ = prod + len
    BY <1>1, <1>2, <1>8, <2>2 DEF OutOK
  <2>4. OutOK(p.r, m, prod + len, given \/ p.n.peer = "reset")
    BY <1>2, <1>4, <1>7, <2>3 DEF OutOK
  <2> QED BY <1>1, <1>2, <2>1, <2>4 DEF Keeps, Pairs
<1>10. CASE ~faultError /\ left # 0
  <2>1. Send(p, len) = [r |-> t, n |-> m]
    BY <1>3, <1>10
  <2>2. p.r.outputBuffer_ + left \in Nat
    BY <1>1, <1>8
  <2>3. /\ s \in Connections /\ s.state_ = "kConnected" /\ s.loop = p.r.loop /\ s.fd = p.r.fd
        /\ s.reading = p.r.reading /\ s.writing = p.r.writing /\ s.index = p.r.index
        /\ s.outputBuffer_ = p.r.outputBuffer_ + left /\ s.keepConn_ = p.r.keepConn_
    BY <1>1, <2>2 DEF Connections
  <2>4. p.r.reading = TRUE /\ p.r.index = "kAdded"
    BY <1>1 DEF Up, Connections
  <2> HIDE DEF s
  <2>5. /\ t \in Connections /\ t.state_ = "kConnected" /\ t.loop = p.r.loop /\ t.fd = p.r.fd
        /\ t.reading = TRUE /\ t.writing = TRUE /\ t.index = "kAdded"
        /\ t.outputBuffer_ = p.r.outputBuffer_ + left /\ t.keepConn_ = p.r.keepConn_
    <3>1. CASE s.writing
      BY <1>1, <2>3, <2>4, <3>1
    <3>2. CASE ~s.writing
      BY <2>3, <2>4, <3>2, EnableFacts DEF SameBut
    <3> QED BY <3>1, <3>2
  <2> HIDE DEF t
  <2>6. ~(given \/ p.n.peer = "reset") => m.sent + t.outputBuffer_ = prod + len
    BY <1>1, <1>2, <1>8, <2>5 DEF OutOK
  <2>7. OutOK(t, m, prod + len, given \/ p.n.peer = "reset")
    BY <1>2, <1>4, <2>5, <2>6 DEF OutOK
  <2> QED BY <1>2, <2>1, <2>5, <2>7 DEF Keeps, Pairs, Up
<1> QED BY <1>9, <1>10

\* onMessage for the records recs: the request's answer is sent and, unless the
\* connection is kept, shutdown() follows.
LEMMA OnMessageFacts ==
  ASSUME NEW p \in Pairs, Up(p.r), NEW prod \in Nat, NEW given \in BOOLEAN,
         OutOK(p.r, p.n, prod, given), NEW recs
  PROVE  LET q == OnMessage(p, recs)
             answers == GotRequest(recs) /\ p.r.state_ = "kConnected"
         IN  /\ Keeps(p, q)
             /\ OutOK(q.r, q.n, prod + (IF answers THEN ResponseUnits ELSE 0),
                      given \/ (answers /\ p.n.peer = "reset"))
<1> DEFINE k == KeepConn(p.r, recs)
           s == [p.r EXCEPT !.keepConn_ = k]
           q == [r |-> s, n |-> p.n]
           t == Send(q, ResponseUnits)
<1>1. p.n \in Sockets /\ p.r \in Connections
  BY DEF Pairs
<1>2. k \in BOOLEAN
  BY <1>1 DEF KeepConn, Connections
<1>3. OnMessage(p, recs) = IF ~GotRequest(recs) THEN q ELSE IF q.r.keepConn_ THEN t ELSE Shutdown(t)
  <2>1. [p EXCEPT !.r.keepConn_ = k] = q
    BY DEF Pairs
  <2> QED BY <2>1 DEF OnMessage
<1> HIDE DEF k
<1>4. /\ s \in Connections /\ s.state_ = p.r.state_ /\ s.loop = p.r.loop /\ s.fd = p.r.fd
      /\ s.reading = p.r.reading /\ s.writing = p.r.writing /\ s.index = p.r.index
      /\ s.outputBuffer_ = p.r.outputBuffer_
  BY <1>1, <1>2 DEF Connections
<1> HIDE DEF s
<1>5. /\ q \in Pairs /\ Up(q.r) /\ q.r.state_ = p.r.state_ /\ q.n = p.n
      /\ q.r.loop = p.r.loop /\ q.r.fd = p.r.fd /\ OutOK(q.r, q.n, prod, given)
  BY <1>1, <1>4 DEF Pairs, Up, OutOK
<1> HIDE DEF q
<1>6. ResponseUnits \in Nat /\ prod + 0 = prod
  BY MucgiConstants
<1>7. CASE ~GotRequest(recs)
  BY <1>3, <1>5, <1>6, <1>7 DEF Keeps
<1>8. CASE GotRequest(recs) /\ p.r.state_ = "kConnected"
  <2>1. /\ Keeps(q, t) /\ OutOK(t.r, t.n, prod + ResponseUnits, given \/ q.n.peer = "reset")
    BY <1>5, <1>6, <1>8, SendFacts
  <2> HIDE DEF t
  <2>2. prod + ResponseUnits \in Nat /\ (given \/ q.n.peer = "reset") \in BOOLEAN
    BY <1>6
  <2>3. /\ Keeps(t, Shutdown(t))
        /\ OutOK(Shutdown(t).r, Shutdown(t).n, prod + ResponseUnits, given \/ q.n.peer = "reset")
    BY <2>1, <2>2, ShutdownFacts DEF Keeps
  <2>4. (given \/ q.n.peer = "reset") = (given \/ (TRUE /\ p.n.peer = "reset"))
    BY <1>5
  <2>5. CASE q.r.keepConn_
    BY <1>3, <1>5, <1>8, <2>1, <2>5 DEF Keeps
  <2>6. CASE ~q.r.keepConn_
    BY <1>3, <1>5, <1>8, <2>1, <2>3, <2>6 DEF Keeps
  <2> QED BY <2>5, <2>6
<1>9. CASE GotRequest(recs) /\ p.r.state_ # "kConnected"
  <2>1. t = q /\ Shutdown(t) = q
    BY <1>5, <1>9 DEF Send, Shutdown
  <2> QED BY <1>3, <1>5, <1>6, <1>9, <2>1 DEF Keeps
<1> QED BY <1>7, <1>8, <1>9

\* handleWrite: what the socket takes leaves the buffer, and the last unit out
\* starts the shutdown that waited for it.
LEMMA HandleWriteFacts ==
  ASSUME NEW p \in Pairs, Up(p.r), NEW prod \in Nat, NEW given \in BOOLEAN,
         OutOK(p.r, p.n, prod, given)
  PROVE  LET q == HandleWrite(p) IN
         Keeps(p, q) /\ OutOK(q.r, q.n, prod, given)
<1> DEFINE w == Writes(p.n, p.r.outputBuffer_)
           m == AfterWrite(p.n, p.r.outputBuffer_)
           s == [p.r EXCEPT !.outputBuffer_ = @ - w]
           q == [r |-> s, n |-> m]
           idle == [r |-> DisableWriting(s), n |-> m]
<1>1. p.n \in Sockets /\ p.r \in Connections /\ p.r.outputBuffer_ \in Nat /\ p.n.sent \in Nat
      /\ p.r.writing \in BOOLEAN /\ p.r.reading = TRUE /\ p.r.index = "kAdded"
  BY DEF Pairs, Connections, Sockets, Up
<1>2. CASE ~p.r.writing
  BY <1>2 DEF HandleWrite, Keeps
<1>3. CASE p.r.writing
  <2>1. w \in 0 .. p.r.outputBuffer_ /\ m \in Sockets /\ m.sent = p.n.sent + w
        /\ m.wshut = p.n.wshut /\ m.peer = p.n.peer
    BY <1>1, WriteFacts
  <2>2. HandleWrite(p) = IF w = 0 \/ q.r.outputBuffer_ > 0 THEN q
                         ELSE IF idle.r.state_ = "kDisconnecting" THEN ShutdownInLoop(idle) ELSE idle
    BY <1>3 DEF HandleWrite
  <2> HIDE DEF w, m
  <2>3. p.r.outputBuffer_ - w \in Nat
    BY <1>1, <2>1
  <2>4. /\ s \in Connections /\ s.state_ = p.r.state_ /\ s.loop = p.r.loop /\ s.fd = p.r.fd
        /\ s.reading = TRUE /\ s.writing = p.r.writing /\ s.index = "kAdded"
        /\ s.outputBuffer_ = p.r.outputBuffer_ - w
    BY <1>1, <2>3 DEF Connections
  <2>5. ~given => m.sent + s.outputBuffer_ = prod
    BY <1>1, <2>1, <2>4 DEF OutOK
  <2> DEFINE d == DisableWriting(s)
  <2> HIDE DEF s
  <2>6. /\ d \in Connections /\ d.state_ = p.r.state_ /\ d.loop = p.r.loop /\ d.fd = p.r.fd
        /\ d.reading = TRUE /\ d.writing = FALSE /\ d.index = "kAdded"
        /\ d.outputBuffer_ = s.outputBuffer_
    BY <2>4, DisableFacts DEF SameBut
  <2> HIDE DEF d
  <2>7. CASE w = 0 \/ s.outputBuffer_ > 0
    <3>1. HandleWrite(p) = q
      BY <2>2, <2>7
    <3>2. p.n.wshut /\ p.r.state_ = "kDisconnecting" => s.outputBuffer_ = 0
      BY <1>1, <2>1, <2>4 DEF OutOK
    <3>3. OutOK(s, m, prod, given)
      BY <1>3, <2>1, <2>4, <2>5, <3>2 DEF OutOK
    <3> QED BY <2>1, <2>4, <3>1, <3>3 DEF Keeps, Up, Pairs
  <2>8. CASE ~(w = 0 \/ s.outputBuffer_ > 0)
    <3>1. HandleWrite(p) = IF idle.r.state_ = "kDisconnecting" THEN ShutdownInLoop(idle) ELSE idle
      BY <2>2, <2>8
    <3>2. s.outputBuffer_ = 0
      BY <2>3, <2>4, <2>8
    <3>3. /\ idle \in Pairs /\ Up(idle.r) /\ idle.r.state_ = p.r.state_ /\ idle.n = m
          /\ idle.r.loop = p.r.loop /\ idle.r.fd = p.r.fd /\ idle.r.outputBuffer_ = 0
      BY <2>1, <2>6, <3>2 DEF Pairs, Up, d
    <3> HIDE DEF idle
    <3>4. ~given => idle.n.sent + idle.r.outputBuffer_ = prod
      BY <2>5, <3>2, <3>3
    <3>5. CASE p.r.state_ = "kDisconnecting"
      <4>1. LET z == ShutdownInLoop(idle) IN Keeps(idle, z) /\ OutOK(z.r, z.n, prod, given)
        BY <3>3, <3>4, <3>5, ShutdownInLoopFacts
      <4> QED BY <2>1, <3>1, <3>3, <3>5, <4>1 DEF Keeps
    <3>6. CASE p.r.state_ # "kDisconnecting"
      <4>1. p.r.state_ = "kConnected" /\ ~p.n.wshut
        BY <3>6 DEF Up, OutOK
      <4>2. OutOK(idle.r, idle.n, prod, given)
        BY <2>1, <3>3, <3>4, <4>1 DEF OutOK
      <4> QED BY <2>1, <3>1, <3>3, <3>6, <4>2 DEF Keeps
    <3> QED BY <3>5, <3>6
  <2> QED BY <2>7, <2>8
<1> QED BY <1>2, <1>3

-----------------------------------------------------------------------------
(* The functors to run. *)

\* q is what is left of fs after its first d elements, followed by ps.
Joined(q, fs, d, ps) ==
    /\ q \in Seq(Functors) /\ DOMAIN q = 1 .. Len(q) /\ Len(q) \in Nat /\ Len(fs) - d \in Nat
    /\ Len(ps) \in Nat /\ Len(q) = (Len(fs) - d) + Len(ps)
    /\ \A i \in 1 .. Len(q) :
          /\ q[i] \in Functors
          /\ i <= Len(fs) - d => d + i \in 1 .. Len(fs) /\ q[i] = fs[d + i]
          /\ i > Len(fs) - d => i - (Len(fs) - d) \in 1 .. Len(ps)
                                /\ q[i] = ps[i - (Len(fs) - d)]

\* ToRun is such a sequence.
LEMMA RestAndMore ==
  ASSUME NEW fs \in Seq(Functors), NEW d \in 0 .. Len(fs), NEW ps \in Seq(Functors)
  PROVE  Joined(SubSeq(fs, d + 1, Len(fs)) \o ps, fs, d, ps)
<1> DEFINE sub == SubSeq(fs, d + 1, Len(fs))
           q == sub \o ps
           n == Len(fs) - d
<1>1. Len(fs) \in Nat /\ Len(ps) \in Nat /\ n \in Nat
  OBVIOUS
<1>2. sub \in Seq(Functors) /\ Len(sub) = n /\ \A i \in 1 .. n : sub[i] = fs[d + i]
  OBVIOUS
<1> HIDE DEF sub
<1>3. /\ q \in Seq(Functors) /\ Len(q) = Len(sub) + Len(ps)
      /\ \A i \in 1 .. Len(sub) + Len(ps) : q[i] = IF i <= Len(sub) THEN sub[i] ELSE ps[i - Len(sub)]
  BY <1>2, ConcatProperties
<1> HIDE DEF q
<1>4. DOMAIN q = 1 .. Len(q) /\ Len(q) \in Nat /\ \A i \in 1 .. Len(q) : q[i] \in Functors
  BY <1>3
<1>5. ASSUME NEW i \in 1 .. Len(q)
      PROVE  /\ i <= n => d + i \in 1 .. Len(fs) /\ q[i] = fs[d + i]
             /\ i > n => i - n \in 1 .. Len(ps) /\ q[i] = ps[i - n]
  <2>1. CASE i <= n
    BY <1>1, <1>2, <1>3, <2>1
  <2>2. CASE i > n
    BY <1>1, <1>2, <1>3, <2>2
  <2> QED BY <1>1, <2>1, <2>2
<1>6. Joined(q, fs, d, ps)
  BY <1>1, <1>2, <1>3, <1>4, <1>5 DEF Joined
<1> QED BY <1>6 DEF q, sub

\* ToRun(l) is a sequence of functors.
LEMMA ToRunType ==
  ASSUME TypeOK, NEW l \in Loops
  PROVE  /\ ToRun(l) \in Seq(Functors) /\ DOMAIN ToRun(l) = 1 .. Len(ToRun(l))
         /\ Len(ToRun(l)) \in Nat /\ \A i \in 1 .. Len(ToRun(l)) : ToRun(l)[i] \in Functors
<1>1. functors[l] \in Seq(Functors) /\ pendingFunctors_[l] \in Seq(Functors)
      /\ done[l] \in 0 .. Len(functors[l])
  BY DEF TypeOK
<1>2. Joined(ToRun(l), functors[l], done[l], pendingFunctors_[l])
  BY <1>1, RestAndMore DEF ToRun
<1> QED BY <1>2 DEF Joined

\* How a step may change the functors a loop has to run.
Idle(l) ==
    /\ Len(ToRun(l)') = Len(ToRun(l))
    /\ \A i \in 1 .. Len(ToRun(l)) : ToRun(l)'[i] = ToRun(l)[i]
Pops(l) ==
    /\ Len(ToRun(l)) >= 1 /\ Len(ToRun(l)') = Len(ToRun(l)) - 1
    /\ \A i \in 1 .. Len(ToRun(l)) - 1 : ToRun(l)'[i] = ToRun(l)[i + 1]
Pushes(l, f) ==
    /\ Len(ToRun(l)') = Len(ToRun(l)) + 1
    /\ \A i \in 1 .. Len(ToRun(l)) : ToRun(l)'[i] = ToRun(l)[i]
    /\ ToRun(l)'[Len(ToRun(l)) + 1] = f

\* A loop whose queues are not touched.
LEMMA Untouched ==
  ASSUME NEW l \in Loops, functors'[l] = functors[l], done'[l] = done[l],
         pendingFunctors_'[l] = pendingFunctors_[l]
  PROVE  Idle(l)
BY DEF Idle, ToRun

\* queueInLoop.
LEMMA Queued ==
  ASSUME TypeOK, NEW k \in Loops, NEW f \in Functors,
         functors'[k] = functors[k], done'[k] = done[k],
         pendingFunctors_'[k] = Append(pendingFunctors_[k], f)
  PROVE  Pushes(k, f)
<1> DEFINE fs == functors[k]
           d == done[k]
           ps == pendingFunctors_[k]
           qs == pendingFunctors_'[k]
           left == Len(fs) - d
<1>1. fs \in Seq(Functors) /\ ps \in Seq(Functors) /\ d \in 0 .. Len(fs) /\ qs = Append(ps, f)
  BY DEF TypeOK
<1>2. ToRun(k) = SubSeq(fs, d + 1, Len(fs)) \o ps /\ ToRun(k)' = SubSeq(fs, d + 1, Len(fs)) \o qs
  BY DEF ToRun
<1> HIDE DEF fs, d, ps, qs
<1>3. qs \in Seq(Functors) /\ Len(qs) = Len(ps) + 1 /\ Len(ps) \in Nat
      /\ (\A i \in 1 .. Len(ps) : qs[i] = ps[i]) /\ qs[Len(ps) + 1] = f
  BY <1>1
<1>4. left \in Nat
  BY <1>1
<1>5. /\ Len(ToRun(k)) = left + Len(ps) /\ Len(ToRun(k)) \in Nat
      /\ \A i \in 1 .. Len(ToRun(k)) :
               /\ i <= left => ToRun(k)[i] = fs[d + i]
               /\ i > left => i - left \in 1 .. Len(ps) /\ ToRun(k)[i] = ps[i - left]
  <2>1. Joined(ToRun(k), fs, d, ps)
    BY <1>1, <1>2, RestAndMore
  <2> QED BY <2>1 DEF Joined
<1>6. /\ Len(ToRun(k)') = left + Len(qs)
      /\ \A i \in 1 .. Len(ToRun(k)') :
               /\ i <= left => ToRun(k)'[i] = fs[d + i]
               /\ i > left => ToRun(k)'[i] = qs[i - left]
  <2>1. Joined(ToRun(k)', fs, d, qs)
    BY <1>1, <1>2, <1>3, RestAndMore
  <2> QED BY <2>1 DEF Joined
<1> HIDE DEF left
<1>7. Len(ToRun(k)') = Len(ToRun(k)) + 1
  BY <1>3, <1>4, <1>5, <1>6
<1>8. ASSUME NEW i \in 1 .. Len(ToRun(k)) PROVE ToRun(k)'[i] = ToRun(k)[i]
  <2>1. i \in 1 .. Len(ToRun(k)')
    BY <1>5, <1>7
  <2>2. CASE i <= left
    BY <1>5, <1>6, <2>1, <2>2
  <2>3. CASE i > left
    BY <1>3, <1>5, <1>6, <2>1, <2>3
  <2> QED BY <1>4, <2>2, <2>3
<1>9. ToRun(k)'[Len(ToRun(k)) + 1] = f
  BY <1>3, <1>4, <1>5, <1>6, <1>7
<1> QED BY <1>7, <1>8, <1>9 DEF Pushes

\* A functor of the batch has run.
LEMMA RanOne ==
  ASSUME TypeOK, NEW k \in Loops, done[k] < Len(functors[k]),
         functors'[k] = functors[k], done'[k] = done[k] + 1,
         pendingFunctors_'[k] = pendingFunctors_[k]
  PROVE  Pops(k) /\ ToRun(k)[1] = functors[k][done[k] + 1]
<1> DEFINE fs == functors[k]
           d == done[k]
           ps == pendingFunctors_[k]
<1>1. /\ fs \in Seq(Functors) /\ ps \in Seq(Functors) /\ d \in 0 .. Len(fs)
      /\ d < Len(fs)
  BY DEF TypeOK
<1>2. /\ ToRun(k) = SubSeq(fs, d + 1, Len(fs)) \o ps
      /\ ToRun(k)' = SubSeq(fs, d + 1 + 1, Len(fs)) \o ps
  BY DEF ToRun
<1> HIDE DEF fs, d, ps
<1>3. d + 1 \in 0 .. Len(fs) /\ Len(fs) - d \in Nat /\ Len(fs) - (d + 1) \in Nat /\ Len(ps) \in Nat
      /\ d \in Nat /\ Len(fs) \in Nat
  BY <1>1
<1>4. /\ Len(ToRun(k)) = (Len(fs) - d) + Len(ps)
      /\ \A i \in 1 .. Len(ToRun(k)) :
               /\ i <= Len(fs) - d => ToRun(k)[i] = fs[d + i]
               /\ i > Len(fs) - d => ToRun(k)[i] = ps[i - (Len(fs) - d)]
  <2>1. Joined(ToRun(k), fs, d, ps)
    BY <1>1, <1>2, RestAndMore
  <2> QED BY <2>1 DEF Joined
<1>5. /\ Len(ToRun(k)') = (Len(fs) - (d + 1)) + Len(ps)
      /\ \A i \in 1 .. Len(ToRun(k)') :
               /\ i <= Len(fs) - (d + 1) => ToRun(k)'[i] = fs[d + 1 + i]
               /\ i > Len(fs) - (d + 1) => ToRun(k)'[i] = ps[i - (Len(fs) - (d + 1))]
  <2>1. Joined(ToRun(k)', fs, d + 1, ps)
    BY <1>1, <1>2, <1>3, RestAndMore
  <2> QED BY <2>1 DEF Joined
<1>6. Len(ToRun(k)') = Len(ToRun(k)) - 1 /\ Len(ToRun(k)) >= 1 /\ Len(ToRun(k)) \in Nat
  BY <1>1, <1>3, <1>4, <1>5
<1>7. ASSUME NEW i \in 1 .. Len(ToRun(k)) - 1 PROVE ToRun(k)'[i] = ToRun(k)[i + 1]
  <2>1. i \in 1 .. Len(ToRun(k)') /\ i + 1 \in 1 .. Len(ToRun(k))
    BY <1>6
  <2>2. CASE i <= Len(fs) - (d + 1)
    <3>1. ToRun(k)'[i] = fs[d + 1 + i]
      BY <1>5, <2>1, <2>2
    <3>2. ToRun(k)[i + 1] = fs[d + (i + 1)]
      BY <1>3, <1>4, <2>1, <2>2
    <3>3. d + 1 + i = d + (i + 1)
      BY <1>3
    <3> QED BY <3>1, <3>2, <3>3
  <2>3. CASE i > Len(fs) - (d + 1)
    <3>1. ToRun(k)'[i] = ps[i - (Len(fs) - (d + 1))]
      BY <1>5, <2>1, <2>3
    <3>2. ToRun(k)[i + 1] = ps[i + 1 - (Len(fs) - d)]
      BY <1>3, <1>4, <2>1, <2>3
    <3>3. i - (Len(fs) - (d + 1)) = i + 1 - (Len(fs) - d)
      BY <1>3
    <3> QED BY <3>1, <3>2, <3>3
  <2> QED BY <1>3, <2>2, <2>3
<1>8. ToRun(k)[1] = fs[d + 1]
  BY <1>1, <1>3, <1>4, <1>6
<1> QED BY <1>6, <1>7, <1>8 DEF Pops, fs, d

\* The batch that begins holds what was pending.
LEMMA BatchBegins ==
  ASSUME TypeOK, NEW k \in Loops, functors[k] = <<>>, done[k] = 0, done'[k] = 0,
         functors'[k] = pendingFunctors_[k], pendingFunctors_'[k] = <<>>
  PROVE  Idle(k)
<1> DEFINE ps == pendingFunctors_[k]
           e == <<>>
<1>1. /\ ps \in Seq(Functors) /\ e \in Seq(Functors) /\ Len(e) = 0 /\ Len(ps) \in Nat
      /\ 0 \in 0 .. Len(e) /\ 0 \in 0 .. Len(ps)
  BY DEF TypeOK
<1>2. ToRun(k) = SubSeq(e, 0 + 1, Len(e)) \o ps /\ ToRun(k)' = SubSeq(ps, 0 + 1, Len(ps)) \o e
  BY DEF ToRun
<1> HIDE DEF ps, e
<1>3. Joined(ToRun(k), e, 0, ps) /\ Joined(ToRun(k)', ps, 0, e)
  BY <1>1, <1>2, RestAndMore
<1>4. /\ Len(ToRun(k)) = Len(ps) /\ \A i \in 1 .. Len(ToRun(k)) : ToRun(k)[i] = ps[i]
  BY <1>1, <1>3 DEF Joined
<1>5. /\ Len(ToRun(k)') = Len(ps) /\ \A i \in 1 .. Len(ToRun(k)') : ToRun(k)'[i] = ps[i]
  BY <1>1, <1>3 DEF Joined
<1> QED BY <1>1, <1>4, <1>5 DEF Idle

\* The batch that ends has nothing left to run.
LEMMA BatchEnds ==
  ASSUME TypeOK, NEW k \in Loops, done[k] = Len(functors[k]), functors'[k] = <<>>, done'[k] = 0,
         pendingFunctors_'[k] = pendingFunctors_[k]
  PROVE  Idle(k)
<1> DEFINE ps == pendingFunctors_[k]
           fs == functors[k]
           e == <<>>
<1>1. /\ ps \in Seq(Functors) /\ fs \in Seq(Functors) /\ Len(fs) \in Nat /\ Len(ps) \in Nat
      /\ e \in Seq(Functors) /\ Len(e) = 0 /\ 0 \in 0 .. Len(e) /\ Len(fs) \in 0 .. Len(fs)
  BY DEF TypeOK
<1>2. /\ ToRun(k) = SubSeq(fs, Len(fs) + 1, Len(fs)) \o ps
      /\ ToRun(k)' = SubSeq(e, 0 + 1, Len(e)) \o ps
  BY DEF ToRun
<1> HIDE DEF ps, fs, e
<1>3. Joined(ToRun(k), fs, Len(fs), ps) /\ Joined(ToRun(k)', e, 0, ps)
  BY <1>1, <1>2, RestAndMore
<1>4. /\ Len(ToRun(k)) = Len(ps) /\ \A i \in 1 .. Len(ToRun(k)) : ToRun(k)[i] = ps[i]
  BY <1>1, <1>3 DEF Joined
<1>5. /\ Len(ToRun(k)') = Len(ps) /\ \A i \in 1 .. Len(ToRun(k)') : ToRun(k)'[i] = ps[i]
  BY <1>1, <1>3 DEF Joined
<1> QED BY <1>1, <1>4, <1>5 DEF Idle

-----------------------------------------------------------------------------
(* A connection's life. *)

\* Which functor of c may be waiting, by the stage c is in.
LEMMA WaitingFits ==
  ASSUME TypeOK, QueuesFit, NEW l \in Loops, NEW i \in DOMAIN ToRun(l)
  PROVE  LET f == ToRun(l)[i]
             r == conn[f.conn]
         IN  /\ f \in Functors /\ f.conn \in Conns
             /\ \/ f.op = "established" /\ r.state_ = "kConnecting" /\ r.loop = l
                \/ /\ f.op = "remove" /\ l = Base /\ r.loop # Base /\ r.state_ = "kDisconnected"
                   /\ f.conn \in connections_
                \/ /\ f.op = "destroy" /\ r.loop = l /\ r.state_ = "kDisconnected"
                   /\ r.index = "kDeleted" /\ f.conn \notin connections_
<1>1. ToRun(l)[i] \in Functors
  BY ToRunType
<1>2. Fits(l, ToRun(l)[i])
  BY DEF QueuesFit
<1>3. ToRun(l)[i].op \in {"established", "remove", "destroy"} /\ ToRun(l)[i].conn \in Conns
  BY <1>1 DEF Functors
<1> QED BY <1>1, <1>2, <1>3 DEF Fits

NoneFor(c, l) == \A i \in 1 .. Len(ToRun(l)) : ToRun(l)[i].conn # c

\* A step that changes nothing but c's record, its place in the map and its
\* functors keeps the queues right, if it does so for c.
LEMMA QueueStep ==
  ASSUME IInv, TypeOK', NEW c \in Conns,
         \A d \in Conns : d # c => conn'[d] = conn[d] /\ (d \in connections_' <=> d \in connections_),
         \A l \in Loops :
            \/ Idle(l) /\ NoneFor(c, l)
            \/ Pops(l) /\ ToRun(l)[1].conn = c
            \/ \E f \in Functors : f.conn = c /\ Pushes(l, f) /\ NoneFor(c, l) /\ Fits(l, f)',
         c \notin connections_' /\ conn'[c].index # "kNew" =>
            \E l \in Loops, f \in Functors : f.conn = c /\ Pushes(l, f)
  PROVE  QueuesFit' /\ QueuedOnce' /\ WillBeDestroyed'
<1> USE DEF NoneFor
<1>1. \A l \in Loops : /\ Len(ToRun(l)) \in Nat /\ DOMAIN ToRun(l) = 1 .. Len(ToRun(l))
                       /\ \A i \in 1 .. Len(ToRun(l)) : ToRun(l)[i] \in Functors
  BY ToRunType DEF IInv
<1>2. \A l \in Loops : Len(ToRun(l)') \in Nat /\ DOMAIN (ToRun(l)') = 1 .. Len(ToRun(l)')
  <2> TAKE l \in Loops
  <2>1. functors'[l] \in Seq(Functors) /\ pendingFunctors_'[l] \in Seq(Functors)
        /\ done'[l] \in 0 .. Len(functors'[l])
    BY DEF TypeOK
  <2>2. Joined(ToRun(l)', functors'[l], done'[l], pendingFunctors_'[l])
    BY <2>1, RestAndMore DEF ToRun
  <2> QED BY <2>2 DEF Joined
<1>3. \A l \in Loops : \A f \in Functors : f.conn # c /\ Fits(l, f) => Fits(l, f)'
  <2> SUFFICES ASSUME NEW l \in Loops, NEW f \in Functors, f.conn # c, Fits(l, f) PROVE Fits(l, f)'
    OBVIOUS
  <2>1. f.conn \in Conns
    BY DEF Functors
  <2> QED BY <2>1 DEF Fits
<1>4. \A l \in Loops : \A i, j \in 1 .. Len(ToRun(l)) : ToRun(l)[i].conn = ToRun(l)[j].conn => i = j
  BY <1>1 DEF IInv, Life, QueuedOnce
<1>5. \A l \in Loops : \A i \in 1 .. Len(ToRun(l)) : Fits(l, ToRun(l)[i])
  BY <1>1 DEF IInv, Life, QueuesFit
<1>6. QueuesFit'
  <2> SUFFICES ASSUME NEW l \in Loops, NEW i \in 1 .. Len(ToRun(l)') PROVE Fits(l, ToRun(l)[i])'
    BY <1>2 DEF QueuesFit
  <2>1. CASE Idle(l) /\ NoneFor(c, l)
    <3> DEFINE f == ToRun(l)[i]
    <3>1. i \in 1 .. Len(ToRun(l)) /\ ToRun(l)'[i] = f /\ f \in Functors /\ f.conn # c /\ Fits(l, f)
      BY <1>1, <1>5, <2>1 DEF Idle
    <3> QED BY <1>3, <3>1 DEF Fits
  <2>2. CASE Pops(l) /\ ToRun(l)[1].conn = c
    <3> DEFINE f == ToRun(l)[i + 1]
    <3>1. i + 1 \in 1 .. Len(ToRun(l)) /\ 1 \in 1 .. Len(ToRun(l)) /\ i + 1 # 1 /\ ToRun(l)'[i] = f
      BY <1>1, <2>2 DEF Pops
    <3>2. f \in Functors /\ f.conn # c /\ Fits(l, f)
      BY <1>1, <1>4, <1>5, <2>2, <3>1
    <3> QED BY <1>3, <3>1, <3>2 DEF Fits
  <2>3. ASSUME NEW f \in Functors, f.conn = c, Pushes(l, f), NoneFor(c, l), Fits(l, f)'
        PROVE  Fits(l, ToRun(l)[i])'
    <3>1. CASE i <= Len(ToRun(l))
      <4> DEFINE g == ToRun(l)[i]
      <4>1. i \in 1 .. Len(ToRun(l)) /\ ToRun(l)'[i] = g /\ g \in Functors /\ g.conn # c /\ Fits(l, g)
        BY <1>1, <1>5, <2>3, <3>1 DEF Pushes
      <4> QED BY <1>3, <4>1 DEF Fits
    <3>2. CASE i > Len(ToRun(l))
      <4>1. ToRun(l)'[i] = f
        BY <1>1, <2>3, <3>2 DEF Pushes
      <4> QED BY <2>3, <4>1 DEF Fits
    <3> QED BY <1>1, <3>1, <3>2
  <2> QED BY <2>1, <2>2, <2>3
<1>7. QueuedOnce'
  <2> SUFFICES ASSUME NEW l \in Loops, NEW i \in 1 .. Len(ToRun(l)'), NEW j \in 1 .. Len(ToRun(l)'),
                      ToRun(l)'[i].conn = ToRun(l)'[j].conn
               PROVE  i = j
    BY <1>2 DEF QueuedOnce
  <2>1. CASE Idle(l)
    BY <1>4, <2>1 DEF Idle
  <2>2. CASE Pops(l)
    <3>1. i + 1 \in 1 .. Len(ToRun(l)) /\ j + 1 \in 1 .. Len(ToRun(l))
      BY <1>1, <2>2 DEF Pops
    <3>2. i \in 1 .. Len(ToRun(l)) - 1 /\ j \in 1 .. Len(ToRun(l)) - 1
      BY <2>2 DEF Pops
    <3>3. ToRun(l)'[i] = ToRun(l)[i + 1] /\ ToRun(l)'[j] = ToRun(l)[j + 1]
      BY <2>2, <3>2 DEF Pops
    <3>4. i + 1 = j + 1
      BY <1>4, <3>1, <3>3
    <3> QED BY <3>4
  <2>3. ASSUME NEW f \in Functors, f.conn = c, Pushes(l, f), NoneFor(c, l)
        PROVE  i = j
    <3> DEFINE n == Len(ToRun(l))
    <3>1. n \in Nat /\ i \in 1 .. n + 1 /\ j \in 1 .. n + 1
      BY <1>1, <2>3 DEF Pushes
    <3>2. \A k \in 1 .. n : ToRun(l)'[k] = ToRun(l)[k] /\ ToRun(l)[k].conn # c
      BY <2>3 DEF Pushes
    <3>3. ToRun(l)'[n + 1].conn = c
      BY <2>3 DEF Pushes
    <3>4. \A a, b \in 1 .. n : ToRun(l)[a].conn = ToRun(l)[b].conn => a = b
      BY <1>4
    <3> HIDE DEF n
    <3> QED BY <3>1, <3>2, <3>3, <3>4
  <2> QED BY <2>1, <2>2, <2>3
<1>8. WillBeDestroyed'
  <2> SUFFICES ASSUME NEW d \in Conns, d \notin connections_', conn'[d].index # "kNew"
               PROVE  \E l \in Loops : \E i \in 1 .. Len(ToRun(l)') : ToRun(l)'[i].conn = d
    BY <1>2 DEF WillBeDestroyed
  <2>1. CASE d = c
    <3>1. PICK l \in Loops, f \in Functors : f.conn = c /\ Pushes(l, f)
      BY <2>1
    <3>2. Len(ToRun(l)) + 1 \in 1 .. Len(ToRun(l)') /\ ToRun(l)'[Len(ToRun(l)) + 1].conn = d
      BY <1>1, <2>1, <3>1 DEF Pushes
    <3> QED BY <3>2
  <2>2. CASE d # c
    <3>1. d \notin connections_ /\ conn[d].index # "kNew"
      BY <2>2
    <3>2. PICK l \in Loops : \E i \in 1 .. Len(ToRun(l)) : ToRun(l)[i].conn = d
      BY <1>1, <3>1 DEF IInv, Life, WillBeDestroyed
    <3>3. PICK i \in 1 .. Len(ToRun(l)) : ToRun(l)[i].conn = d
      BY <3>2
    <3>4. CASE Idle(l)
      BY <3>3, <3>4 DEF Idle
    <3>5. CASE Pops(l) /\ ToRun(l)[1].conn = c
      <4>1. i # 1
        BY <2>2, <3>3, <3>5
      <4>2. i - 1 \in 1 .. Len(ToRun(l)) - 1 /\ (i - 1) + 1 = i
        BY <1>1, <4>1
      <4>3. i - 1 \in 1 .. Len(ToRun(l)') /\ ToRun(l)'[i - 1] = ToRun(l)[i]
        BY <3>5, <4>2 DEF Pops
      <4> QED BY <3>3, <4>3
    <3>6. ASSUME NEW f \in Functors, Pushes(l, f)
          PROVE  \E k \in 1 .. Len(ToRun(l)') : ToRun(l)'[k].conn = d
      <4>1. i \in 1 .. Len(ToRun(l)') /\ ToRun(l)'[i] = ToRun(l)[i]
        BY <1>1, <3>6 DEF Pushes
      <4> QED BY <3>3, <4>1
    <3> QED BY <3>4, <3>5, <3>6
  <2> QED BY <2>1, <2>2
<1> QED BY <1>6, <1>7, <1>8

\* A step that only takes functors from one queue to the next.
LEMMA QueueIdle ==
  ASSUME IInv, TypeOK', UNCHANGED <<conn, connections_>>, \A l \in Loops : Idle(l)
  PROVE  Stages' /\ QueuesFit' /\ QueuedOnce' /\ WillBeDestroyed'
<1>1. \A l \in Loops : /\ Len(ToRun(l)) \in Nat /\ DOMAIN ToRun(l) = 1 .. Len(ToRun(l))
                       /\ \A i \in 1 .. Len(ToRun(l)) : ToRun(l)[i] \in Functors
  BY ToRunType DEF IInv
<1>2. \A l \in Loops : DOMAIN (ToRun(l)') = 1 .. Len(ToRun(l)')
  <2> TAKE l \in Loops
  <2>1. functors'[l] \in Seq(Functors) /\ pendingFunctors_'[l] \in Seq(Functors)
        /\ done'[l] \in 0 .. Len(functors'[l])
    BY DEF TypeOK
  <2>2. Joined(ToRun(l)', functors'[l], done'[l], pendingFunctors_'[l])
    BY <2>1, RestAndMore DEF ToRun
  <2> QED BY <2>2 DEF Joined
<1>3. \A l \in Loops : /\ DOMAIN (ToRun(l)') = DOMAIN ToRun(l)
                       /\ \A i \in DOMAIN ToRun(l) : ToRun(l)'[i] = ToRun(l)[i]
  BY <1>1, <1>2 DEF Idle
<1>4. QueuesFit'
  <2> SUFFICES ASSUME NEW l \in Loops, NEW i \in DOMAIN ToRun(l) PROVE Fits(l, ToRun(l)[i])'
    BY <1>3 DEF QueuesFit
  <2>1. Fits(l, ToRun(l)[i]) /\ ToRun(l)'[i] = ToRun(l)[i]
    BY <1>3 DEF IInv, Life, QueuesFit
  <2> QED BY <2>1 DEF Fits
<1>5. QueuedOnce'
  <2> SUFFICES ASSUME NEW l \in Loops, NEW i \in DOMAIN ToRun(l), NEW j \in DOMAIN ToRun(l),
                      ToRun(l)'[i].conn = ToRun(l)'[j].conn
               PROVE  i = j
    BY <1>3 DEF QueuedOnce
  <2> QED BY <1>3 DEF IInv, Life, QueuedOnce
<1>6. WillBeDestroyed'
  <2> SUFFICES ASSUME NEW d \in Conns, d \notin connections_, conn[d].index # "kNew"
               PROVE  \E l \in Loops : \E i \in DOMAIN ToRun(l) : ToRun(l)'[i].conn = d
    BY <1>3 DEF WillBeDestroyed
  <2> QED BY <1>3 DEF IInv, Life, WillBeDestroyed
<1>7. Stages'
  BY DEF IInv, Life, Stages, Stage
<1> QED BY <1>4, <1>5, <1>6, <1>7

\* The step concerns no other connection than c.
Elsewhere(c) ==
    \A d \in Conns : d # c =>
        /\ conn'[d] = conn[d] /\ net'[d] = net[d] /\ produced'[d] = produced[d]
        /\ d \in fault' <=> d \in fault
        /\ d \in connections_' <=> d \in connections_

\* A step of a connection that was accepted keeps the active channels, the
\* descriptors and the accept queue right.
LEMMA ChannelsStep ==
  ASSUME IInv, TypeOK', NEW c \in Conns, Elsewhere(c),
         conn[c].state_ # "none", conn'[c].state_ # "none",
         conn'[c].fd = conn[c].fd, conn'[c].loop = conn[c].loop, net'[c].peer = net[c].peer,
         HasFd(c)' => HasFd(c), backlog' = backlog, acceptActive' = acceptActive,
         \A l \in Loops : activeChannels_'[l] \subseteq activeChannels_[l],
         \A l \in Loops : \A a \in activeChannels_'[l] :
            a.conn = c => conn'[c].state_ \in {"kConnected", "kDisconnecting"}
  PROVE  Channels'
<1>1. ActiveOnce'
  <2> SUFFICES ASSUME NEW l \in Loops, NEW a \in activeChannels_'[l]
               PROVE  /\ conn'[a.conn].loop = l
                      /\ conn'[a.conn].state_ \in {"kConnected", "kDisconnecting"}
                      /\ \A b \in activeChannels_'[l] : a.conn = b.conn => a = b
    BY DEF ActiveOnce
  <2>1. a \in activeChannels_[l] /\ activeChannels_'[l] \subseteq activeChannels_[l] /\ a.conn \in Conns
    BY DEF IInv, TypeOK
  <2>2. /\ conn[a.conn].loop = l /\ conn[a.conn].state_ \in {"kConnected", "kDisconnecting"}
        /\ \A b \in activeChannels_[l] : a.conn = b.conn => a = b
    BY <2>1 DEF IInv, Channels, ActiveOnce
  <2>3. CASE a.conn = c
    BY <2>1, <2>2, <2>3
  <2>4. CASE a.conn # c
    BY <2>1, <2>2, <2>4 DEF Elsewhere
  <2> QED BY <2>3, <2>4
<1>2. FdsDistinct'
  <2>1. \A d \in Conns : conn'[d].fd = conn[d].fd /\ (HasFd(d)' => HasFd(d))
    BY DEF Elsewhere, HasFd
  <2> QED BY <2>1 DEF FdsDistinct, IInv, Channels
<1>3. BacklogNew'
  <2>1. \A i \in DOMAIN backlog : backlog[i] \in Conns /\ backlog[i] # c
    BY DEF IInv, TypeOK, Channels, BacklogNew
  <2> QED BY <2>1 DEF Elsewhere, IInv, Channels, BacklogNew
<1> QED BY <1>1, <1>2, <1>3 DEF Channels

\* The rest of IInv, when only c changes.
LEMMA OneConnection ==
  ASSUME IInv, NEW c \in Conns, Elsewhere(c), Stage(c)',
         OutOK(conn'[c], net'[c], produced'[c], c \in fault')
  PROVE  Stages' /\ Output'
<1>1. Stages'
  <2> SUFFICES ASSUME NEW d \in Conns, d # c PROVE Stage(d)'
    BY DEF Stages
  <2> QED BY DEF Elsewhere, IInv, Life, Stages, Stage
<1>2. Output'
  <2> SUFFICES ASSUME NEW d \in Conns, d # c
               PROVE  OutOK(conn'[d], net'[d], produced'[d], d \in fault')
    BY DEF Output, OutOK
  <2>1. OutOK(conn[d], net[d], produced[d], d \in fault)
    BY DEF IInv, Output
  <2>2. conn'[d] = conn[d] /\ net'[d] = net[d] /\ produced'[d] = produced[d] /\ (d \in fault' <=> d \in fault)
    BY DEF Elsewhere
  <2> QED BY <2>1, <2>2 DEF OutOK
<1> QED BY <1>1, <1>2

-----------------------------------------------------------------------------
(* The functors. *)

\* What a running functor finds.
LEMMA RunningFacts ==
  ASSUME IInv, NEW l \in Loops, NEW op, Running(l, op)
  PROVE  LET f == functors[l][done[l] + 1] IN
         /\ f \in Functors /\ f.conn \in Conns /\ f.op = op /\ Fits(l, f)
         /\ 1 \in DOMAIN ToRun(l) /\ ToRun(l)[1] = f
         /\ pc[l] = "functors" /\ done[l] + 1 \in 0 .. Len(functors[l])
         /\ (pendingFunctors_'[l] = pendingFunctors_[l] => Pops(l))
<1>1. /\ pc[l] = "functors" /\ done[l] < Len(functors[l]) /\ functors' = functors
      /\ functors[l][done[l] + 1].op = op /\ done' = [done EXCEPT ![l] = @ + 1]
  BY DEF Running
<1>2. /\ functors[l] \in Seq(Functors) /\ done[l] \in 0 .. Len(functors[l])
      /\ pendingFunctors_[l] \in Seq(Functors)
  BY DEF IInv, TypeOK
<1>3. functors[l][done[l] + 1] \in Functors /\ done[l] + 1 \in 0 .. Len(functors[l])
  BY <1>1, <1>2
<1>4. Joined(ToRun(l), functors[l], done[l], pendingFunctors_[l])
  BY <1>2, RestAndMore DEF ToRun
<1>5. 1 \in DOMAIN ToRun(l) /\ ToRun(l)[1] = functors[l][done[l] + 1]
  <2>1. Len(functors[l]) - done[l] >= 1 /\ Len(functors[l]) \in Nat
    BY <1>1, <1>2
  <2>2. 1 \in 1 .. Len(ToRun(l)) /\ DOMAIN ToRun(l) = 1 .. Len(ToRun(l))
    BY <1>4, <2>1 DEF Joined
  <2> QED BY <1>4, <2>1, <2>2 DEF Joined
<1>6. Fits(l, functors[l][done[l] + 1])
  BY <1>5 DEF IInv, Life, QueuesFit
<1>7. functors[l][done[l] + 1].conn \in Conns
  BY <1>3 DEF Functors
<1>8. ASSUME pendingFunctors_'[l] = pendingFunctors_[l] PROVE Pops(l)
  <2>1. done'[l] = done[l] + 1
    BY <1>1 DEF IInv, TypeOK
  <2>2. TypeOK /\ functors'[l] = functors[l]
    BY <1>1 DEF IInv
  <2> QED BY <1>1, <1>8, <2>1, <2>2, RanOne
<1> QED BY <1>1, <1>3, <1>5, <1>6, <1>7, <1>8

\* The other loops of a step of loop l, whose functors nobody touches.
LEMMA OtherLoops ==
  ASSUME TypeOK, NEW l \in Loops, NEW op, Running(l, op), NEW k \in Loops, k # l,
         pendingFunctors_'[k] = pendingFunctors_[k]
  PROVE  Idle(k)
<1>1. functors' = functors /\ done' = [done EXCEPT ![l] = @ + 1]
  BY DEF Running
<1>2. functors'[k] = functors[k] /\ done'[k] = done[k]
  BY <1>1 DEF TypeOK
<1> QED BY <1>2, Untouched

\* connectEstablished, in the connection's loop.
LEMMA RunEstablishedInv ==
  ASSUME IInv, NEW l \in Loops, RunEstablished(l)
  PROVE  IInv'
<1>0. PICK f \in Functors : f = functors[l][done[l] + 1]
  BY RunningFacts DEF RunEstablished
<1> DEFINE c == f.conn
           r == conn[c]
           q == ConnectEstablished(r)
<1>1. /\ Running(l, "established") /\ conn' = [conn EXCEPT ![c] = q]
      /\ UNCHANGED <<connections_, pendingFunctors_>>
  BY <1>0 DEF RunEstablished
<1>2. /\ f \in Functors /\ c \in Conns /\ f.op = "established" /\ Fits(l, f)
      /\ 1 \in DOMAIN ToRun(l) /\ ToRun(l)[1] = f
      /\ pc[l] = "functors" /\ done[l] + 1 \in 0 .. Len(functors[l]) /\ Pops(l)
  BY <1>0, <1>1, RunningFacts
<1>3. r.state_ = "kConnecting" /\ r.loop = l
  BY <1>2 DEF Fits
<1>4. /\ TypeOK /\ r \in Connections /\ Stage(c) /\ OutOK(r, net[c], produced[c], c \in fault)
  BY <1>2 DEF IInv, TypeOK, Life, Stages, Output
<1>5. /\ done' = [done EXCEPT ![l] = @ + 1]
      /\ UNCHANGED <<numThreads_, next_, pc, activeChannels_, acceptActive, functors, net, backlog,
                     produced, fault>>
  BY <1>1 DEF Running, netVars, histVars
<1>6. /\ q \in Connections /\ q.state_ = "kConnected" /\ q.loop = r.loop /\ q.fd = r.fd
      /\ q.reading = TRUE /\ q.writing = r.writing /\ q.index = "kAdded"
      /\ q.outputBuffer_ = r.outputBuffer_
  <2> DEFINE s == [r EXCEPT !.state_ = "kConnected"]
  <2>1. /\ s \in Connections /\ s.state_ = "kConnected" /\ s.loop = r.loop /\ s.fd = r.fd
        /\ s.writing = r.writing /\ s.outputBuffer_ = r.outputBuffer_
    BY <1>4 DEF Connections, States
  <2> HIDE DEF s
  <2>2. q = EnableReading(s)
    BY DEF s, ConnectEstablished
  <2> HIDE DEF q
  <2> QED BY <2>1, <2>2, EnableFacts DEF SameBut
<1>7. c \in connections_ /\ r.outputBuffer_ = 0 /\ ~r.writing
  BY <1>3, <1>4 DEF Stage, Quiet
<1> HIDE DEF q, c, r
<1>8. conn'[c] = q /\ conn[c] = r /\ Elsewhere(c)
  <2>1. conn[c] = r /\ conn \in [Conns -> Connections]
    BY <1>4 DEF r, TypeOK
  <2> QED BY <1>1, <1>2, <1>5, <2>1 DEF Elsewhere
<1>9. TypeOK'
  <2>1. conn' \in [Conns -> Connections]
    BY <1>1, <1>2, <1>4, <1>6 DEF TypeOK
  <2>2. done' \in [Loops -> Nat] /\ \A k \in Loops : done'[k] \in 0 .. Len(functors[k])
    BY <1>2, <1>4, <1>5 DEF TypeOK
  <2> QED BY <1>1, <1>4, <1>5, <2>1, <2>2 DEF TypeOK
<1>10. Stage(c)'
  BY <1>1, <1>6, <1>7, <1>8 DEF Stage, Up
<1>11. OutOK(conn'[c], net'[c], produced'[c], c \in fault')
  BY <1>3, <1>4, <1>5, <1>6, <1>7, <1>8 DEF OutOK
<1>12. QueuesFit' /\ QueuedOnce' /\ WillBeDestroyed'
  <2>1. \A k \in Loops : \/ Idle(k) /\ NoneFor(c, k)
                         \/ Pops(k) /\ ToRun(k)[1].conn = c
    <3> TAKE k \in Loops
    <3>1. CASE k = l
      BY <1>2, <3>1 DEF c
    <3>2. CASE k # l
      <4>1. Idle(k)
        BY <1>1, <1>4, <3>2, OtherLoops
      <4>2. NoneFor(c, k)
        <5> SUFFICES ASSUME NEW i \in 1 .. Len(ToRun(k)), ToRun(k)[i].conn = c PROVE FALSE
          BY DEF NoneFor
        <5>1. i \in DOMAIN ToRun(k)
          BY <1>4, ToRunType
        <5> QED BY <1>3, <1>4, <1>8, <3>2, <5>1, WaitingFits DEF IInv, Life
      <4> QED BY <4>1, <4>2
    <3> QED BY <3>1, <3>2
  <2> QED BY <1>1, <1>2, <1>7, <1>8, <1>9, <2>1, QueueStep DEF Elsewhere
<1>13. BatchOnly'
  BY <1>2, <1>5 DEF IInv, Life, BatchOnly, TypeOK
<1>14. Channels'
  <2>1. HasFd(c)
    BY <1>7 DEF HasFd
  <2> QED BY <1>2, <1>3, <1>5, <1>6, <1>8, <1>9, <2>1, ChannelsStep
<1>15. Stages' /\ Output'
  BY <1>2, <1>8, <1>10, <1>11, OneConnection
<1> QED BY <1>9, <1>12, <1>13, <1>14, <1>15 DEF IInv, Life

\* connectDestroyed, in the connection's loop.
LEMMA RunDestroyInv ==
  ASSUME IInv, NEW l \in Loops, RunDestroy(l)
  PROVE  IInv'
<1>0. PICK f \in Functors : f = functors[l][done[l] + 1]
  BY RunningFacts DEF RunDestroy
<1> DEFINE c == f.conn
           r == conn[c]
           q == ConnectDestroyed(r)
<1>1. /\ Running(l, "destroy") /\ conn' = [conn EXCEPT ![c] = q]
      /\ UNCHANGED <<connections_, pendingFunctors_>>
  BY <1>0 DEF RunDestroy
<1>2. /\ f \in Functors /\ c \in Conns /\ f.op = "destroy" /\ Fits(l, f)
      /\ 1 \in DOMAIN ToRun(l) /\ ToRun(l)[1] = f
      /\ pc[l] = "functors" /\ done[l] + 1 \in 0 .. Len(functors[l]) /\ Pops(l)
  BY <1>0, <1>1, RunningFacts
<1>3. r.state_ = "kDisconnected" /\ r.loop = l /\ r.index = "kDeleted" /\ c \notin connections_
  BY <1>2 DEF Fits
<1>4. /\ TypeOK /\ r \in Connections /\ Stage(c) /\ OutOK(r, net[c], produced[c], c \in fault)
  BY <1>2 DEF IInv, TypeOK, Life, Stages, Output
<1>5. /\ done' = [done EXCEPT ![l] = @ + 1]
      /\ UNCHANGED <<numThreads_, next_, pc, activeChannels_, acceptActive, functors, net, backlog,
                     produced, fault>>
  BY <1>1 DEF Running, netVars, histVars
<1>6. /\ q \in Connections /\ q.state_ = "kDisconnected" /\ q.loop = r.loop /\ q.fd = r.fd
      /\ q.reading = r.reading /\ q.writing = r.writing /\ q.index = "kNew"
      /\ q.outputBuffer_ = r.outputBuffer_
  BY <1>3, <1>4 DEF ConnectDestroyed, Connections
<1>7. ~r.reading /\ ~r.writing
  BY <1>3, <1>4 DEF Stage, Quiet
<1> HIDE DEF q, c, r
<1>8. conn'[c] = q /\ conn[c] = r /\ Elsewhere(c)
  <2>1. conn[c] = r /\ conn \in [Conns -> Connections]
    BY <1>4 DEF r, TypeOK
  <2> QED BY <1>1, <1>2, <1>5, <2>1 DEF Elsewhere
<1>9. TypeOK'
  <2>1. conn' \in [Conns -> Connections]
    BY <1>1, <1>2, <1>4, <1>6 DEF TypeOK
  <2>2. done' \in [Loops -> Nat] /\ \A k \in Loops : done'[k] \in 0 .. Len(functors[k])
    BY <1>2, <1>4, <1>5 DEF TypeOK
  <2> QED BY <1>1, <1>4, <1>5, <2>1, <2>2 DEF TypeOK
<1>10. Stage(c)'
  BY <1>1, <1>3, <1>6, <1>7, <1>8 DEF Stage, Quiet
<1>11. OutOK(conn'[c], net'[c], produced'[c], c \in fault')
  BY <1>3, <1>4, <1>5, <1>6, <1>7, <1>8 DEF OutOK
<1>12. QueuesFit' /\ QueuedOnce' /\ WillBeDestroyed'
  <2>1. \A k \in Loops : \/ Idle(k) /\ NoneFor(c, k)
                         \/ Pops(k) /\ ToRun(k)[1].conn = c
    <3> TAKE k \in Loops
    <3>1. CASE k = l
      BY <1>2, <3>1 DEF c
    <3>2. CASE k # l
      <4>1. Idle(k)
        BY <1>1, <1>4, <3>2, OtherLoops
      <4>2. NoneFor(c, k)
        <5> SUFFICES ASSUME NEW i \in 1 .. Len(ToRun(k)), ToRun(k)[i].conn = c PROVE FALSE
          BY DEF NoneFor
        <5>1. i \in DOMAIN ToRun(k)
          BY <1>4, ToRunType
        <5> QED BY <1>3, <1>4, <1>8, <3>2, <5>1, WaitingFits DEF IInv, Life
      <4> QED BY <4>1, <4>2
    <3> QED BY <3>1, <3>2
  <2> QED BY <1>1, <1>2, <1>6, <1>8, <1>9, <2>1, QueueStep DEF Elsewhere
<1>13. BatchOnly'
  BY <1>2, <1>5 DEF IInv, Life, BatchOnly, TypeOK
<1>14. Channels'
  <2>1. ~HasFd(c)'
    BY <1>1, <1>3, <1>6, <1>8 DEF HasFd
  <2>2. \A k \in Loops : \A a \in activeChannels_'[k] : a.conn # c
    BY <1>3, <1>5, <1>8 DEF IInv, Channels, ActiveOnce
  <2> QED BY <1>2, <1>3, <1>5, <1>6, <1>8, <1>9, <2>1, <2>2, ChannelsStep
<1>15. Stages' /\ Output'
  BY <1>2, <1>8, <1>10, <1>11, OneConnection
<1> QED BY <1>9, <1>12, <1>13, <1>14, <1>15 DEF IInv, Life

\* queueInLoop adds to one loop's queue.
LEMMA QueueType ==
  ASSUME TypeOK, NEW k \in Loops, NEW f \in Functors, QueueInLoop(k, f)
  PROVE  /\ pendingFunctors_' \in [Loops -> Seq(Functors)]
         /\ pendingFunctors_'[k] = Append(pendingFunctors_[k], f)
         /\ \A l \in Loops : l # k => pendingFunctors_'[l] = pendingFunctors_[l]
<1>1. pendingFunctors_ \in [Loops -> Seq(Functors)]
  BY DEF TypeOK
<1>2. Append(pendingFunctors_[k], f) \in Seq(Functors)
  BY <1>1
<1> QED BY <1>1, <1>2 DEF QueueInLoop

\* removeConnectionInLoop, in the base loop.
LEMMA RunRemoveInv ==
  ASSUME IInv, NEW l \in Loops, RunRemove(l)
  PROVE  IInv'
<1>0. PICK f \in Functors : f = functors[l][done[l] + 1]
  BY RunningFacts DEF RunRemove
<1> DEFINE c == f.conn
<1>1. /\ Running(l, "remove") /\ conn' = conn /\ connections_' = connections_ \ {c}
      /\ QueueInLoop(conn[c].loop, Functor("destroy", c))
  BY <1>0 DEF RunRemove, RemoveConnectionInLoop
<1>2. /\ f \in Functors /\ c \in Conns /\ f.op = "remove" /\ Fits(l, f)
      /\ 1 \in DOMAIN ToRun(l) /\ ToRun(l)[1] = f
      /\ pc[l] = "functors" /\ done[l] + 1 \in 0 .. Len(functors[l])
      /\ (pendingFunctors_'[l] = pendingFunctors_[l] => Pops(l))
  BY <1>0, <1>1, RunningFacts
<1>3. /\ l = Base /\ conn[c].loop # Base /\ conn[c].state_ = "kDisconnected" /\ c \in connections_
  BY <1>2 DEF Fits
<1>4. /\ TypeOK /\ conn[c] \in Connections /\ Stage(c)
      /\ OutOK(conn[c], net[c], produced[c], c \in fault)
  BY <1>2 DEF IInv, TypeOK, Life, Stages, Output
<1>5. PICK m \in Loops : m = conn[c].loop
  BY <1>4 DEF Connections
<1>6. PICK g \in Functors : g = Functor("destroy", c)
  BY <1>2 DEF Functor, Functors
<1>7. g.conn = c /\ g.op = "destroy"
  BY <1>6 DEF Functor
<1>8. /\ done' = [done EXCEPT ![l] = @ + 1]
      /\ UNCHANGED <<numThreads_, next_, pc, activeChannels_, acceptActive, functors, net, backlog,
                     produced, fault>>
  BY <1>1 DEF Running, netVars, histVars
<1> HIDE DEF c
<1>9. /\ pendingFunctors_' \in [Loops -> Seq(Functors)]
      /\ pendingFunctors_'[m] = Append(pendingFunctors_[m], g)
      /\ \A k \in Loops : k # m => pendingFunctors_'[k] = pendingFunctors_[k]
  <2>1. QueueInLoop(m, g)
    BY <1>1, <1>5, <1>6
  <2> QED BY <1>4, <2>1, QueueType
<1>10. TypeOK'
  <2>1. done' \in [Loops -> Nat] /\ \A k \in Loops : done'[k] \in 0 .. Len(functors[k])
    BY <1>2, <1>4, <1>8 DEF TypeOK
  <2> QED BY <1>1, <1>4, <1>8, <1>9, <2>1 DEF TypeOK
<1>11. Elsewhere(c) /\ c \notin connections_'
  BY <1>1, <1>8 DEF Elsewhere
<1>12. Stage(c)'
  BY <1>1, <1>3, <1>4, <1>11 DEF Stage
<1>13. OutOK(conn'[c], net'[c], produced'[c], c \in fault')
  BY <1>1, <1>4, <1>8 DEF OutOK
<1>14. m # l /\ conn[c].index = "kDeleted"
  BY <1>3, <1>4, <1>5 DEF Stage
<1>15. ASSUME NEW k \in Loops, k # l PROVE NoneFor(c, k)
  <2> SUFFICES ASSUME NEW i \in 1 .. Len(ToRun(k)), ToRun(k)[i].conn = c PROVE FALSE
    BY DEF NoneFor
  <2>1. i \in DOMAIN ToRun(k)
    BY <1>4, ToRunType
  <2> QED BY <1>3, <1>4, <1>15, <2>1, WaitingFits DEF IInv, Life
<1>16. Pushes(m, g)
  <2>1. functors'[m] = functors[m] /\ done'[m] = done[m]
    BY <1>4, <1>8, <1>14 DEF TypeOK
  <2> QED BY <1>4, <1>9, <2>1, Queued
<1>17. Fits(m, g)'
  BY <1>1, <1>3, <1>5, <1>7, <1>11, <1>14 DEF Fits
<1>18. QueuesFit' /\ QueuedOnce' /\ WillBeDestroyed'
  <2>1. ASSUME NEW k \in Loops
        PROVE  \/ Idle(k) /\ NoneFor(c, k)
               \/ Pops(k) /\ ToRun(k)[1].conn = c
               \/ \E h \in Functors : h.conn = c /\ Pushes(k, h) /\ NoneFor(c, k) /\ Fits(k, h)'
    <3>1. CASE k = l
      <4>1. Pops(l)
        BY <1>2, <1>9, <1>14
      <4> QED BY <1>2, <3>1, <4>1 DEF c
    <3>2. CASE k = m
      BY <1>7, <1>14, <1>15, <1>16, <1>17, <3>2
    <3>3. CASE k # l /\ k # m
      <4>1. Idle(k)
        BY <1>1, <1>4, <1>9, <3>3, OtherLoops
      <4> QED BY <1>15, <3>3, <4>1
    <3> QED BY <3>1, <3>2, <3>3
  <2>2. \E k \in Loops, h \in Functors : h.conn = c /\ Pushes(k, h)
    BY <1>7, <1>16
  <2>3. c \in Conns /\ \A d \in Conns : d # c =>
           conn'[d] = conn[d] /\ (d \in connections_' <=> d \in connections_)
    BY <1>2, <1>11 DEF Elsewhere
  <2> QED BY <1>10, <2>1, <2>2, <2>3, QueueStep
<1>19. BatchOnly'
  BY <1>2, <1>8 DEF IInv, Life, BatchOnly, TypeOK
<1>20. Channels'
  <2>1. HasFd(c)
    BY <1>3 DEF HasFd
  <2>2. \A k \in Loops : \A a \in activeChannels_'[k] : a.conn # c
    BY <1>3, <1>8 DEF IInv, Channels, ActiveOnce
  <2> QED BY <1>1, <1>2, <1>3, <1>8, <1>10, <1>11, <2>1, <2>2, ChannelsStep
<1>21. Stages' /\ Output'
  BY <1>2, <1>11, <1>12, <1>13, OneConnection
<1> QED BY <1>10, <1>18, <1>19, <1>20, <1>21 DEF IInv, Life

-----------------------------------------------------------------------------
(* The handlers. *)

\* The connection of an active channel is up.
LEMMA ActiveFacts ==
  ASSUME IInv, NEW l \in Loops, NEW a \in activeChannels_[l]
  PROVE  /\ a.conn \in Conns /\ a.in \in BOOLEAN /\ a.out \in BOOLEAN /\ a.err \in BOOLEAN
         /\ conn[a.conn] \in Connections /\ net[a.conn] \in Sockets /\ Up(conn[a.conn])
         /\ conn[a.conn].loop = l /\ a.conn \in connections_
         /\ HandleError(a) \in Sockets /\ HandleError(a).peer = net[a.conn].peer
         /\ HandleError(a).sent = net[a.conn].sent /\ HandleError(a).wshut = net[a.conn].wshut
         /\ OutOK(conn[a.conn], net[a.conn], produced[a.conn], a.conn \in fault)
         /\ produced[a.conn] \in Nat
         /\ \A k \in Loops : NoneFor(a.conn, k)
<1>1. a.conn \in Conns /\ a.in \in BOOLEAN /\ a.out \in BOOLEAN /\ a.err \in BOOLEAN
  BY DEF IInv, TypeOK
<1>2. conn[a.conn] \in Connections /\ net[a.conn] \in Sockets /\ produced[a.conn] \in Nat
  BY <1>1 DEF IInv, TypeOK
<1>3. conn[a.conn].loop = l /\ conn[a.conn].state_ \in {"kConnected", "kDisconnecting"}
  BY DEF IInv, Channels, ActiveOnce
<1>4. Up(conn[a.conn]) /\ a.conn \in connections_
  BY <1>1, <1>3 DEF IInv, Life, Stages, Stage
<1>5. /\ HandleError(a) \in Sockets /\ HandleError(a).peer = net[a.conn].peer
      /\ HandleError(a).sent = net[a.conn].sent /\ HandleError(a).wshut = net[a.conn].wshut
  BY <1>1, <1>2 DEF HandleError, Sockets
<1>6. OutOK(conn[a.conn], net[a.conn], produced[a.conn], a.conn \in fault)
  BY <1>1 DEF IInv, Output
<1>7. ASSUME NEW k \in Loops PROVE NoneFor(a.conn, k)
  <2> SUFFICES ASSUME NEW i \in 1 .. Len(ToRun(k)), ToRun(k)[i].conn = a.conn PROVE FALSE
    BY DEF NoneFor
  <2>1. i \in DOMAIN ToRun(k) /\ TypeOK
    BY ToRunType DEF IInv
  <2> QED BY <1>3, <2>1, WaitingFits DEF IInv, Life
<1> QED BY <1>1, <1>2, <1>3, <1>4, <1>5, <1>6, <1>7

\* A handler that leaves its connection up.
LEMMA HandledInv ==
  ASSUME IInv, NEW l \in Loops, NEW a \in activeChannels_[l], Handle(l, a),
         NEW c \in Conns, c = a.conn, NEW q \in Pairs, Up(q.r),
         q.r.loop = conn[c].loop, q.r.fd = conn[c].fd, q.n.peer = net[c].peer,
         conn' = [conn EXCEPT ![c] = q.r], net' = [net EXCEPT ![c] = q.n],
         UNCHANGED <<connections_, pendingFunctors_>>,
         produced' \in [Conns -> Nat], fault' \in SUBSET Conns,
         \A d \in Conns : d # c => produced'[d] = produced[d] /\ (d \in fault' <=> d \in fault),
         OutOK(q.r, q.n, produced'[c], c \in fault')
  PROVE  IInv'
<1>1. /\ activeChannels_' = [activeChannels_ EXCEPT ![l] = @ \ {a}]
      /\ UNCHANGED <<numThreads_, next_, pc, acceptActive, functors, done, backlog>>
  BY DEF Handle
<1>2. /\ TypeOK /\ Up(conn[c]) /\ c \in connections_ /\ \A k \in Loops : NoneFor(c, k)
      /\ q.r \in Connections /\ q.n \in Sockets
  BY ActiveFacts DEF IInv, Pairs
<1>3. /\ conn'[c] = q.r /\ net'[c] = q.n
      /\ conn' \in [Conns -> Connections] /\ net' \in [Conns -> Sockets]
      /\ \A d \in Conns : d # c => conn'[d] = conn[d] /\ net'[d] = net[d]
  BY <1>2 DEF TypeOK
<1>4. /\ activeChannels_' \in [Loops -> SUBSET [conn : Conns, err : BOOLEAN, in : BOOLEAN, out : BOOLEAN]]
      /\ \A k \in Loops : activeChannels_'[k] \subseteq activeChannels_[k]
  <2>1. activeChannels_ \in [Loops -> SUBSET [conn : Conns, err : BOOLEAN, in : BOOLEAN, out : BOOLEAN]]
    BY <1>2 DEF TypeOK
  <2> QED BY <1>1, <2>1
<1>5. TypeOK'
  BY <1>1, <1>2, <1>3, <1>4 DEF TypeOK
<1>6. Elsewhere(c)
  BY <1>3 DEF Elsewhere
<1>7. Stage(c)'
  BY <1>2, <1>3 DEF Stage, Up
<1>8. QueuesFit' /\ QueuedOnce' /\ WillBeDestroyed'
  <2>1. \A k \in Loops : Idle(k)
    BY <1>1, Untouched
  <2> QED BY <1>2, <1>3, <1>5, <2>1, QueueStep
<1>9. BatchOnly'
  BY <1>1 DEF IInv, Life, BatchOnly
<1>10. Channels'
  <2>1. HasFd(c)
    BY <1>2 DEF HasFd
  <2>2. conn[c].state_ # "none" /\ conn'[c].state_ \in {"kConnected", "kDisconnecting"}
    BY <1>2, <1>3 DEF Up
  <2> QED BY <1>1, <1>3, <1>4, <1>5, <1>6, <2>1, <2>2, ChannelsStep
<1>11. Stages' /\ Output'
  BY <1>3, <1>6, <1>7, OneConnection
<1> QED BY <1>5, <1>8, <1>9, <1>10, <1>11 DEF IInv, Life

\* The end of an event: handleWrite, if POLLOUT was reported as well.
LEMMA FinishFacts ==
  ASSUME NEW a, a.out \in BOOLEAN, NEW p \in Pairs, Up(p.r), NEW prod \in Nat,
         NEW given \in BOOLEAN, OutOK(p.r, p.n, prod, given), Finish(a, p)
  PROVE  \E q \in Pairs : /\ Keeps(p, q) /\ OutOK(q.r, q.n, prod, given)
                          /\ conn' = [conn EXCEPT ![a.conn] = q.r]
                          /\ net' = [net EXCEPT ![a.conn] = q.n]
<1>1. CASE a.out
  <2> DEFINE q == HandleWrite(p)
  <2>1. Keeps(p, q) /\ OutOK(q.r, q.n, prod, given)
    BY HandleWriteFacts
  <2>2. conn' = [conn EXCEPT ![a.conn] = q.r] /\ net' = [net EXCEPT ![a.conn] = q.n]
    BY <1>1 DEF Finish
  <2> HIDE DEF q
  <2> QED BY <2>1, <2>2 DEF Keeps
<1>2. CASE ~a.out
  <2>1. Keeps(p, p)
    BY DEF Keeps
  <2>2. conn' = [conn EXCEPT ![a.conn] = p.r] /\ net' = [net EXCEPT ![a.conn] = p.n]
    BY <1>2 DEF Finish
  <2> QED BY <2>1, <2>2
<1> QED BY <1>1, <1>2

\* What one readFd leaves in the socket.
LEMMA RestType ==
  ASSUME NEW S, NEW s \in Seq(S), NEW k \in 1 .. Len(s)
  PROVE  SubSeq(s, k + 1, Len(s)) \in Seq(S)
OBVIOUS

\* A proposition as a value.
LEMMA Truth ==
  ASSUME NEW S, NEW x
  PROVE  \E g \in BOOLEAN : g <=> x \in S
<1>1. CASE x \in S
  <2>1. TRUE \in BOOLEAN /\ (TRUE <=> x \in S)
    BY <1>1
  <2> QED BY <2>1
<1>2. CASE x \notin S
  <2>1. FALSE \in BOOLEAN /\ (FALSE <=> x \in S)
    BY <1>2
  <2> QED BY <2>1
<1> QED BY <1>1, <1>2

\* handleRead with data, then handleWrite if POLLOUT came too.
LEMMA HandleMessageInv ==
  ASSUME IInv, NEW l \in Loops, HandleMessage(l)
  PROVE  IInv'
<1>1. PICK a \in activeChannels_[l] :
        /\ Handle(l, a)
        /\ \E k \in 1 .. Len(HandleError(a).rx) :
              LET n == HandleError(a)
                  recs == SubSeq(n.rx, 1, k)
                  p == [r |-> conn[a.conn], n |-> [n EXCEPT !.rx = SubSeq(@, k + 1, Len(@))]]
                  answers == GotRequest(recs) /\ conn[a.conn].state_ = "kConnected"
              IN  /\ Finish(a, OnMessage(p, recs))
                  /\ produced' = [produced EXCEPT ![a.conn] = @ + (IF answers THEN ResponseUnits ELSE 0)]
                  /\ fault' = IF answers /\ n.peer = "reset" THEN fault \cup {a.conn} ELSE fault
        /\ UNCHANGED <<connections_, pendingFunctors_>>
  BY DEF HandleMessage
<1>2. PICK c \in Conns : c = a.conn
  BY ActiveFacts
<1>3. /\ conn[c] \in Connections /\ Up(conn[c]) /\ HandleError(a) \in Sockets
      /\ HandleError(a).peer = net[c].peer /\ HandleError(a).sent = net[c].sent
      /\ HandleError(a).wshut = net[c].wshut /\ a.out \in BOOLEAN
      /\ OutOK(conn[c], net[c], produced[c], c \in fault) /\ produced[c] \in Nat
      /\ TypeOK
  BY <1>2, ActiveFacts DEF IInv
<1> DEFINE n == HandleError(a)
<1>4. PICK k \in 1 .. Len(n.rx) :
              LET recs == SubSeq(n.rx, 1, k)
                  p == [r |-> conn[c], n |-> [n EXCEPT !.rx = SubSeq(@, k + 1, Len(@))]]
                  answers == GotRequest(recs) /\ conn[c].state_ = "kConnected"
              IN  /\ Finish(a, OnMessage(p, recs))
                  /\ produced' = [produced EXCEPT ![c] = @ + (IF answers THEN ResponseUnits ELSE 0)]
                  /\ fault' = IF answers /\ n.peer = "reset" THEN fault \cup {c} ELSE fault
  BY <1>1, <1>2
<1> HIDE DEF n
<1> DEFINE recs == SubSeq(n.rx, 1, k)
           m == [n EXCEPT !.rx = SubSeq(n.rx, k + 1, Len(n.rx))]
           p == [r |-> conn[c], n |-> m]
           answers == GotRequest(recs) /\ conn[c].state_ = "kConnected"
           prod == produced[c] + (IF answers THEN ResponseUnits ELSE 0)
           given == c \in fault \/ (answers /\ n.peer = "reset")
           s == OnMessage(p, recs)
<1>5. /\ Finish(a, s) /\ produced' = [produced EXCEPT ![c] = prod]
      /\ fault' = IF answers /\ n.peer = "reset" THEN fault \cup {c} ELSE fault
  BY <1>4
<1>6. m \in Sockets /\ m.peer = net[c].peer /\ m.sent = net[c].sent /\ m.wshut = net[c].wshut
      /\ n.peer = net[c].peer
  <2>1. n \in Sockets /\ n.peer = net[c].peer /\ n.sent = net[c].sent /\ n.wshut = net[c].wshut
    BY <1>3 DEF n
  <2>2. n.rx \in Seq({Begin(TRUE), Begin(FALSE), End})
    BY <2>1 DEF Sockets
  <2>3. SubSeq(n.rx, k + 1, Len(n.rx)) \in Seq({Begin(TRUE), Begin(FALSE), End})
    BY <2>2, RestType
  <2> QED BY <2>1, <2>3 DEF Sockets
<1> HIDE DEF m, recs
<1>7. p \in Pairs /\ p.r = conn[c] /\ p.n = m /\ Up(p.r)
  BY <1>3, <1>6 DEF Pairs
<1> HIDE DEF p
<1>8. PICK g \in BOOLEAN : g <=> c \in fault
  BY Truth
<1>9. PICK h \in BOOLEAN : h <=> c \in fault'
  BY Truth
<1>10. h <=> g \/ (answers /\ n.peer = "reset")
  BY <1>5, <1>8, <1>9
<1>11. OutOK(p.r, p.n, produced[c], g)
  BY <1>3, <1>6, <1>7, <1>8 DEF OutOK
<1>12. Keeps(p, s) /\ OutOK(s.r, s.n, prod, h)
  <2>1. /\ Keeps(p, OnMessage(p, recs))
        /\ OutOK(OnMessage(p, recs).r, OnMessage(p, recs).n,
                 produced[c] + (IF GotRequest(recs) /\ p.r.state_ = "kConnected" THEN ResponseUnits ELSE 0),
                 g \/ ((GotRequest(recs) /\ p.r.state_ = "kConnected") /\ p.n.peer = "reset"))
    BY <1>3, <1>7, <1>11, OnMessageFacts
  <2> QED BY <1>6, <1>7, <1>10, <2>1 DEF OutOK
<1>13. prod \in Nat
  BY <1>3, MucgiConstants
<1> HIDE DEF s, answers, prod
<1>14. PICK q \in Pairs : /\ Keeps(s, q) /\ OutOK(q.r, q.n, prod, h)
                          /\ conn' = [conn EXCEPT ![a.conn] = q.r]
                          /\ net' = [net EXCEPT ![a.conn] = q.n]
  <2>1. s \in Pairs /\ Up(s.r) /\ a.out \in BOOLEAN /\ Finish(a, s) /\ OutOK(s.r, s.n, prod, h)
    BY <1>3, <1>5, <1>12 DEF Keeps
  <2> QED BY <1>13, <2>1, FinishFacts
<1>15. Up(q.r) /\ q.r.loop = conn[c].loop /\ q.r.fd = conn[c].fd /\ q.n.peer = net[c].peer
  BY <1>6, <1>7, <1>12, <1>14 DEF Keeps
<1>16. /\ produced' \in [Conns -> Nat] /\ produced'[c] = prod /\ fault' \in SUBSET Conns
       /\ \A d \in Conns : d # c => produced'[d] = produced[d] /\ (d \in fault' <=> d \in fault)
  BY <1>3, <1>5, <1>13 DEF TypeOK
<1>17. OutOK(q.r, q.n, produced'[c], c \in fault')
  BY <1>9, <1>14, <1>16 DEF OutOK
<1>18. /\ Handle(l, a) /\ UNCHANGED <<connections_, pendingFunctors_>>
       /\ conn' = [conn EXCEPT ![c] = q.r] /\ net' = [net EXCEPT ![c] = q.n]
  BY <1>1, <1>2, <1>14
<1> QED BY <1>2, <1>15, <1>16, <1>17, <1>18, HandledInv

\* handleRead with an error, and POLLOUT alone: handleWrite.
LEMMA HandleQuietInv ==
  ASSUME IInv, NEW l \in Loops, HandleReadError(l) \/ HandleWritable(l)
  PROVE  IInv'
<1>1. PICK a \in activeChannels_[l] :
        /\ Handle(l, a)
        /\ \/ Finish(a, [r |-> conn[a.conn], n |-> [HandleError(a) EXCEPT !.err = FALSE]])
           \/ Finish(a, [r |-> conn[a.conn], n |-> HandleError(a)])
        /\ UNCHANGED <<connections_, pendingFunctors_, histVars>>
  BY DEF HandleReadError, HandleWritable
<1>2. PICK c \in Conns : c = a.conn
  BY ActiveFacts
<1>3. /\ conn[c] \in Connections /\ Up(conn[c]) /\ HandleError(a) \in Sockets
      /\ HandleError(a).peer = net[c].peer /\ HandleError(a).sent = net[c].sent
      /\ HandleError(a).wshut = net[c].wshut /\ a.out \in BOOLEAN
      /\ OutOK(conn[c], net[c], produced[c], c \in fault) /\ produced[c] \in Nat
      /\ TypeOK
  BY <1>2, ActiveFacts DEF IInv
<1>4. \E m \in Sockets : /\ m.peer = net[c].peer /\ m.sent = net[c].sent /\ m.wshut = net[c].wshut
                         /\ Finish(a, [r |-> conn[c], n |-> m])
  <2> DEFINE h == HandleError(a)
             e == [h EXCEPT !.err = FALSE]
  <2>1. e \in Sockets /\ e.peer = h.peer /\ e.sent = h.sent /\ e.wshut = h.wshut
    BY <1>3 DEF Sockets
  <2>2. Finish(a, [r |-> conn[c], n |-> e]) \/ Finish(a, [r |-> conn[c], n |-> h])
    BY <1>1, <1>2
  <2> HIDE DEF e
  <2> QED BY <1>3, <2>1, <2>2
<1>5. PICK m \in Sockets : /\ m.peer = net[c].peer /\ m.sent = net[c].sent /\ m.wshut = net[c].wshut
                           /\ Finish(a, [r |-> conn[c], n |-> m])
  BY <1>4
<1> DEFINE p == [r |-> conn[c], n |-> m]
<1>6. /\ p \in Pairs /\ p.r = conn[c] /\ p.n = m /\ Up(p.r) /\ Finish(a, p)
  BY <1>3, <1>5 DEF Pairs
<1> HIDE DEF p
<1>7. PICK g \in BOOLEAN : g <=> c \in fault
  BY Truth
<1>8. OutOK(p.r, p.n, produced[c], g)
  BY <1>3, <1>5, <1>6, <1>7 DEF OutOK
<1>9. PICK q \in Pairs : /\ Keeps(p, q) /\ OutOK(q.r, q.n, produced[c], g)
                         /\ conn' = [conn EXCEPT ![a.conn] = q.r]
                         /\ net' = [net EXCEPT ![a.conn] = q.n]
  BY <1>3, <1>6, <1>8, FinishFacts
<1>10. Up(q.r) /\ q.r.loop = conn[c].loop /\ q.r.fd = conn[c].fd /\ q.n.peer = net[c].peer
  BY <1>5, <1>6, <1>9 DEF Keeps
<1>11. produced' = produced /\ fault' = fault
  BY <1>1 DEF histVars
<1>12. /\ produced' \in [Conns -> Nat] /\ fault' \in SUBSET Conns
       /\ OutOK(q.r, q.n, produced'[c], c \in fault')
       /\ \A d \in Conns : d # c => produced'[d] = produced[d] /\ (d \in fault' <=> d \in fault)
  BY <1>3, <1>7, <1>9, <1>11 DEF TypeOK, OutOK
<1>13. /\ Handle(l, a) /\ UNCHANGED <<connections_, pendingFunctors_>>
       /\ conn' = [conn EXCEPT ![c] = q.r] /\ net' = [net EXCEPT ![c] = q.n]
  BY <1>1, <1>2, <1>9
<1> QED BY <1>2, <1>10, <1>12, <1>13, HandledInv

\* What is bound to a functor.
LEMMA FunctorFacts ==
  ASSUME NEW op \in {"established", "remove", "destroy"}, NEW c \in Conns
  PROVE  \E f \in Functors : f = Functor(op, c) /\ f.conn = c /\ f.op = op
<1>1. Functor(op, c) \in Functors /\ Functor(op, c).conn = c /\ Functor(op, c).op = op
  BY DEF Functor, Functors
<1> QED BY <1>1

\* handleRead with 0: handleClose, and removeConnection on the base loop.
LEMMA HandleEofInv ==
  ASSUME IInv, NEW l \in Loops, HandleEof(l)
  PROVE  IInv'
<1>1. PICK a \in activeChannels_[l] :
        /\ Handle(l, a)
        /\ conn' = [conn EXCEPT ![a.conn] = HandleClose(@)]
        /\ net' = [net EXCEPT ![a.conn] = HandleError(a)]
        /\ RemoveConnection(l, a.conn)
        /\ UNCHANGED histVars
  BY DEF HandleEof
<1>2. PICK c \in Conns : c = a.conn
  BY ActiveFacts
<1>3. PICK n \in Sockets : n = HandleError(a)
  BY ActiveFacts
<1>4. PICK r \in Connections : r = conn[c]
  BY <1>2, ActiveFacts
<1>5. /\ Up(r) /\ r.loop = l /\ c \in connections_ /\ OutOK(r, net[c], produced[c], c \in fault)
      /\ n.peer = net[c].peer /\ n.sent = net[c].sent /\ n.wshut = net[c].wshut /\ TypeOK
      /\ \A k \in Loops : NoneFor(c, k)
  BY <1>2, <1>3, <1>4, ActiveFacts DEF IInv
<1>6. PICK q \in Connections :
        /\ q = HandleClose(r) /\ q.state_ = "kDisconnected" /\ q.loop = l /\ q.fd = r.fd
        /\ q.reading = FALSE /\ q.writing = FALSE /\ q.index = "kDeleted"
        /\ q.outputBuffer_ = r.outputBuffer_
  <2> DEFINE s == [r EXCEPT !.state_ = "kDisconnected"]
  <2>1. /\ s \in Connections /\ s.state_ = "kDisconnected" /\ s.loop = r.loop /\ s.fd = r.fd
        /\ s.index = "kAdded" /\ s.outputBuffer_ = r.outputBuffer_
    BY <1>5 DEF Connections, States, Up
  <2> HIDE DEF s
  <2>2. HandleClose(r) = DisableAll(s)
    BY DEF s, HandleClose
  <2> DEFINE q == DisableAll(s)
  <2>3. /\ q \in Connections /\ q.state_ = "kDisconnected" /\ q.loop = l /\ q.fd = r.fd
        /\ q.reading = FALSE /\ q.writing = FALSE /\ q.index = "kDeleted"
        /\ q.outputBuffer_ = r.outputBuffer_
    BY <1>5, <2>1, DisableFacts DEF SameBut
  <2> HIDE DEF q
  <2>4. q = HandleClose(r)
    BY <2>2 DEF q
  <2> QED BY <2>3, <2>4
<1>7. /\ activeChannels_' = [activeChannels_ EXCEPT ![l] = @ \ {a}]
      /\ UNCHANGED <<numThreads_, next_, pc, acceptActive, functors, done, backlog, produced, fault>>
  BY <1>1 DEF Handle, histVars
<1>8. /\ conn' \in [Conns -> Connections] /\ conn'[c] = q
      /\ net' \in [Conns -> Sockets] /\ net'[c] = n
      /\ \A d \in Conns : d # c => conn'[d] = conn[d] /\ net'[d] = net[d]
  <2>1. conn' = [conn EXCEPT ![c] = q] /\ net' = [net EXCEPT ![c] = n]
    BY <1>1, <1>2, <1>3, <1>4, <1>5, <1>6 DEF TypeOK
  <2> QED BY <1>5, <2>1 DEF TypeOK
<1>9. PICK m \in Loops, f \in Functors :
        /\ f.conn = c /\ QueueInLoop(m, f)
        /\ \/ f.op = "destroy" /\ m = l /\ l = Base /\ connections_' = connections_ \ {c}
           \/ f.op = "remove" /\ m = Base /\ l # Base /\ connections_' = connections_
  <2>1. CASE l = Base
    <3>1. PICK f \in Functors : f = Functor("destroy", c) /\ f.conn = c /\ f.op = "destroy"
      BY FunctorFacts
    <3>2. QueueInLoop(l, f) /\ connections_' = connections_ \ {c}
      BY <1>1, <1>2, <1>4, <1>5, <2>1, <3>1 DEF RemoveConnection, RemoveConnectionInLoop
    <3> QED BY <2>1, <3>1, <3>2
  <2>2. CASE l # Base
    <3>1. PICK f \in Functors : f = Functor("remove", c) /\ f.conn = c /\ f.op = "remove"
      BY FunctorFacts
    <3>2. QueueInLoop(Base, f) /\ connections_' = connections_ /\ Base \in Loops
      BY <1>1, <1>2, <2>2, <3>1 DEF RemoveConnection, Loops
    <3> QED BY <2>2, <3>1, <3>2
  <2> QED BY <2>1, <2>2
<1>10. /\ pendingFunctors_' \in [Loops -> Seq(Functors)]
       /\ pendingFunctors_'[m] = Append(pendingFunctors_[m], f)
       /\ \A k \in Loops : k # m => pendingFunctors_'[k] = pendingFunctors_[k]
  BY <1>5, <1>9, QueueType
<1>11. /\ activeChannels_' \in [Loops -> SUBSET [conn : Conns, err : BOOLEAN, in : BOOLEAN, out : BOOLEAN]]
       /\ \A k \in Loops : activeChannels_'[k] \subseteq activeChannels_[k]
       /\ activeChannels_'[l] = activeChannels_[l] \ {a}
  <2>1. activeChannels_ \in [Loops -> SUBSET [conn : Conns, err : BOOLEAN, in : BOOLEAN, out : BOOLEAN]]
    BY <1>5 DEF TypeOK
  <2> QED BY <1>7, <2>1
<1>12. TypeOK'
  <2>1. connections_' \in SUBSET Conns
    BY <1>5, <1>9 DEF TypeOK
  <2> QED BY <1>5, <1>7, <1>8, <1>10, <1>11, <2>1 DEF TypeOK
<1>13. Elsewhere(c)
  BY <1>7, <1>8, <1>9 DEF Elsewhere
<1>14. Stage(c)'
  BY <1>6, <1>8 DEF Stage, Quiet
<1>15. OutOK(conn'[c], net'[c], produced'[c], c \in fault')
  BY <1>5, <1>6, <1>7, <1>8 DEF OutOK
<1>16. Pushes(m, f)
  BY <1>5, <1>7, <1>10, Queued
<1>17. Fits(m, f)'
  BY <1>5, <1>6, <1>8, <1>9 DEF Fits
<1>18. QueuesFit' /\ QueuedOnce' /\ WillBeDestroyed'
  <2>1. ASSUME NEW k \in Loops
        PROVE  \/ Idle(k) /\ NoneFor(c, k)
               \/ Pops(k) /\ ToRun(k)[1].conn = c
               \/ \E h \in Functors : h.conn = c /\ Pushes(k, h) /\ NoneFor(c, k) /\ Fits(k, h)'
    <3>1. CASE k = m
      BY <1>5, <1>9, <1>16, <1>17, <3>1
    <3>2. CASE k # m
      BY <1>5, <1>7, <1>10, <3>2, Untouched
    <3> QED BY <3>1, <3>2
  <2>2. \E k \in Loops, h \in Functors : h.conn = c /\ Pushes(k, h)
    BY <1>9, <1>16
  <2>3. \A d \in Conns : d # c =>
           conn'[d] = conn[d] /\ (d \in connections_' <=> d \in connections_)
    BY <1>13 DEF Elsewhere
  <2> QED BY <1>12, <2>1, <2>2, <2>3, QueueStep
<1>19. BatchOnly'
  BY <1>7 DEF IInv, Life, BatchOnly
<1>20. Channels'
  <2>1. HasFd(c)
    BY <1>5 DEF HasFd
  <2>2. ASSUME NEW k \in Loops, NEW b \in activeChannels_'[k], b.conn = c PROVE FALSE
    <3>1. b \in activeChannels_[k] /\ conn[b.conn].loop = k
      BY <1>11 DEF IInv, Channels, ActiveOnce
    <3>2. k = l
      BY <1>4, <1>5, <2>2, <3>1
    <3>3. b = a
      BY <1>2, <2>2, <3>1, <3>2 DEF IInv, Channels, ActiveOnce
    <3> QED BY <1>11, <2>2, <3>2, <3>3
  <2>3. conn[c].state_ # "none"
    BY <1>4, <1>5 DEF Up
  <2> QED BY <1>4, <1>5, <1>6, <1>7, <1>8, <1>11, <1>12, <1>13, <2>1, <2>2, <2>3, ChannelsStep
<1>21. Stages' /\ Output'
  BY <1>13, <1>14, <1>15, OneConnection
<1> QED BY <1>12, <1>18, <1>19, <1>20, <1>21 DEF IInv, Life

-----------------------------------------------------------------------------
(* The loop. *)

\* poll(): what epoll_wait reports is a channel of an open connection of the loop.
LEMMA PollInv ==
  ASSUME IInv, NEW l \in Loops, Poll(l)
  PROVE  IInv'
<1>1. /\ pc[l] = "poll" /\ activeChannels_' = [activeChannels_ EXCEPT ![l] = Ready(l)]
      /\ pc' = [pc EXCEPT ![l] = "events"]
      /\ acceptActive' = IF l = Base THEN (l = Base /\ backlog # <<>>) ELSE acceptActive
      /\ UNCHANGED <<connections_, numThreads_, next_, conn, functors, done, pendingFunctors_, net,
                     backlog, produced, fault>>
  BY DEF Poll, serverVars, netVars, histVars
<1>2. TypeOK
  BY DEF IInv
<1>3. ASSUME NEW a \in Ready(l)
      PROVE  /\ a \in [conn : Conns, err : BOOLEAN, in : BOOLEAN, out : BOOLEAN]
             /\ conn[a.conn].loop = l /\ conn[a.conn].state_ \in {"kConnected", "kDisconnecting"}
             /\ a = Revents(a.conn)
  <2>1. PICK d \in Conns : a = Revents(d) /\ conn[d].loop = l /\ conn[d].index = "kAdded"
    BY <1>3 DEF Ready
  <2>2. conn[d] \in Connections /\ net[d] \in Sockets /\ Stage(d)
    BY <1>2 DEF TypeOK, IInv, Life, Stages
  <2>3. conn[d].state_ \in {"kConnected", "kDisconnecting"}
    <3>1. conn[d].state_ \in States
      BY <2>2 DEF Connections
    <3>2. conn[d].state_ # "none"
      BY <2>1, <2>2 DEF Stage, NoConn
    <3> QED BY <2>1, <2>2, <3>1, <3>2 DEF Stage, States
  <2>4. a.conn = d /\ a \in [conn : Conns, err : BOOLEAN, in : BOOLEAN, out : BOOLEAN]
    <3>1. net[d].err \in BOOLEAN
      BY <2>2 DEF Sockets
    <3> QED BY <2>1, <3>1 DEF Revents
  <2> QED BY <2>1, <2>3, <2>4
<1>4. TypeOK'
  <2>1. activeChannels_' \in [Loops -> SUBSET [conn : Conns, err : BOOLEAN, in : BOOLEAN, out : BOOLEAN]]
    <3>1. activeChannels_ \in [Loops -> SUBSET [conn : Conns, err : BOOLEAN, in : BOOLEAN, out : BOOLEAN]]
      BY <1>2 DEF TypeOK
    <3>2. Ready(l) \in SUBSET [conn : Conns, err : BOOLEAN, in : BOOLEAN, out : BOOLEAN]
      BY <1>3
    <3> QED BY <1>1, <3>1, <3>2
  <2>2. acceptActive' \in BOOLEAN
    BY <1>1, <1>2 DEF TypeOK
  <2>3. pc' \in [Loops -> {"poll", "events", "functors"}]
    BY <1>1, <1>2 DEF TypeOK
  <2> QED BY <1>1, <1>2, <2>1, <2>2, <2>3 DEF TypeOK
<1>5. Stages' /\ QueuesFit' /\ QueuedOnce' /\ WillBeDestroyed'
  <2>1. \A k \in Loops : Idle(k)
    BY <1>1, Untouched
  <2> QED BY <1>1, <1>4, <2>1, QueueIdle
<1>6. BatchOnly'
  BY <1>1, <1>2 DEF IInv, Life, BatchOnly, TypeOK
<1>7. ActiveOnce'
  <2> SUFFICES ASSUME NEW k \in Loops, NEW a \in activeChannels_'[k]
               PROVE  /\ conn[a.conn].loop = k
                      /\ conn[a.conn].state_ \in {"kConnected", "kDisconnecting"}
                      /\ \A b \in activeChannels_'[k] : a.conn = b.conn => a = b
    BY <1>1 DEF ActiveOnce
  <2>1. CASE k = l
    <3>1. activeChannels_'[k] = Ready(l)
      BY <1>1, <1>2, <2>1 DEF TypeOK
    <3> QED BY <1>3, <2>1, <3>1
  <2>2. CASE k # l
    <3>1. activeChannels_'[k] = activeChannels_[k]
      BY <1>1, <1>2, <2>2 DEF TypeOK
    <3> QED BY <3>1 DEF IInv, Channels, ActiveOnce
  <2> QED BY <2>1, <2>2
<1>8. FdsDistinct'
  BY <1>1 DEF IInv, Channels, FdsDistinct, HasFd
<1>9. BacklogNew'
  BY <1>1 DEF IInv, Channels, BacklogNew
<1>10. Output'
  BY <1>1 DEF IInv, Output, OutOK
<1> QED BY <1>4, <1>5, <1>6, <1>7, <1>8, <1>9, <1>10 DEF IInv, Life, Channels

\* What a step of the loop itself leaves alone.
LEMMA LoopOnly ==
  ASSUME IInv, UNCHANGED <<connections_, conn, activeChannels_, acceptActive, net, backlog, produced, fault>>
  PROVE  Channels' /\ Output'
<1>1. ActiveOnce'
  BY DEF IInv, Channels, ActiveOnce
<1>2. FdsDistinct'
  BY DEF IInv, Channels, FdsDistinct, HasFd
<1>3. BacklogNew'
  BY DEF IInv, Channels, BacklogNew
<1>4. Output'
  BY DEF IInv, Output, OutOK
<1> QED BY <1>1, <1>2, <1>3, <1>4 DEF Channels

\* doPendingFunctors swaps the pending functors out.
LEMMA EventsDoneInv ==
  ASSUME IInv, NEW l \in Loops, EventsDone(l)
  PROVE  IInv'
<1>1. /\ pc[l] = "events" /\ functors' = [functors EXCEPT ![l] = pendingFunctors_[l]]
      /\ pendingFunctors_' = [pendingFunctors_ EXCEPT ![l] = <<>>]
      /\ pc' = [pc EXCEPT ![l] = "functors"]
      /\ UNCHANGED <<connections_, numThreads_, next_, conn, activeChannels_, acceptActive, done, net,
                     backlog, produced, fault>>
  BY DEF EventsDone, serverVars, netVars, histVars
<1>2. TypeOK
  BY DEF IInv
<1>3. functors[l] = <<>> /\ done[l] = 0 /\ pendingFunctors_[l] \in Seq(Functors)
  BY <1>1, <1>2 DEF IInv, Life, BatchOnly, TypeOK
<1>4. /\ functors'[l] = pendingFunctors_[l] /\ pendingFunctors_'[l] = <<>> /\ pc'[l] = "functors"
      /\ functors' \in [Loops -> Seq(Functors)] /\ pendingFunctors_' \in [Loops -> Seq(Functors)]
      /\ pc' \in [Loops -> {"poll", "events", "functors"}]
      /\ \A k \in Loops : k # l =>
            functors'[k] = functors[k] /\ pendingFunctors_'[k] = pendingFunctors_[k] /\ pc'[k] = pc[k]
  BY <1>1, <1>2, <1>3 DEF TypeOK
<1>5. TypeOK'
  <2>1. \A k \in Loops : done[k] \in 0 .. Len(functors'[k])
    <3> TAKE k \in Loops
    <3>1. CASE k = l
      BY <1>3, <1>4, <3>1
    <3>2. CASE k # l
      BY <1>2, <1>4, <3>2 DEF TypeOK
    <3> QED BY <3>1, <3>2
  <2> QED BY <1>1, <1>2, <1>4, <2>1 DEF TypeOK
<1>6. \A k \in Loops : Idle(k)
  <2> TAKE k \in Loops
  <2>1. CASE k = l
    BY <1>1, <1>2, <1>3, <1>4, <2>1, BatchBegins
  <2>2. CASE k # l
    BY <1>1, <1>4, <2>2, Untouched
  <2> QED BY <2>1, <2>2
<1>7. Stages' /\ QueuesFit' /\ QueuedOnce' /\ WillBeDestroyed'
  BY <1>1, <1>5, <1>6, QueueIdle
<1>8. BatchOnly'
  BY <1>1, <1>4 DEF IInv, Life, BatchOnly
<1>9. Channels' /\ Output'
  BY <1>1, LoopOnly
<1> QED BY <1>5, <1>7, <1>8, <1>9 DEF IInv, Life

\* The batch is over.
LEMMA FunctorsDoneInv ==
  ASSUME IInv, NEW l \in Loops, FunctorsDone(l)
  PROVE  IInv'
<1>1. /\ done[l] = Len(functors[l]) /\ functors' = [functors EXCEPT ![l] = <<>>]
      /\ done' = [done EXCEPT ![l] = 0] /\ pc' = [pc EXCEPT ![l] = "poll"]
      /\ UNCHANGED <<connections_, numThreads_, next_, conn, activeChannels_, acceptActive,
                     pendingFunctors_, net, backlog, produced, fault>>
  BY DEF FunctorsDone, serverVars, netVars, histVars
<1>2. TypeOK
  BY DEF IInv
<1>3. /\ functors'[l] = <<>> /\ done'[l] = 0 /\ pc'[l] = "poll"
      /\ functors' \in [Loops -> Seq(Functors)] /\ done' \in [Loops -> Nat]
      /\ pc' \in [Loops -> {"poll", "events", "functors"}]
      /\ \A k \in Loops : k # l => functors'[k] = functors[k] /\ done'[k] = done[k] /\ pc'[k] = pc[k]
  BY <1>1, <1>2 DEF TypeOK
<1>4. TypeOK'
  <2>1. \A k \in Loops : done'[k] \in 0 .. Len(functors'[k])
    <3> TAKE k \in Loops
    <3>1. CASE k = l
      BY <1>3, <3>1
    <3>2. CASE k # l
      BY <1>2, <1>3, <3>2 DEF TypeOK
    <3> QED BY <3>1, <3>2
  <2> QED BY <1>1, <1>2, <1>3, <2>1 DEF TypeOK
<1>5. \A k \in Loops : Idle(k)
  <2> TAKE k \in Loops
  <2>1. CASE k = l
    BY <1>1, <1>2, <1>3, <2>1, BatchEnds
  <2>2. CASE k # l
    BY <1>1, <1>3, <2>2, Untouched
  <2> QED BY <2>1, <2>2
<1>6. Stages' /\ QueuesFit' /\ QueuedOnce' /\ WillBeDestroyed'
  BY <1>1, <1>4, <1>5, QueueIdle
<1>7. BatchOnly'
  BY <1>1, <1>3 DEF IInv, Life, BatchOnly
<1>8. Channels' /\ Output'
  BY <1>1, LoopOnly
<1> QED BY <1>4, <1>6, <1>7, <1>8 DEF IInv, Life

-----------------------------------------------------------------------------
(* The acceptor. *)

\* A connection that has a descriptor is alive: its number is not free.
LEMMA HasFdAlive ==
  ASSUME IInv, NEW c \in Conns, HasFd(c)
  PROVE  Alive(c)
<1>1. CASE c \in connections_
  BY <1>1 DEF Alive
<1>2. CASE c \notin connections_
  <2>1. PICK l \in Loops : \E i \in DOMAIN ToRun(l) : ToRun(l)[i].conn = c
    BY <1>2 DEF HasFd, IInv, Life, WillBeDestroyed
  <2>2. PICK i \in DOMAIN ToRun(l) : ToRun(l)[i].conn = c
    BY <2>1
  <2> DEFINE fs == functors[l]
             ps == pendingFunctors_[l]
             d == done[l]
  <2>3. fs \in Seq(Functors) /\ ps \in Seq(Functors) /\ d \in 0 .. Len(fs)
    BY DEF IInv, TypeOK
  <2>4. Joined(ToRun(l), fs, d, ps)
    BY <2>3, RestAndMore DEF ToRun
  <2>5. InQueue(c, fs) \/ InQueue(c, ps)
    <3>1. i \in 1 .. Len(ToRun(l)) /\ Len(fs) - d \in Nat
      BY <2>4 DEF Joined
    <3>2. CASE i <= Len(fs) - d
      <4>1. d + i \in DOMAIN fs /\ fs[d + i].conn = c
        BY <2>2, <2>3, <2>4, <3>1, <3>2 DEF Joined
      <4> QED BY <4>1 DEF InQueue
    <3>3. CASE i > Len(fs) - d
      <4>1. i - (Len(fs) - d) \in DOMAIN ps /\ ps[i - (Len(fs) - d)].conn = c
        BY <2>2, <2>3, <2>4, <3>1, <3>3 DEF Joined
      <4> QED BY <4>1 DEF InQueue
    <3> QED BY <3>1, <3>2, <3>3
  <2> QED BY <2>5 DEF Alive
<1> QED BY <1>1, <1>2

\* getNextLoop picks one of the server's loops.
LEMMA NextLoopFacts ==
  ASSUME TypeOK
  PROVE  NextLoop \in Loops /\ NextIndex \in {1} \cup 1 .. numThreads_
<1>1. /\ numThreads_ \in 0 .. Len(IoLoops) /\ IoLoops \in Seq(STRING)
      /\ next_ \in {1} \cup 1 .. numThreads_
  BY MucgiConstants DEF TypeOK
<1>2. CASE numThreads_ = 0
  BY <1>1, <1>2 DEF NextLoop, NextIndex, Loops
<1>3. CASE numThreads_ # 0
  <2>1. numThreads_ \in Nat /\ numThreads_ > 0 /\ numThreads_ <= Len(IoLoops) /\ next_ \in 1 .. numThreads_
    BY <1>1, <1>3
  <2>2. next_ \in DOMAIN IoLoops
    BY <1>1, <2>1
  <2>3. next_ % numThreads_ \in 0 .. numThreads_ - 1
    BY <2>1
  <2>4. NextIndex \in 1 .. numThreads_
    BY <1>3, <2>1, <2>3 DEF NextIndex
  <2> QED BY <1>3, <2>2, <2>4 DEF NextLoop, Loops
<1> QED BY <1>2, <1>3

\* The accept queue without its head.
LEMMA TailFacts ==
  ASSUME NEW S, NEW s \in Seq(S), s # <<>>
  PROVE  /\ Head(s) \in S /\ Head(s) = s[1] /\ 1 \in DOMAIN s /\ Tail(s) \in Seq(S)
         /\ \A i \in DOMAIN Tail(s) : i + 1 \in DOMAIN s /\ i + 1 # 1 /\ Tail(s)[i] = s[i + 1]
         /\ \A i, j \in DOMAIN Tail(s) : i + 1 = j + 1 => i = j
<1>1. Len(s) \in Nat /\ Len(s) >= 1 /\ DOMAIN s = 1 .. Len(s)
  <2>1. Len(s) \in Nat /\ DOMAIN s = 1 .. Len(s)
    OBVIOUS
  <2>2. Len(s) # 0
    BY EmptySeq
  <2> QED BY <2>1, <2>2
<1>2. /\ Tail(s) \in Seq(S) /\ Len(Tail(s)) = Len(s) - 1 /\ DOMAIN Tail(s) = 1 .. Len(s) - 1
      /\ \A i \in 1 .. Len(s) - 1 : Tail(s)[i] = s[i + 1]
  BY <1>1
<1>3. Head(s) \in S /\ Head(s) = s[1]
  BY <1>1
<1> QED BY <1>1, <1>2, <1>3

\* What Acceptor::handleRead finds at the head of the accept queue.
LEMMA AcceptingFacts ==
  ASSUME IInv, acceptActive
  PROVE  /\ Head(backlog) \in Conns /\ conn[Head(backlog)] = NoConn
         /\ Head(backlog) \notin connections_ /\ net[Head(backlog)].peer # "absent"
         /\ Tail(backlog) \in Seq(Conns)
         /\ \A i, j \in DOMAIN Tail(backlog) : Tail(backlog)[i] = Tail(backlog)[j] => i = j
         /\ \A i \in DOMAIN Tail(backlog) :
               /\ Tail(backlog)[i] \in Conns /\ Tail(backlog)[i] # Head(backlog)
               /\ conn[Tail(backlog)[i]].state_ = "none" /\ net[Tail(backlog)[i]].peer # "absent"
         /\ \A k \in Loops : NoneFor(Head(backlog), k)
<1>1. backlog \in Seq(Conns) /\ backlog # <<>> /\ TypeOK
  BY DEF IInv, TypeOK, Channels, BacklogNew
<1>2. /\ Head(backlog) \in Conns /\ Head(backlog) = backlog[1] /\ 1 \in DOMAIN backlog
      /\ Tail(backlog) \in Seq(Conns)
      /\ \A i \in DOMAIN Tail(backlog) :
            i + 1 \in DOMAIN backlog /\ i + 1 # 1 /\ Tail(backlog)[i] = backlog[i + 1]
      /\ \A i, j \in DOMAIN Tail(backlog) : i + 1 = j + 1 => i = j
  BY <1>1, TailFacts
<1>3. /\ \A i, j \in DOMAIN backlog : backlog[i] = backlog[j] => i = j
      /\ \A i \in DOMAIN backlog :
            conn[backlog[i]].state_ = "none" /\ net[backlog[i]].peer # "absent"
  BY DEF IInv, Channels, BacklogNew
<1>4. /\ \A i, j \in DOMAIN Tail(backlog) : Tail(backlog)[i] = Tail(backlog)[j] => i = j
      /\ \A i \in DOMAIN Tail(backlog) :
            /\ Tail(backlog)[i] # Head(backlog)
            /\ conn[Tail(backlog)[i]].state_ = "none" /\ net[Tail(backlog)[i]].peer # "absent"
  BY <1>2, <1>3
<1>5. \A i \in DOMAIN Tail(backlog) : Tail(backlog)[i] \in Conns
  BY <1>2
<1>6. conn[Head(backlog)].state_ = "none" /\ net[Head(backlog)].peer # "absent"
  BY <1>2, <1>3
<1>7. conn[Head(backlog)] = NoConn /\ Head(backlog) \notin connections_
  BY <1>2, <1>6 DEF IInv, Life, Stages, Stage
<1>8. ASSUME NEW k \in Loops PROVE NoneFor(Head(backlog), k)
  <2> SUFFICES ASSUME NEW i \in 1 .. Len(ToRun(k)), ToRun(k)[i].conn = Head(backlog) PROVE FALSE
    BY DEF NoneFor
  <2>1. i \in DOMAIN ToRun(k)
    BY <1>1, ToRunType
  <2> QED BY <1>1, <1>6, <2>1, WaitingFits DEF IInv, Life
<1> QED BY <1>2, <1>4, <1>5, <1>6, <1>7, <1>8

\* TcpServer::newConnection.
LEMMA NewConnectionInv ==
  ASSUME IInv, NewConnection
  PROVE  IInv'
<1>1. /\ pc[Base] = "events" /\ acceptActive /\ acceptActive' = FALSE /\ backlog' = Tail(backlog)
      /\ next_' = NextIndex
      /\ UNCHANGED <<numThreads_, pc, activeChannels_, functors, done, net, produced, fault>>
  BY DEF NewConnection, Accepting, histVars
<1>2. PICK c \in Conns : c = Head(backlog)
  BY <1>1, AcceptingFacts
<1>3. PICK l \in Loops : l = NextLoop
  BY NextLoopFacts DEF IInv
<1>4. PICK f \in FreeFds :
        conn' = [conn EXCEPT ![c] = IF l = Base THEN ConnectEstablished(TcpConnection(Base, f))
                                    ELSE TcpConnection(l, f)]
  BY <1>2, <1>3 DEF NewConnection
<1>5. /\ connections_' = connections_ \cup {c}
      /\ \/ l = Base /\ pendingFunctors_' = pendingFunctors_
         \/ l # Base /\ QueueInLoop(l, Functor("established", c))
  BY <1>2, <1>3 DEF NewConnection
<1>6. /\ conn[c] = NoConn /\ c \notin connections_ /\ net[c].peer # "absent" /\ TypeOK
      /\ \A k \in Loops : NoneFor(c, k)
  BY <1>1, <1>2, AcceptingFacts DEF IInv
<1>7. f \in Fds /\ \A d \in Conns : HasFd(d) => conn[d].fd # f
  BY HasFdAlive DEF FreeFds
<1>8. PICK t \in Connections :
        /\ t = TcpConnection(l, f) /\ t.state_ = "kConnecting" /\ t.loop = l /\ t.fd = f
        /\ t.reading = FALSE /\ t.writing = FALSE /\ t.index = "kNew" /\ t.outputBuffer_ = 0
  <2> DEFINE t == TcpConnection(l, f)
  <2>1. /\ t \in Connections /\ t.state_ = "kConnecting" /\ t.loop = l /\ t.fd = f
        /\ t.reading = FALSE /\ t.writing = FALSE /\ t.index = "kNew" /\ t.outputBuffer_ = 0
    BY <1>7 DEF TcpConnection, NoConn, Connections, States
  <2> HIDE DEF t
  <2>2. t = TcpConnection(l, f)
    BY DEF t
  <2> QED BY <2>1, <2>2
<1>9. PICK q \in Connections :
        /\ conn' = [conn EXCEPT ![c] = q] /\ q.loop = l /\ q.fd = f /\ q.outputBuffer_ = 0
        /\ q.writing = FALSE
        /\ \/ l = Base /\ q.state_ = "kConnected" /\ Up(q)
           \/ l # Base /\ q.state_ = "kConnecting" /\ q.index = "kNew" /\ Quiet(q)
  <2>1. CASE l = Base
    <3> DEFINE s == [t EXCEPT !.state_ = "kConnected"]
               q == EnableReading(s)
    <3>1. /\ s \in Connections /\ s.state_ = "kConnected" /\ s.loop = l /\ s.fd = f
          /\ s.writing = FALSE /\ s.outputBuffer_ = 0
      BY <1>8 DEF Connections, States
    <3>2. ConnectEstablished(t) = q
      BY DEF ConnectEstablished
    <3> HIDE DEF s
    <3>3. /\ q \in Connections /\ q.state_ = "kConnected" /\ q.loop = l /\ q.fd = f
          /\ q.reading = TRUE /\ q.writing = FALSE /\ q.index = "kAdded" /\ q.outputBuffer_ = 0
      BY <3>1, EnableFacts DEF SameBut
    <3> HIDE DEF q
    <3>4. conn' = [conn EXCEPT ![c] = q]
      BY <1>4, <1>8, <2>1, <3>2
    <3> QED BY <2>1, <3>3, <3>4 DEF Up
  <2>2. CASE l # Base
    <3>1. conn' = [conn EXCEPT ![c] = t]
      BY <1>4, <1>8, <2>2
    <3> QED BY <1>8, <2>2, <3>1 DEF Quiet
  <2> QED BY <2>1, <2>2
<1>10. /\ conn' \in [Conns -> Connections] /\ conn'[c] = q
       /\ \A d \in Conns : d # c => conn'[d] = conn[d]
  BY <1>6, <1>9 DEF TypeOK
<1>11. PICK g \in Functors : g = Functor("established", c) /\ g.conn = c /\ g.op = "established"
  BY FunctorFacts
<1>12. /\ pendingFunctors_' \in [Loops -> Seq(Functors)]
       /\ \A k \in Loops : k # l => pendingFunctors_'[k] = pendingFunctors_[k]
       /\ l = Base => pendingFunctors_'[l] = pendingFunctors_[l]
       /\ l # Base => pendingFunctors_'[l] = Append(pendingFunctors_[l], g)
  <2>1. CASE l = Base
    BY <1>5, <1>6, <2>1 DEF TypeOK
  <2>2. CASE l # Base
    BY <1>5, <1>6, <1>11, <2>2, QueueType
  <2> QED BY <2>1, <2>2
<1>13. /\ Tail(backlog) \in Seq(Conns)
       /\ \A i, j \in DOMAIN Tail(backlog) : Tail(backlog)[i] = Tail(backlog)[j] => i = j
       /\ \A i \in DOMAIN Tail(backlog) :
               /\ Tail(backlog)[i] \in Conns /\ Tail(backlog)[i] # c
               /\ conn[Tail(backlog)[i]].state_ = "none" /\ net[Tail(backlog)[i]].peer # "absent"
  BY <1>1, <1>2, AcceptingFacts
<1>14. TypeOK'
  <2>1. next_' \in {1} \cup 1 .. numThreads_'
    BY <1>1, <1>6, NextLoopFacts
  <2>2. connections_' \in SUBSET Conns /\ acceptActive' \in BOOLEAN /\ backlog' \in Seq(Conns)
    BY <1>1, <1>5, <1>6, <1>13 DEF TypeOK
  <2> QED BY <1>1, <1>6, <1>10, <1>12, <2>1, <2>2 DEF TypeOK
<1>15. Elsewhere(c)
  BY <1>1, <1>5, <1>10 DEF Elsewhere
<1>16. Stage(c)'
  BY <1>5, <1>9, <1>10 DEF Stage
<1>17. OutOK(conn'[c], net'[c], produced'[c], c \in fault')
  <2>1. OutOK(NoConn, net[c], produced[c], c \in fault)
    BY <1>6 DEF IInv, Output
  <2>2. NoConn.state_ = "none" /\ NoConn.outputBuffer_ = 0
    BY DEF NoConn
  <2> QED BY <1>1, <1>9, <1>10, <2>1, <2>2 DEF OutOK
<1>18. QueuesFit' /\ QueuedOnce' /\ WillBeDestroyed'
  <2>1. ASSUME NEW k \in Loops
        PROVE  \/ Idle(k) /\ NoneFor(c, k)
               \/ Pops(k) /\ ToRun(k)[1].conn = c
               \/ \E h \in Functors : h.conn = c /\ Pushes(k, h) /\ NoneFor(c, k) /\ Fits(k, h)'
    <3>1. CASE k = l /\ l # Base
      <4>1. Pushes(l, g)
        BY <1>1, <1>6, <1>12, <3>1, Queued
      <4>2. Fits(l, g)'
        BY <1>9, <1>10, <1>11, <3>1 DEF Fits
      <4> QED BY <1>6, <1>11, <3>1, <4>1, <4>2
    <3>2. CASE k # l \/ l = Base
      BY <1>1, <1>6, <1>12, <3>2, Untouched
    <3> QED BY <3>1, <3>2
  <2>2. c \in connections_'
    BY <1>5
  <2>3. \A d \in Conns : d # c =>
           conn'[d] = conn[d] /\ (d \in connections_' <=> d \in connections_)
    BY <1>15 DEF Elsewhere
  <2> QED BY <1>14, <2>1, <2>2, <2>3, QueueStep
<1>19. BatchOnly'
  BY <1>1 DEF IInv, Life, BatchOnly
<1>20. ActiveOnce'
  <2> SUFFICES ASSUME NEW k \in Loops, NEW a \in activeChannels_[k]
               PROVE  /\ conn'[a.conn].loop = k
                      /\ conn'[a.conn].state_ \in {"kConnected", "kDisconnecting"}
                      /\ \A b \in activeChannels_[k] : a.conn = b.conn => a = b
    BY <1>1 DEF ActiveOnce
  <2>1. /\ conn[a.conn].loop = k /\ conn[a.conn].state_ \in {"kConnected", "kDisconnecting"}
        /\ \A b \in activeChannels_[k] : a.conn = b.conn => a = b
    BY DEF IInv, Channels, ActiveOnce
  <2>2. a.conn \in Conns /\ a.conn # c
    BY <1>6, <2>1 DEF TypeOK, NoConn
  <2> QED BY <1>10, <2>1, <2>2
<1>21. FdsDistinct'
  <2>1. \A d \in Conns : d # c => (HasFd(d)' <=> HasFd(d)) /\ conn'[d].fd = conn[d].fd
    BY <1>5, <1>10 DEF HasFd
  <2>2. conn'[c].fd = f
    BY <1>9, <1>10
  <2>3. \A d, e \in Conns : HasFd(d) /\ HasFd(e) /\ d # e => conn[d].fd # conn[e].fd
    BY DEF IInv, Channels, FdsDistinct
  <2> QED BY <1>7, <2>1, <2>2, <2>3 DEF FdsDistinct
<1>22. BacklogNew'
  <2>1. \A d \in Conns : net[d].peer = "absent" => conn'[d].state_ = "none"
    BY <1>6, <1>10 DEF IInv, Channels, BacklogNew
  <2> QED BY <1>1, <1>10, <1>13, <2>1 DEF BacklogNew
<1>23. Stages' /\ Output'
  BY <1>15, <1>16, <1>17, OneConnection
<1> QED BY <1>14, <1>18, <1>19, <1>20, <1>21, <1>22, <1>23 DEF IInv, Life, Channels

-----------------------------------------------------------------------------
(* The network. *)

\* A step that changes only what the network knows of c.
LEMMA SocketInv ==
  ASSUME IInv, NEW c \in Conns, NEW n \in Sockets, net' = [net EXCEPT ![c] = n],
         n.sent = net[c].sent, n.wshut = net[c].wshut,
         UNCHANGED <<connections_, numThreads_, next_, conn, pc, activeChannels_, functors, done,
                     pendingFunctors_, produced, fault>>,
         acceptActive' \in BOOLEAN, backlog' \in Seq(Conns), BacklogNew'
  PROVE  IInv'
<1>1. /\ net' \in [Conns -> Sockets] /\ net'[c] = n /\ \A d \in Conns : d # c => net'[d] = net[d]
  BY DEF IInv, TypeOK
<1>2. TypeOK'
  BY <1>1 DEF IInv, TypeOK
<1>3. Stages' /\ QueuesFit' /\ QueuedOnce' /\ WillBeDestroyed'
  <2>1. \A k \in Loops : Idle(k)
    BY Untouched
  <2> QED BY <1>2, <2>1, QueueIdle
<1>4. BatchOnly'
  BY DEF IInv, Life, BatchOnly
<1>5. ActiveOnce'
  BY DEF IInv, Channels, ActiveOnce
<1>6. FdsDistinct'
  BY DEF IInv, Channels, FdsDistinct, HasFd
<1>7. Output'
  <2> SUFFICES ASSUME NEW d \in Conns PROVE OutOK(conn[d], net'[d], produced[d], d \in fault)
    BY DEF Output, OutOK
  <2>1. OutOK(conn[d], net[d], produced[d], d \in fault)
    BY DEF IInv, Output
  <2>2. net'[d].sent = net[d].sent /\ net'[d].wshut = net[d].wshut
    BY <1>1
  <2> QED BY <2>1, <2>2 DEF OutOK
<1> QED BY <1>2, <1>3, <1>4, <1>5, <1>6, <1>7 DEF IInv, Life, Channels

\* EMFILE: accepted on the reserved descriptor and closed.
LEMMA AcceptEmfileInv ==
  ASSUME IInv, AcceptEmfile
  PROVE  IInv'
<1>1. /\ acceptActive /\ acceptActive' = FALSE /\ backlog' = Tail(backlog)
      /\ net' = [net EXCEPT ![Head(backlog)].peer = "refused"]
      /\ UNCHANGED <<connections_, numThreads_, next_, conn, pc, activeChannels_, functors, done,
                     pendingFunctors_, produced, fault>>
  BY DEF AcceptEmfile, Accepting, serverVars, histVars
<1>2. PICK c \in Conns : c = Head(backlog)
  BY <1>1, AcceptingFacts
<1>3. net \in [Conns -> Sockets] /\ net[c] \in Sockets
  BY DEF IInv, TypeOK
<1> DEFINE m == [net[c] EXCEPT !.peer = "refused"]
<1>4. net' = [net EXCEPT ![c] = m]
  BY <1>1, <1>2, <1>3
<1>5. /\ m \in Sockets /\ m.peer = "refused" /\ m.sent = net[c].sent /\ m.wshut = net[c].wshut
  BY <1>3 DEF Sockets
<1> HIDE DEF m
<1>6. /\ net'[c] = m /\ \A d \in Conns : d # c => net'[d] = net[d]
  BY <1>3, <1>4
<1>7. /\ Tail(backlog) \in Seq(Conns)
      /\ \A i, j \in DOMAIN Tail(backlog) : Tail(backlog)[i] = Tail(backlog)[j] => i = j
      /\ \A i \in DOMAIN Tail(backlog) :
              /\ Tail(backlog)[i] \in Conns /\ Tail(backlog)[i] # c
              /\ conn[Tail(backlog)[i]].state_ = "none" /\ net[Tail(backlog)[i]].peer # "absent"
  BY <1>1, <1>2, AcceptingFacts
<1>8. BacklogNew'
  <2>1. \A d \in Conns : net'[d].peer = "absent" => conn[d].state_ = "none"
    BY <1>5, <1>6 DEF IInv, Channels, BacklogNew
  <2> QED BY <1>1, <1>6, <1>7, <2>1 DEF BacklogNew
<1> QED BY <1>1, <1>4, <1>5, <1>7, <1>8, SocketInv

\* A step of a peer: what the socket has sent is not the peer's to change.
LEMMA PeerInv ==
  ASSUME IInv, NEW c \in Conns, NEW n \in Sockets, Peer(c, n),
         n.sent = net[c].sent, n.wshut = net[c].wshut, n.peer # "absent",
         \/ backlog' = backlog
         \/ net[c].peer = "absent" /\ backlog' = Append(backlog, c)
  PROVE  IInv'
<1>1. /\ net' = [net EXCEPT ![c] = n]
      /\ UNCHANGED <<connections_, numThreads_, next_, conn, pc, activeChannels_, acceptActive, functors,
                     done, pendingFunctors_, produced, fault>>
  BY DEF Peer, serverVars, loopVars, histVars
<1>2. backlog \in Seq(Conns) /\ acceptActive \in BOOLEAN
  BY DEF IInv, TypeOK
<1>3. /\ net'[c] = n /\ \A d \in Conns : d # c => net'[d] = net[d]
  BY <1>1 DEF IInv, TypeOK
<1>4. /\ acceptActive => backlog # <<>>
      /\ \A i, j \in DOMAIN backlog : backlog[i] = backlog[j] => i = j
      /\ \A i \in DOMAIN backlog :
            backlog[i] \in Conns /\ conn[backlog[i]].state_ = "none" /\ net[backlog[i]].peer # "absent"
      /\ \A d \in Conns : net[d].peer = "absent" => conn[d].state_ = "none"
  BY <1>2 DEF IInv, Channels, BacklogNew
<1>5. \A d \in Conns : net'[d].peer = "absent" => conn[d].state_ = "none"
  BY <1>3, <1>4
<1>6. backlog' \in Seq(Conns) /\ BacklogNew'
  <2>1. CASE backlog' = backlog
    BY <1>1, <1>2, <1>3, <1>4, <1>5, <2>1 DEF BacklogNew
  <2>2. CASE net[c].peer = "absent" /\ backlog' = Append(backlog, c)
    <3>1. /\ backlog' \in Seq(Conns) /\ Len(backlog) \in Nat /\ DOMAIN backlog = 1 .. Len(backlog)
          /\ DOMAIN (backlog') = 1 .. Len(backlog) + 1 /\ backlog'[Len(backlog) + 1] = c
          /\ \A i \in 1 .. Len(backlog) : backlog'[i] = backlog[i]
      BY <1>2, <2>2
    <3>2. \A i \in 1 .. Len(backlog) : backlog[i] # c
      BY <1>4, <2>2, <3>1
    <3>3. backlog' # <<>>
      BY <1>2, <2>2
    <3>4. \A i, j \in DOMAIN (backlog') : backlog'[i] = backlog'[j] => i = j
      BY <1>4, <3>1, <3>2
    <3>5. \A i \in DOMAIN (backlog') :
             conn[backlog'[i]].state_ = "none" /\ net'[backlog'[i]].peer # "absent"
      BY <1>3, <1>4, <2>2, <3>1, <3>2
    <3> QED BY <1>1, <1>5, <3>1, <3>3, <3>4, <3>5 DEF BacklogNew
  <2> QED BY <2>1, <2>2
<1> QED BY <1>1, <1>2, <1>6, SocketInv

\* Every step of a peer is such a step.
LEMMA PeerStepInv ==
  ASSUME IInv, NEW c \in Conns, PeerStep(c)
  PROVE  IInv'
<1>1. net[c] \in Sockets
  BY DEF IInv, TypeOK
<1> DEFINE Good(n) == /\ n \in Sockets /\ n.sent = net[c].sent /\ n.wshut = net[c].wshut
                      /\ n.peer # "absent"
<1>2. CASE PeerConnect(c)
  <2> DEFINE n == [net[c] EXCEPT !.peer = "open"]
  <2>1. Good(n)
    BY <1>1 DEF Sockets
  <2>2. Peer(c, n) /\ net[c].peer = "absent" /\ backlog' = Append(backlog, c)
    BY <1>2 DEF PeerConnect
  <2> HIDE DEF n
  <2> QED BY <2>1, <2>2, PeerInv
<1>3. CASE PeerSend(c)
  <2>1. PICK keep \in BOOLEAN, whole \in BOOLEAN :
          Peer(c, [net[c] EXCEPT !.asked = @ + 1, !.keep = keep, !.half = ~whole,
                                 !.rx = @ \o (IF whole THEN <<Begin(keep), End>> ELSE <<Begin(keep)>>)])
    BY <1>3 DEF PeerSend
  <2> DEFINE R == {Begin(TRUE), Begin(FALSE), End}
             more == IF whole THEN <<Begin(keep), End>> ELSE <<Begin(keep)>>
             rx == net[c].rx \o more
             n == [net[c] EXCEPT !.asked = net[c].asked + 1, !.keep = keep, !.half = ~whole, !.rx = rx]
  <2>2. net[c].rx \in Seq(R) /\ net[c].asked + 1 \in Nat /\ net[c].peer = "open"
    BY <1>1, <1>3 DEF Sockets, PeerSend
  <2>3. Begin(keep) \in R /\ End \in R
    OBVIOUS
  <2>4. more \in Seq(R)
    <3> HIDE DEF R
    <3> QED BY <2>3
  <2> HIDE DEF more
  <2>5. rx \in Seq(R)
    <3> HIDE DEF R
    <3> QED BY <2>2, <2>4, ConcatProperties
  <2>6. Peer(c, n)
    BY <2>1 DEF more
  <2> HIDE DEF rx
  <2>7. Good(n)
    BY <1>1, <2>2, <2>5 DEF Sockets
  <2>8. backlog' = backlog
    BY <1>3 DEF PeerSend
  <2> HIDE DEF n
  <2> QED BY <2>6, <2>7, <2>8, PeerInv
<1>4. CASE PeerSendRest(c)
  <2> DEFINE R == {Begin(TRUE), Begin(FALSE), End}
             rx == Append(net[c].rx, End)
             n == [net[c] EXCEPT !.half = FALSE, !.rx = rx]
  <2>1. net[c].rx \in Seq(R) /\ net[c].peer = "open" /\ End \in R
    BY <1>1, <1>4 DEF Sockets, PeerSendRest
  <2>2. rx \in Seq(R)
    <3> HIDE DEF R
    <3> QED BY <2>1
  <2>3. Peer(c, n) /\ backlog' = backlog
    BY <1>4 DEF PeerSendRest
  <2> HIDE DEF rx
  <2>4. Good(n)
    BY <1>1, <2>1, <2>2 DEF Sockets
  <2> HIDE DEF n
  <2> QED BY <2>3, <2>4, PeerInv
<1>5. CASE PeerReceive(c)
  <2> DEFINE n == [net[c] EXCEPT !.got = net[c].got + net[c].snd, !.snd = 0]
  <2>1. net[c].got + net[c].snd \in Nat /\ 0 \in 0 .. SndBuf /\ net[c].peer = "open"
    BY <1>1, <1>5, MucgiConstants DEF Sockets, PeerReceive
  <2>2. Good(n)
    BY <1>1, <2>1 DEF Sockets
  <2>3. Peer(c, n) /\ backlog' = backlog
    BY <1>5 DEF PeerReceive
  <2> HIDE DEF n
  <2> QED BY <2>2, <2>3, PeerInv
<1>6. CASE PeerClose(c)
  <2> DEFINE n == [net[c] EXCEPT !.peer = "closed"]
  <2>1. Good(n)
    BY <1>1 DEF Sockets
  <2>2. Peer(c, n) /\ backlog' = backlog
    BY <1>6 DEF PeerClose
  <2> HIDE DEF n
  <2> QED BY <2>1, <2>2, PeerInv
<1>7. CASE PeerReset(c)
  <2> DEFINE n == [net[c] EXCEPT !.peer = "reset", !.err = TRUE, !.snd = 0]
  <2>1. 0 \in 0 .. SndBuf
    BY MucgiConstants
  <2>2. Good(n)
    BY <1>1, <2>1 DEF Sockets
  <2>3. Peer(c, n) /\ backlog' = backlog
    BY <1>7 DEF PeerReset
  <2> HIDE DEF n
  <2> QED BY <2>2, <2>3, PeerInv
<1> QED BY <1>2, <1>3, <1>4, <1>5, <1>6, <1>7 DEF PeerStep

-----------------------------------------------------------------------------
(* The specification. *)

\* The server before its first connection.
LEMMA InitInv ==
  ASSUME Init
  PROVE  IInv
<1>1. SndBuf \in Nat /\ <<>> \in Seq(Functors) /\ <<>> \in Seq(Conns)
      /\ <<>> \in Seq({Begin(TRUE), Begin(FALSE), End})
  BY MucgiConstants
<1>2. NoConn \in Connections /\ NoPeer \in Sockets
  BY <1>1 DEF NoConn, NoPeer, Connections, Sockets, States, Loops
<1>3. TypeOK
  <2>1. conn \in [Conns -> Connections] /\ net \in [Conns -> Sockets]
    BY <1>2 DEF Init
  <2>2. done \in [Loops -> Nat] /\ \A l \in Loops : done[l] \in 0 .. Len(functors[l])
    BY DEF Init
  <2> QED BY <1>1, <2>1, <2>2 DEF Init, TypeOK
<1>4. /\ NoConn.state_ = "none" /\ NoConn.index = "kNew" /\ NoConn.outputBuffer_ = 0
      /\ NoPeer.sent = 0 /\ NoPeer.wshut = FALSE /\ NoPeer.peer = "absent"
  BY DEF NoConn, NoPeer
<1>5. \A c \in Conns : conn[c] = NoConn /\ net[c] = NoPeer /\ c \notin connections_
  BY DEF Init
<1>6. \A l \in Loops : DOMAIN ToRun(l) = {}
  <2> TAKE l \in Loops
  <2>1. functors[l] = <<>> /\ pendingFunctors_[l] = <<>> /\ done[l] = 0
    BY DEF Init
  <2>2. functors[l] \in Seq(Functors) /\ pendingFunctors_[l] \in Seq(Functors)
        /\ done[l] \in 0 .. Len(functors[l])
    BY <1>3 DEF TypeOK
  <2>3. Joined(ToRun(l), functors[l], done[l], pendingFunctors_[l])
    BY <2>2, RestAndMore DEF ToRun
  <2> QED BY <2>1, <2>3 DEF Joined
<1>7. Stages
  BY <1>4, <1>5 DEF Stages, Stage
<1>8. QueuesFit /\ QueuedOnce /\ WillBeDestroyed /\ BatchOnly
  BY <1>4, <1>5, <1>6 DEF QueuesFit, QueuedOnce, WillBeDestroyed, BatchOnly, Init
<1>9. ActiveOnce /\ FdsDistinct
  BY <1>4, <1>5 DEF ActiveOnce, FdsDistinct, HasFd, Init
<1>10. BacklogNew
  BY <1>4, <1>5 DEF BacklogNew, Init
<1>11. Output
  <2> SUFFICES ASSUME NEW c \in Conns PROVE OutOK(conn[c], net[c], produced[c], c \in fault)
    BY DEF Output
  <2>1. produced[c] = 0
    BY DEF Init
  <2>2. conn[c].state_ = "none" /\ conn[c].outputBuffer_ = 0 /\ net[c].sent = 0 /\ net[c].wshut = FALSE
    BY <1>4, <1>5
  <2> QED BY <2>1, <2>2 DEF OutOK
<1> QED BY <1>3, <1>7, <1>8, <1>9, <1>10, <1>11 DEF IInv, Life, Channels

\* Every step of a loop or a peer keeps the invariant.
LEMMA NextInv ==
  ASSUME IInv, [Next]_vars
  PROVE  IInv'
<1>1. ASSUME NEW l \in Loops, Loop(l) PROVE IInv'
  BY <1>1, PollInv, EventsDoneInv, FunctorsDoneInv, RunEstablishedInv, RunRemoveInv, RunDestroyInv,
     HandleMessageInv, HandleEofInv, HandleQuietInv, NewConnectionInv, AcceptEmfileInv DEF Loop
<1>2. CASE UNCHANGED vars
  <2>1. UNCHANGED <<connections_, numThreads_, next_, conn, pc, activeChannels_, acceptActive,
                    pendingFunctors_, functors, done, net, backlog, produced, fault>>
    BY <1>2 DEF vars, serverVars, loopVars, netVars, histVars
  <2>2. TypeOK'
    BY <2>1 DEF IInv, TypeOK
  <2>3. Stages' /\ QueuesFit' /\ QueuedOnce' /\ WillBeDestroyed'
    <3>1. \A k \in Loops : Idle(k)
      BY <2>1, Untouched
    <3> QED BY <2>1, <2>2, <3>1, QueueIdle
  <2>4. BatchOnly'
    BY <2>1 DEF IInv, Life, BatchOnly
  <2> QED BY <2>1, <2>2, <2>3, <2>4, LoopOnly DEF IInv, Life
<1> QED BY <1>1, <1>2, PeerStepInv DEF Next

\* The inductive invariant of the server.
THEOREM Invariance == Spec => []IInv
BY InitInv, NextInv, PTL DEF Spec

\* The functors that wait are on their way down in the right order.
LEMMA WayDown ==
  ASSUME IInv
  PROVE  WayDownClean
<1>1. TypeOK
  BY DEF IInv
<1>2. DestroyedClean
  <2> SUFFICES ASSUME NEW c \in Conns, conn[c].state_ # "none", ~Alive(c)
               PROVE  conn[c].state_ = "kDisconnected" /\ conn[c].index = "kNew"
    BY DEF DestroyedClean
  <2>1. c \notin connections_ /\ conn[c].index = "kNew"
    BY HasFdAlive DEF HasFd
  <2>2. conn[c].state_ \in States
    BY <1>1 DEF TypeOK, Connections
  <2> QED BY <2>1, <2>2 DEF IInv, Life, Stages, Stage, States
<1>3. ChannelsValid
  <2>1. ASSUME NEW l \in Loops, NEW a \in activeChannels_[l]
        PROVE  /\ Alive(a.conn) /\ conn[a.conn].loop = l
               /\ conn[a.conn].state_ \in {"kConnected", "kDisconnecting"}
    BY <2>1, ActiveFacts DEF Alive, Up
  <2>2. ASSUME NEW c \in Conns, NEW d \in Conns, c # d, conn[c].index # "kNew", conn[d].index # "kNew"
        PROVE  conn[c].fd # conn[d].fd
    BY <2>2 DEF IInv, Channels, FdsDistinct, HasFd
  <2> QED BY <2>1, <2>2 DEF ChannelsValid
<1>4. RemovedOnce
  <2>1. ASSUME NEW op, NEW w \in Waiting(op)
        PROVE  /\ w = <<w[1], w[2]>> /\ w[1] \in Loops /\ w[2] \in DOMAIN ToRun(w[1])
               /\ ToRun(w[1])[w[2]].op = op
    BY <2>1 DEF Waiting
  <2>2. ASSUME NEW w \in Waiting("remove")
        PROVE  /\ WaitingConn(w) \in connections_ /\ conn[WaitingConn(w)].state_ = "kDisconnected"
               /\ w[1] = Base
    <3>1. Fits(w[1], ToRun(w[1])[w[2]]) /\ ToRun(w[1])[w[2]].op = "remove"
      BY <2>1 DEF IInv, Life, QueuesFit
    <3> QED BY <3>1 DEF Fits, WaitingConn
  <2>3. ASSUME NEW w \in Waiting("destroy")
        PROVE  /\ WaitingConn(w) \notin connections_ /\ conn[WaitingConn(w)].index = "kDeleted"
               /\ ~conn[WaitingConn(w)].reading /\ ~conn[WaitingConn(w)].writing
               /\ conn[WaitingConn(w)].loop = w[1]
    <3>1. /\ Fits(w[1], ToRun(w[1])[w[2]]) /\ ToRun(w[1])[w[2]].op = "destroy"
          /\ w[1] \in Loops /\ w[2] \in DOMAIN ToRun(w[1])
      BY <2>1 DEF IInv, Life, QueuesFit
    <3>2. WaitingConn(w) \in Conns
      BY <1>1, <3>1, WaitingFits DEF IInv, Life, WaitingConn
    <3>3. Stage(WaitingConn(w)) /\ conn[WaitingConn(w)].state_ = "kDisconnected"
      BY <3>1, <3>2 DEF IInv, Life, Stages, Fits, WaitingConn
    <3> QED BY <3>1, <3>3 DEF Fits, WaitingConn, Stage, Quiet
  <2>4. ASSUME NEW v \in Waiting("remove") \cup Waiting("destroy"),
               NEW w \in Waiting("remove") \cup Waiting("destroy"), WaitingConn(v) = WaitingConn(w)
        PROVE  v = w
    <3>1. v[1] = w[1]
      BY <2>2, <2>3, <2>4
    <3>2. /\ v = <<v[1], v[2]>> /\ w = <<w[1], w[2]>> /\ v[1] \in Loops
          /\ v[2] \in DOMAIN ToRun(v[1]) /\ w[2] \in DOMAIN ToRun(v[1])
      BY <2>1, <3>1
    <3>3. v[2] = w[2]
      BY <2>4, <3>1, <3>2 DEF IInv, Life, QueuedOnce, WaitingConn
    <3> QED BY <3>1, <3>2, <3>3
  <2> QED BY <2>2, <2>3, <2>4 DEF RemovedOnce
<1> QED BY <1>1, <1>2, <1>3, <1>4 DEF WayDownClean

\* On its way down, through two loops and with descriptors reused at once, a
\* connection meets every assertion of ~TcpConnection, ~Channel,
\* removeConnectionInLoop and Channel::remove, and an active channel is one of a
\* living connection of its loop.
THEOREM WayDownIsClean == Spec => []WayDownClean
<1>1. IInv => WayDownClean
  BY WayDown
<1> QED BY <1>1, Invariance, PTL

\* shutdown() behind buffered output neither cuts the answer nor is forgotten,
\* however the response is split over handleWrite calls.
THEOREM OutputIsComplete == Spec => []OutputComplete
<1>1. ASSUME IInv PROVE OutputComplete
  <2> SUFFICES ASSUME NEW c \in Conns
               PROVE  /\ net[c].wshut /\ c \notin fault /\ conn[c].state_ = "kDisconnecting" =>
                            net[c].sent = produced[c]
                      /\ conn[c].state_ \in {"kConnected", "kDisconnecting"} =>
                            /\ conn[c].outputBuffer_ > 0 => conn[c].writing
                            /\ conn[c].state_ = "kDisconnecting" /\ ~conn[c].writing => net[c].wshut
    BY DEF OutputComplete, ShutdownAfterOutput, OutputMoves
  <2>1. OutOK(conn[c], net[c], produced[c], c \in fault)
    BY <1>1 DEF IInv, Output
  <2>2. net[c].sent \in Nat
    BY <1>1 DEF IInv, TypeOK, Sockets
  <2> QED BY <2>1, <2>2 DEF OutOK
<1> QED BY <1>1, Invariance, PTL
=============================================================================
