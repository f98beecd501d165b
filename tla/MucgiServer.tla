------------------------------ MODULE MucgiServer ------------------------------
(***************************************************************************)
(* The mucgi server: TcpServer and Acceptor in the base loop, TcpConnection *)
(* with its Channel in an I/O loop, EPollPoller under each loop and one     *)
(* FastCgiCodec per connection (mucgi/main.cpp, fastcgi.h, muduo_net).      *)
(*                                                                          *)
(* A loop polls, handles its active channels and runs its pending functors; *)
(* a handler or functor is one step, since only its own loop touches a      *)
(* connection.  Loops talk through functors; that these run in order and    *)
(* once is what EventLoop shows.  A TcpConnection lives as long as a        *)
(* shared_ptr does: in connections_, in a queued functor, or in a functor   *)
(* that has run but whose batch is not over yet.                            *)
(***************************************************************************)
EXTENDS Naturals, Sequences

CONSTANTS
    Conns,         \* connections peers may open
    Base,          \* loop_ of TcpServer
    IoLoops,       \* the loops of the threads that may be started
    ThreadNums,    \* what setThreadNum() may be told
    Fds,           \* descriptors left to the process under its limit
    ResponseUnits, \* length of a response, in units of the send buffer
    SndBuf,        \* capacity of a socket's send buffer
    MaxRequests    \* bound: requests of each connection

ASSUME MucgiConstants ==
    /\ IoLoops \in Seq(STRING) /\ Base \notin {IoLoops[i] : i \in DOMAIN IoLoops}
    /\ ThreadNums \subseteq 0 .. Len(IoLoops)
    /\ ResponseUnits \in Nat \ {0} /\ SndBuf \in Nat \ {0} /\ MaxRequests \in [Conns -> Nat]

Loops == {Base} \cup {IoLoops[i] : i \in DOMAIN IoLoops}

VARIABLES
    \* TcpServer
    connections_,
    numThreads_, \* of EventLoopThreadPool: loops_ is as many of IoLoops
    next_,       \* of EventLoopThreadPool
    \* the connection objects
    conn,
    \* the loops
    pc,
    activeChannels_,  \* Channels with the revents_ poll() gave them
    acceptActive,     \* the same for the acceptor's Channel, in the base loop
    pendingFunctors_,
    functors,         \* local of doPendingFunctors
    done,             \* functors of the batch that have run
    \* the network
    net,
    backlog,     \* accept queue of the listening socket
    \* history
    produced,    \* units of response passed to send() in state kConnected
    fault        \* connections whose response met a reset in sendInLoop

serverVars == <<connections_, numThreads_, next_>>
loopVars == <<pc, activeChannels_, acceptActive, functors, done>>
netVars == <<net, backlog>>
histVars == <<produced, fault>>
vars == <<serverVars, conn, loopVars, pendingFunctors_, netVars, histVars>>

-----------------------------------------------------------------------------
(* Data. *)

Begin(keep) == [type |-> "begin", keep |-> keep]
End == [type |-> "end"]

NoConn == [state_ |-> "none", loop |-> Base, fd |-> 0, reading |-> FALSE, writing |-> FALSE,
           index |-> "kNew", outputBuffer_ |-> 0, keepConn_ |-> FALSE]

\* A TcpConnection as its constructor leaves it.
TcpConnection(l, f) == [NoConn EXCEPT !.state_ = "kConnecting", !.loop = l, !.fd = f]

\* A socket and its peer: records to read, units accepted by write() and still in
\* the send buffer, SO_ERROR, SHUT_WR; and what the peer has asked and received.
NoPeer == [peer |-> "absent", rx |-> <<>>, sent |-> 0, snd |-> 0, err |-> FALSE, wshut |-> FALSE,
           asked |-> 0, half |-> FALSE, keep |-> TRUE, got |-> 0]

Functor(op, c) == [op |-> op, conn |-> c]
InQueue(c, q) == \E i \in DOMAIN q : q[i].conn = c

\* shared_ptr<TcpConnection> held somewhere.
Alive(c) ==
    \/ c \in connections_
    \/ \E l \in Loops : InQueue(c, pendingFunctors_[l]) \/ InQueue(c, functors[l])

FreeFds == Fds \ {conn[c].fd : c \in {d \in Conns : Alive(d)}}

Init ==
    /\ connections_ = {}
    /\ numThreads_ \in ThreadNums /\ next_ = 1
    /\ conn = [c \in Conns |-> NoConn]
    /\ pc = [l \in Loops |-> "poll"]
    /\ activeChannels_ = [l \in Loops |-> {}]
    /\ acceptActive = FALSE
    /\ pendingFunctors_ = [l \in Loops |-> <<>>]
    /\ functors = [l \in Loops |-> <<>>]
    /\ done = [l \in Loops |-> 0]
    /\ net = [c \in Conns |-> NoPeer]
    /\ backlog = <<>>
    /\ produced = [c \in Conns |-> 0]
    /\ fault = {}

-----------------------------------------------------------------------------
(* Channel and EPollPoller: the index a channel has after update(). *)

Update(r) ==
    IF r.index \in {"kNew", "kDeleted"} THEN "kAdded"
    ELSE IF r.reading \/ r.writing THEN "kAdded" ELSE "kDeleted"

SetEvents(r, reading, writing) ==
    LET s == [r EXCEPT !.reading = reading, !.writing = writing]
    IN  [s EXCEPT !.index = Update(s)]

EnableReading(r) == SetEvents(r, TRUE, r.writing)
EnableWriting(r) == SetEvents(r, r.reading, TRUE)
DisableWriting(r) == SetEvents(r, r.reading, FALSE)
DisableAll(r) == SetEvents(r, FALSE, FALSE)

-----------------------------------------------------------------------------
(* TcpConnection: each handler maps the connection record r and the socket   *)
(* record n to their new values, as [r, n].                                  *)

Min2(a, b) == IF a <= b THEN a ELSE b

\* write(): an error after a reset, else what the send buffer takes.
Writes(n, len) == IF n.peer = "reset" THEN 0 ELSE Min2(len, SndBuf - n.snd)
AfterWrite(n, len) ==
    LET w == Writes(n, len)
    IN  [n EXCEPT !.snd = @ + w, !.sent = @ + w,
                  !.err = IF n.peer = "reset" THEN FALSE ELSE @]

\* shutdownInLoop
ShutdownInLoopAtOnce(p) == [p EXCEPT !.n.wshut = TRUE]  \* mutant: pending output is cut off
ShutdownInLoop(p) == IF p.r.writing THEN p ELSE [p EXCEPT !.n.wshut = TRUE]

\* shutdown, called in the loop thread.
Shutdown(p) ==
    IF p.r.state_ = "kConnected"
    THEN ShutdownInLoop([p EXCEPT !.r.state_ = "kDisconnecting"])
    ELSE p

\* sendInLoop: write at once when nothing waits, append what is left over; after
\* EPIPE or ECONNRESET the rest is given up.
SendInLoopNoEnable(p, len) ==  \* mutant: enableWriting() forgotten
    LET direct == ~p.r.writing /\ p.r.outputBuffer_ = 0
        left == len - (IF direct THEN Writes(p.n, len) ELSE 0)
    IN  [p EXCEPT !.r.outputBuffer_ = @ + left,
                  !.n = IF direct THEN AfterWrite(p.n, len) ELSE p.n]

SendInLoop(p, len) ==
    LET direct == ~p.r.writing /\ p.r.outputBuffer_ = 0
        faultError == direct /\ p.n.peer = "reset"
        left == len - (IF direct THEN Writes(p.n, len) ELSE 0)
        m == IF direct THEN AfterWrite(p.n, len) ELSE p.n
    IN  IF faultError \/ left = 0 THEN [p EXCEPT !.n = m]
        ELSE [r |-> LET s == [p.r EXCEPT !.outputBuffer_ = @ + left]
                    IN  IF s.writing THEN s ELSE EnableWriting(s),
              n |-> m]

Send(p, len) == IF p.r.state_ = "kConnected" THEN SendInLoop(p, len) ELSE p

\* FastCgiCodec::onMessage for the records that were read: parseRequest, and on
\* a complete request onRequest() with its send(), then shutdown() unless kept.
IsBegin(recs, i) == recs[i].type = "begin"
KeepConn(r, recs) ==  \* the flag of the last FCGI_BEGIN_REQUEST
    IF \A i \in DOMAIN recs : ~IsBegin(recs, i) THEN r.keepConn_
    ELSE \E i \in DOMAIN recs :
            IsBegin(recs, i) /\ recs[i].keep /\ \A j \in i + 1 .. Len(recs) : ~IsBegin(recs, j)
GotRequest(recs) == \E i \in DOMAIN recs : recs[i].type = "end"

OnMessage(p, recs) ==
    LET q == [p EXCEPT !.r.keepConn_ = KeepConn(p.r, recs)]
    IN  IF ~GotRequest(recs) THEN q
        ELSE LET s == Send(q, ResponseUnits)
             IN  IF q.r.keepConn_ THEN s ELSE Shutdown(s)

\* handleWrite

HandleWrite(p) ==
    IF ~p.r.writing THEN p
    ELSE LET w == Writes(p.n, p.r.outputBuffer_)
             q == [r |-> [p.r EXCEPT !.outputBuffer_ = @ - w],
                   n |-> AfterWrite(p.n, p.r.outputBuffer_)]
             idle == [q EXCEPT !.r = DisableWriting(q.r)]
         IN  IF w = 0 \/ q.r.outputBuffer_ > 0 THEN q
             ELSE IF idle.r.state_ = "kDisconnecting" THEN ShutdownInLoop(idle) ELSE idle

\* handleClose, up to the callbacks
HandleCloseStaysEnabled(r) == [r EXCEPT !.state_ = "kDisconnected"]  \* mutant: no disableAll()
HandleClose(r) == DisableAll([r EXCEPT !.state_ = "kDisconnected"])

ConnectEstablished(r) == EnableReading([r EXCEPT !.state_ = "kConnected"])

\* connectDestroyed with Channel::remove
ConnectDestroyed(r) ==
    LET s == IF r.state_ = "kConnected" THEN DisableAll([r EXCEPT !.state_ = "kDisconnected"]) ELSE r
    IN  [s EXCEPT !.index = "kNew"]

-----------------------------------------------------------------------------
(* A loop. *)

\* What epoll_wait reports of c: errors always, the rest as asked for.
Revents(c) ==
    LET r == conn[c]
        n == net[c]
    IN  [conn |-> c,
         err |-> n.err,
         in |-> r.reading /\ (n.rx # <<>> \/ n.peer \in {"closed", "reset"}),
         out |-> r.writing /\ (n.snd < SndBuf \/ n.peer = "reset")]

Ready(l) ==
    {a \in {Revents(c) : c \in {d \in Conns : conn[d].loop = l /\ conn[d].index = "kAdded"}} :
        a.err \/ a.in \/ a.out}

\* poll() returns because of a channel or because a functor was queued.
Poll(l) ==
    /\ pc[l] = "poll"
    /\ LET accepting == l = Base /\ backlog # <<>>
       IN  /\ Ready(l) # {} \/ accepting \/ pendingFunctors_[l] # <<>>
           /\ acceptActive' = IF l = Base THEN accepting ELSE acceptActive
    /\ activeChannels_' = [activeChannels_ EXCEPT ![l] = Ready(l)]
    /\ pc' = [pc EXCEPT ![l] = "events"]
    /\ UNCHANGED <<serverVars, conn, functors, done, pendingFunctors_, netVars, histVars>>

EventsDone(l) ==
    /\ pc[l] = "events"
    /\ activeChannels_[l] = {}
    /\ l = Base => ~acceptActive
    /\ functors' = [functors EXCEPT ![l] = pendingFunctors_[l]]
    /\ pendingFunctors_' = [pendingFunctors_ EXCEPT ![l] = <<>>]
    /\ pc' = [pc EXCEPT ![l] = "functors"]
    /\ UNCHANGED <<serverVars, conn, activeChannels_, acceptActive, done, netVars, histVars>>

\* The vector of functors is destroyed, and the shared_ptrs in it.
FunctorsDone(l) ==
    /\ pc[l] = "functors"
    /\ done[l] = Len(functors[l])
    /\ functors' = [functors EXCEPT ![l] = <<>>]
    /\ done' = [done EXCEPT ![l] = 0]
    /\ pc' = [pc EXCEPT ![l] = "poll"]
    /\ UNCHANGED <<serverVars, conn, activeChannels_, acceptActive, pendingFunctors_, netVars, histVars>>

QueueInLoop(l, f) == pendingFunctors_' = [pendingFunctors_ EXCEPT ![l] = Append(@, f)]

\* removeConnectionInLoop

RemoveConnectionInLoop(c) ==
    /\ connections_' = connections_ \ {c}
    /\ QueueInLoop(conn[c].loop, Functor("destroy", c))

\* removeConnection: runInLoop on the base loop.
RemoveConnectionNot(l, c) == UNCHANGED <<connections_, pendingFunctors_>>  \* mutant
RemoveConnection(l, c) ==
    \/ l = Base /\ RemoveConnectionInLoop(c)
    \/ l # Base /\ QueueInLoop(Base, Functor("remove", c)) /\ UNCHANGED connections_

\* The functors.
Running(l, op) ==
    /\ pc[l] = "functors"
    /\ done[l] < Len(functors[l])
    /\ functors[l][done[l] + 1].op = op
    /\ done' = [done EXCEPT ![l] = @ + 1]
    /\ UNCHANGED <<numThreads_, next_, pc, activeChannels_, acceptActive, functors, netVars, histVars>>

RunEstablished(l) ==
    /\ Running(l, "established")
    /\ LET c == functors[l][done[l] + 1].conn IN conn' = [conn EXCEPT ![c] = ConnectEstablished(@)]
    /\ UNCHANGED <<connections_, pendingFunctors_>>

RunRemove(l) ==
    /\ Running(l, "remove")
    /\ RemoveConnectionInLoop(functors[l][done[l] + 1].conn)
    /\ UNCHANGED conn

RunDestroy(l) ==
    /\ Running(l, "destroy")
    /\ LET c == functors[l][done[l] + 1].conn IN conn' = [conn EXCEPT ![c] = ConnectDestroyed(@)]
    /\ UNCHANGED <<connections_, pendingFunctors_>>

-----------------------------------------------------------------------------
(* Channel::handleEventWithGuard.  Reading stays enabled until the channel is *)
(* disabled altogether, so POLLHUP never comes without POLLIN.                *)

\* handleError on POLLERR: getSocketError clears SO_ERROR.
HandleError(a) == [net[a.conn] EXCEPT !.err = @ /\ ~a.err]

Handle(l, a) ==
    /\ pc[l] = "events"
    /\ a \in activeChannels_[l]
    /\ activeChannels_' = [activeChannels_ EXCEPT ![l] = @ \ {a}]
    /\ UNCHANGED <<numThreads_, next_, pc, acceptActive, functors, done, backlog>>

Finish(a, p) ==
    LET q == IF a.out THEN HandleWrite(p) ELSE p
    IN  /\ conn' = [conn EXCEPT ![a.conn] = q.r]
        /\ net' = [net EXCEPT ![a.conn] = q.n]

\* handleRead with data, as much of it as one readFd takes.
HandleMessage(l) ==
    \E a \in activeChannels_[l] :
        /\ Handle(l, a)
        /\ a.in
        /\ LET c == a.conn
               n == HandleError(a)
           IN  \E k \in 1 .. Len(n.rx) :
                 LET recs == SubSeq(n.rx, 1, k)
                     p == [r |-> conn[c], n |-> [n EXCEPT !.rx = SubSeq(@, k + 1, Len(@))]]
                     answers == GotRequest(recs) /\ conn[c].state_ = "kConnected"
                 IN  /\ Finish(a, OnMessage(p, recs))
                     /\ produced' = [produced EXCEPT ![c] = @ + (IF answers THEN ResponseUnits ELSE 0)]
                     /\ fault' = IF answers /\ n.peer = "reset" THEN fault \cup {c} ELSE fault
        /\ UNCHANGED <<connections_, pendingFunctors_>>

\* handleRead with 0: handleClose.  A handleWrite after it does nothing.
HandleEof(l) ==
    \E a \in activeChannels_[l] :
        /\ Handle(l, a)
        /\ a.in
        /\ HandleError(a).rx = <<>> /\ ~HandleError(a).err
        /\ conn' = [conn EXCEPT ![a.conn] = HandleClose(@)]
        /\ net' = [net EXCEPT ![a.conn] = HandleError(a)]
        /\ RemoveConnection(l, a.conn)
        /\ UNCHANGED histVars

\* handleRead with an error (a reset after poll() returned): only logged.
HandleReadError(l) ==
    \E a \in activeChannels_[l] :
        /\ Handle(l, a)
        /\ a.in
        /\ HandleError(a).rx = <<>> /\ HandleError(a).err
        /\ Finish(a, [r |-> conn[a.conn], n |-> [HandleError(a) EXCEPT !.err = FALSE]])
        /\ UNCHANGED <<connections_, pendingFunctors_, histVars>>

\* Only POLLOUT: handleWrite.
HandleWritable(l) ==
    \E a \in activeChannels_[l] :
        /\ Handle(l, a)
        /\ ~a.in
        /\ Finish(a, [r |-> conn[a.conn], n |-> HandleError(a)])
        /\ UNCHANGED <<connections_, pendingFunctors_, histVars>>

-----------------------------------------------------------------------------
(* Acceptor::handleRead and TcpServer::newConnection, in the base loop. *)

Accepting ==
    /\ pc[Base] = "events"
    /\ acceptActive
    /\ acceptActive' = FALSE
    /\ backlog' = Tail(backlog)
    /\ UNCHANGED <<pc, activeChannels_, functors, done, histVars>>

\* getNextLoop
NextLoop == IF numThreads_ = 0 THEN Base ELSE IoLoops[next_]
NextIndex == IF numThreads_ = 0 THEN next_ ELSE (next_ % numThreads_) + 1

NewConnection ==
    /\ Accepting
    /\ LET c == Head(backlog)
       IN  /\ \E f \in FreeFds :
                conn' = [conn EXCEPT ![c] =
                           IF NextLoop = Base THEN ConnectEstablished(TcpConnection(Base, f))
                           ELSE TcpConnection(NextLoop, f)]
           /\ connections_' = connections_ \cup {c}
           /\ \/ NextLoop = Base /\ UNCHANGED pendingFunctors_
              \/ NextLoop # Base /\ QueueInLoop(NextLoop, Functor("established", c))
    /\ next_' = NextIndex
    /\ UNCHANGED <<numThreads_, net>>

\* EMFILE: the connection is accepted on the reserved descriptor and closed.
AcceptEmfileNoReserve ==  \* mutant: no reserved descriptor, the connection stays
    /\ pc[Base] = "events" /\ acceptActive /\ FreeFds = {}
    /\ acceptActive' = FALSE
    /\ UNCHANGED <<serverVars, conn, pc, activeChannels_, functors, done, pendingFunctors_, netVars,
                   histVars>>

AcceptEmfile ==
    /\ Accepting
    /\ FreeFds = {}
    /\ net' = [net EXCEPT ![Head(backlog)].peer = "refused"]
    /\ UNCHANGED <<serverVars, conn, pendingFunctors_>>

-----------------------------------------------------------------------------
(* Peers: a web server that sends the next request after the last answer.    *)

Served(c) == net[c].got = net[c].asked * ResponseUnits /\ ~net[c].half

Peer(c, n) ==
    /\ net' = [net EXCEPT ![c] = n]
    /\ UNCHANGED <<serverVars, conn, loopVars, pendingFunctors_, histVars>>

PeerConnect(c) ==
    /\ net[c].peer = "absent"
    /\ backlog' = Append(backlog, c)
    /\ Peer(c, [net[c] EXCEPT !.peer = "open"])

PeerSend(c) ==
    /\ net[c].peer = "open" /\ Served(c) /\ net[c].keep /\ net[c].asked < MaxRequests[c]
    /\ \E keep \in BOOLEAN, whole \in BOOLEAN :
         Peer(c, [net[c] EXCEPT !.asked = @ + 1, !.keep = keep, !.half = ~whole,
                                !.rx = @ \o (IF whole THEN <<Begin(keep), End>> ELSE <<Begin(keep)>>)])
    /\ UNCHANGED backlog

PeerSendRest(c) ==
    /\ net[c].peer = "open" /\ net[c].half
    /\ Peer(c, [net[c] EXCEPT !.half = FALSE, !.rx = Append(@, End)])
    /\ UNCHANGED backlog

PeerReceive(c) ==
    /\ net[c].peer = "open" /\ net[c].snd > 0
    /\ Peer(c, [net[c] EXCEPT !.got = @ + net[c].snd, !.snd = 0])
    /\ UNCHANGED backlog

PeerClose(c) ==
    /\ net[c].peer = "open"
    /\ Peer(c, [net[c] EXCEPT !.peer = "closed"])
    /\ UNCHANGED backlog

PeerReset(c) ==
    /\ net[c].peer \in {"open", "closed"}
    /\ Peer(c, [net[c] EXCEPT !.peer = "reset", !.err = TRUE, !.snd = 0])
    /\ UNCHANGED backlog

-----------------------------------------------------------------------------
Loop(l) ==
    \/ Poll(l) \/ EventsDone(l) \/ FunctorsDone(l)
    \/ RunEstablished(l) \/ RunRemove(l) \/ RunDestroy(l)
    \/ HandleMessage(l) \/ HandleEof(l) \/ HandleReadError(l) \/ HandleWritable(l)
    \/ (l = Base /\ (NewConnection \/ AcceptEmfile))

PeerStep(c) ==
    \/ PeerConnect(c) \/ PeerSend(c) \/ PeerSendRest(c)
    \/ PeerReceive(c) \/ PeerClose(c) \/ PeerReset(c)

Next == (\E l \in Loops : Loop(l)) \/ (\E c \in Conns : PeerStep(c))

Spec == Init /\ [][Next]_vars

\* Every loop thread is scheduled; peers read what they are sent.
FairSpec ==
    /\ Spec
    /\ \A l \in Loops : WF_vars(Loop(l))
    /\ \A c \in Conns : WF_vars(PeerReceive(c))

-----------------------------------------------------------------------------
(* Properties. *)

States == {"none", "kConnecting", "kConnected", "kDisconnecting", "kDisconnected"}
Connections == [state_ : States, loop : Loops, fd : Fds \cup {0}, reading : BOOLEAN,
                writing : BOOLEAN, index : {"kNew", "kAdded", "kDeleted"},
                outputBuffer_ : Nat, keepConn_ : BOOLEAN]
Sockets == [peer : {"absent", "open", "closed", "reset", "refused"},
            rx : Seq({Begin(TRUE), Begin(FALSE), End}), sent : Nat, snd : 0 .. SndBuf,
            err : BOOLEAN, wshut : BOOLEAN, asked : Nat, half : BOOLEAN, keep : BOOLEAN, got : Nat]
Functors == [op : {"established", "remove", "destroy"}, conn : Conns]

TypeOK ==
    /\ connections_ \in SUBSET Conns
    /\ numThreads_ \in ThreadNums /\ next_ \in {1} \cup 1 .. numThreads_
    /\ conn \in [Conns -> Connections]
    /\ pc \in [Loops -> {"poll", "events", "functors"}]
    /\ activeChannels_ \in
         [Loops -> SUBSET [conn : Conns, err : BOOLEAN, in : BOOLEAN, out : BOOLEAN]]
    /\ acceptActive \in BOOLEAN
    /\ pendingFunctors_ \in [Loops -> Seq(Functors)] /\ functors \in [Loops -> Seq(Functors)]
    /\ done \in [Loops -> Nat] /\ \A l \in Loops : done[l] \in 0 .. Len(functors[l])
    /\ net \in [Conns -> Sockets]
    /\ backlog \in Seq(Conns)
    /\ produced \in [Conns -> Nat]
    /\ fault \in SUBSET Conns

\* The functors of loop l that are still to run.
ToRun(l) == SubSeq(functors[l], done[l] + 1, Len(functors[l])) \o pendingFunctors_[l]
Waiting(op) == UNION {{<<l, i>> : i \in {j \in DOMAIN ToRun(l) : ToRun(l)[j].op = op}} : l \in Loops}
WaitingConn(w) == ToRun(w[1])[w[2]].conn

\* The assertions of the destructors ~TcpConnection and ~Channel: the last
\* shared_ptr goes only when the connection is down and its channel is out of
\* the poller, in whichever thread that happens.
DestroyedClean ==
    \A c \in Conns : conn[c].state_ # "none" /\ ~Alive(c) =>
        conn[c].state_ = "kDisconnected" /\ conn[c].index = "kNew"

\* A poller and a list of active channels hold channels of living, undisconnected
\* connections of their own loop only, and no two channels of one poller have
\* the same descriptor, also when numbers are reused at once.
ChannelsValid ==
    /\ \A l \in Loops : \A a \in activeChannels_[l] :
          /\ Alive(a.conn) /\ conn[a.conn].loop = l
          /\ conn[a.conn].state_ \in {"kConnected", "kDisconnecting"}
    /\ \A c, d \in Conns : c # d /\ conn[c].index # "kNew" /\ conn[d].index # "kNew" =>
          conn[c].fd # conn[d].fd

\* The way down is taken once: a removal finds its connection in the map and a
\* destruction finds it out of the map with a quiet channel (the assertions of
\* removeConnectionInLoop and Channel::remove), and neither is queued twice.
RemovedOnce ==
    /\ \A w \in Waiting("remove") :
          WaitingConn(w) \in connections_ /\ conn[WaitingConn(w)].state_ = "kDisconnected"
    /\ \A w \in Waiting("destroy") :
          /\ WaitingConn(w) \notin connections_
          /\ conn[WaitingConn(w)].index = "kDeleted"
          /\ ~conn[WaitingConn(w)].reading /\ ~conn[WaitingConn(w)].writing
    /\ \A v, w \in Waiting("remove") \cup Waiting("destroy") :
          WaitingConn(v) = WaitingConn(w) => v = w

\* The life of a connection across its two loops, with its descriptor reused at
\* once: every assertion on the way down holds.
WayDownClean == TypeOK /\ DestroyedClean /\ ChannelsValid /\ RemovedOnce

\* SHUT_WR is sent only after every unit of every response was given to the
\* socket: a connection that is not kept is never closed in the middle of an
\* answer (unless the peer's reset made sendInLoop give up).
ShutdownAfterOutput ==
    \A c \in Conns : net[c].wshut /\ c \notin fault /\ conn[c].state_ = "kDisconnecting" =>
        net[c].sent = produced[c]

\* Nothing gets stuck: output waits only with POLLOUT asked for, and a
\* connection that is to be shut down and has nothing to write is shut down.
OutputMoves ==
    \A c \in Conns : conn[c].state_ \in {"kConnected", "kDisconnecting"} =>
        /\ conn[c].outputBuffer_ > 0 => conn[c].writing
        /\ conn[c].state_ = "kDisconnecting" /\ ~conn[c].writing => net[c].wshut

\* shutdown() behind buffered output neither cuts the answer nor is forgotten.
OutputComplete == ShutdownAfterOutput /\ OutputMoves

\* A connection whose peer is gone is destroyed.
GoneIsFreed ==
    \A c \in Conns :
        (conn[c].state_ # "none" /\ net[c].peer \in {"closed", "reset"}) ~> ~Alive(c)

\* A complete request of a peer that stays is answered in full.
RequestAnswered ==
    \A c \in Conns : \A k \in 1 .. MaxRequests[c] :
        (net[c].asked = k /\ ~net[c].half) ~>
            (net[c].got >= k * ResponseUnits \/ net[c].peer # "open")

\* A connection leaves the accept queue, also when the process has run out of
\* descriptors.
BacklogDrains ==
    \A c \in Conns : (\E i \in DOMAIN backlog : backlog[i] = c) ~>
                      (\A i \in DOMAIN backlog : backlog[i] # c)
=============================================================================
