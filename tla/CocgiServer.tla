----------------------------- MODULE CocgiServer -----------------------------
(***************************************************************************)
(* One worker process of cocgi: accept_routine, the stack g_readwrite of   *)
(* idle coroutines and the readwrite_routine coroutines that each serve    *)
(* one FastCGI connection (cocgi/main.cpp, cocgi/fastcgi.cpp).             *)
(*                                                                         *)
(* Coroutines are cooperative: the code between two yield points (co_poll, *)
(* poll, co_yield_ct) runs without interleaving with another coroutine, so *)
(* it is one action.  The peers (the web server's connections) and the     *)
(* sibling worker processes that share the listening socket run            *)
(* concurrently with it.                                                   *)
(*                                                                         *)
(* Payloads are abstracted: a request is a "begin" unit (BEGIN_REQUEST     *)
(* with its flags, and all that follows it) and an "end" unit (the empty   *)
(* STDIN record); a response is RespLen units of which the socket takes    *)
(* at least SndBuf before write() can fail with EAGAIN.                    *)
(***************************************************************************)
EXTENDS Integers, Sequences, FiniteSets

CONSTANTS
    Tasks,       \* the coroutines created at start (TASK_COUNT of them)
    Conns,       \* connections peers may open, each once
    Fds,         \* file descriptors available for accepted connections
    NoFd,        \* the value -1 of task_t.fd
    NoConn,      \* a descriptor that is not open
    MaxRecycle,  \* MAX_RECYCLE_COUNT
    RespLen,     \* units of a response
    SndBuf,      \* units an empty socket send buffer takes
    ReadCap,     \* units one readFd() takes at most
    Flags,       \* flags bytes the peers put into BEGIN_REQUEST
    Fragmented,  \* whether a request may arrive in two pieces
    MaxBacklog,  \* bound: length of the accept queue
    MaxRequests  \* bound: requests per connection

ASSUME ConstantsAssumption ==
    /\ IsFiniteSet(Tasks) /\ IsFiniteSet(Conns) /\ IsFiniteSet(Fds)
    /\ NoFd \notin Fds
    /\ NoConn \notin Conns
    /\ MaxRecycle \in Nat
    /\ RespLen \in Nat \ {0}
    /\ SndBuf \in Nat \ {0}
    /\ ReadCap \in Nat \ {0}
    /\ Flags \subseteq 0..255
    /\ Fragmented \in BOOLEAN
    /\ MaxBacklog \in Nat
    /\ MaxRequests \in Nat

VARIABLES
    \* the worker process
    alive,       \* FALSE once a signal has killed the process
    errno,       \* the thread's errno, shared by all coroutines
    g_readwrite, \* stack of idle coroutines, top is the head
    acc,         \* accept_routine: "run", or yielded in "sleep" or "poll"
    fd,          \* per coroutine: the descriptor it serves
    recycle,     \* per coroutine: consecutive reads without data
    m_keepConn,  \* per coroutine: the codec's m_keepConn
    \* the kernel
    fdtab,       \* descriptor table: the connection behind a descriptor
    backlog,     \* accept queue of the listening socket
    st,          \* server side of a connection
    inq,         \* units received and not yet read
    \* the peers
    peer,        \* "none", "up" or "gone"
    phase,       \* "idle", "sending" or "waiting" for the response
    flags,       \* flags of the current request
    nreq,        \* requests started
    resp         \* how the current request was answered

procVars == <<alive, errno, g_readwrite, acc, fd, recycle, m_keepConn>>
kernelVars == <<fdtab, backlog, st, inq>>
peerVars == <<peer, phase, flags, nreq, resp>>
vars == <<procVars, kernelVars, peerVars>>

Unit == [type : {"begin", "end"}, flags : 0..255]
Begin(f) == [type |-> "begin", flags |-> f]
End == [type |-> "end", flags |-> 0]

TypeOK ==
    /\ alive \in BOOLEAN
    /\ errno \in {"none", "EAGAIN", "other"}
    /\ g_readwrite \in Seq(Tasks)
    /\ acc \in {"run", "sleep", "poll"}
    /\ fd \in [Tasks -> Fds \cup {NoFd}]
    /\ recycle \in [Tasks -> 0..MaxRecycle]
    /\ m_keepConn \in [Tasks -> BOOLEAN]
    /\ fdtab \in [Fds -> Conns \cup {NoConn}]
    /\ backlog \in Seq(Conns)
    /\ st \in [Conns -> {"none", "backlog", "open", "closed"}]
    /\ inq \in [Conns -> Seq(Unit)]
    /\ peer \in [Conns -> {"none", "up", "gone"}]
    /\ phase \in [Conns -> {"idle", "sending", "waiting"}]
    /\ flags \in [Conns -> 0..255]
    /\ nreq \in [Conns -> 0..MaxRequests]
    /\ resp \in [Conns -> {"none", "cut", "whole"}]

-----------------------------------------------------------------------------
(***************************************************************************)
(* main(): every coroutine is created with fd -1 and resumed once, so it   *)
(* has pushed itself onto g_readwrite and yielded; then accept_routine     *)
(* runs.                                                                   *)
(***************************************************************************)
StartStack(s) ==
    /\ \A t \in Tasks : \E i \in DOMAIN s : s[i] = t
    /\ \A i, j \in DOMAIN s : s[i] = s[j] => i = j

Init ==
    /\ alive = TRUE
    /\ errno = "none"
    /\ g_readwrite \in [1..Cardinality(Tasks) -> Tasks]
    /\ StartStack(g_readwrite)
    /\ acc = "run"
    /\ fd = [t \in Tasks |-> NoFd]
    /\ recycle = [t \in Tasks |-> 0]
    /\ m_keepConn = [t \in Tasks |-> FALSE]
    /\ fdtab = [x \in Fds |-> NoConn]
    /\ backlog = <<>>
    /\ st = [k \in Conns |-> "none"]
    /\ inq = [k \in Conns |-> <<>>]
    /\ peer = [k \in Conns |-> "none"]
    /\ phase = [k \in Conns |-> "idle"]
    /\ flags = [k \in Conns |-> 0]
    /\ nreq = [k \in Conns |-> 0]
    /\ resp = [k \in Conns |-> "none"]

-----------------------------------------------------------------------------
(***************************************************************************)
(* accept_routine.  It runs until it yields; while acc = "run" no other    *)
(* coroutine runs.                                                         *)
(***************************************************************************)

\* No idle coroutine: sleep 10 ms in poll() and look again.
AcceptSleep ==
    /\ alive
    /\ g_readwrite = <<>>
    /\ acc' = "sleep"
    /\ UNCHANGED <<alive, errno, g_readwrite, fd, recycle, m_keepConn>>
    /\ UNCHANGED <<kernelVars, peerVars>>

\* co_accept() fails: nothing to accept, or no descriptor or memory for it, in
\* this process or in the system.  Wait up to 1000 ms for the listening socket.
AcceptFails ==
    /\ alive
    /\ g_readwrite # <<>>
    /\ \/ backlog = <<>> /\ errno' = "EAGAIN"
       \/ backlog # <<>> /\ errno' = "other"
    /\ acc' = "poll"
    /\ UNCHANGED <<alive, g_readwrite, fd, recycle, m_keepConn>>
    /\ UNCHANGED <<kernelVars, peerVars>>

\* A connection is accepted and handed to the coroutine on top of the stack,
\* which is resumed at once, takes the descriptor, starts a new codec and
\* yields in its first co_poll().  accept_routine then goes on.
HandOffNoPop(t, x, k) ==  \* mutant: the pop() is missing
    /\ UNCHANGED g_readwrite
    /\ fd' = [fd EXCEPT ![t] = x]
    /\ recycle' = [recycle EXCEPT ![t] = 0]
    /\ m_keepConn' = [m_keepConn EXCEPT ![t] = FALSE]
    /\ fdtab' = [fdtab EXCEPT ![x] = k]
    /\ st' = [st EXCEPT ![k] = "open"]
    /\ backlog' = Tail(backlog)

HandOff(t, x, k) ==
    /\ g_readwrite' = Tail(g_readwrite)
    /\ fd' = [fd EXCEPT ![t] = x]
    /\ recycle' = [recycle EXCEPT ![t] = 0]
    /\ m_keepConn' = [m_keepConn EXCEPT ![t] = FALSE]
    /\ fdtab' = [fdtab EXCEPT ![x] = k]
    /\ st' = [st EXCEPT ![k] = "open"]
    /\ backlog' = Tail(backlog)

AcceptNotAgain ==  \* mutant: no second try after the wait for the listening socket
    /\ alive /\ acc = "run"
    /\ g_readwrite # <<>>
    /\ backlog # <<>>
    /\ \E x \in Fds :
          /\ fdtab[x] = NoConn
          /\ HandOff(Head(g_readwrite), x, Head(backlog))
    /\ acc' = "run"
    /\ UNCHANGED <<alive, errno, inq, peerVars>>

Accept ==
    /\ alive
    /\ g_readwrite # <<>>
    /\ backlog # <<>>
    /\ \E x \in Fds :
          /\ fdtab[x] = NoConn
          /\ HandOff(Head(g_readwrite), x, Head(backlog))
    /\ acc' = "run"
    /\ UNCHANGED <<alive, errno, inq, peerVars>>

accept_routine == AcceptSleep \/ AcceptFails \/ Accept

-----------------------------------------------------------------------------
(***************************************************************************)
(* readwrite_routine: from the return of co_poll() (an event, or its 1000  *)
(* ms timeout) through readData() to the next yield.                       *)
(***************************************************************************)

\* close(fd), leave the inner loop, push the task and yield.
CloseLeaks(t) ==  \* mutant: break without close(fd)
    /\ UNCHANGED <<st, fdtab>>
    /\ fd' = [fd EXCEPT ![t] = NoFd]
    /\ g_readwrite' = <<t>> \o g_readwrite
    /\ recycle' = [recycle EXCEPT ![t] = 0]

Close(t) ==
    /\ st' = [st EXCEPT ![fdtab[fd[t]]] = "closed"]
    /\ fdtab' = [fdtab EXCEPT ![fd[t]] = NoConn]
    /\ fd' = [fd EXCEPT ![t] = NoFd]
    /\ g_readwrite' = <<t>> \o g_readwrite
    /\ recycle' = [recycle EXCEPT ![t] = 0]

\* readData returned ERR_OK: the count starts again, back to co_poll().
ContinueOk(t) ==
    /\ recycle' = [recycle EXCEPT ![t] = 0]
    /\ UNCHANGED <<st, fdtab, fd, g_readwrite>>

\* readData returned ERR_SOCKET_EAGAIN: if (recycle++ >= MAX_RECYCLE_COUNT).
ContinueEagainForever(t) ==  \* mutant: no bound on the empty reads
    /\ recycle' = [recycle EXCEPT ![t] = IF @ < MaxRecycle THEN @ + 1 ELSE @]
    /\ UNCHANGED <<st, fdtab, fd, g_readwrite>>

ContinueEagain(t) ==
    \/ /\ recycle[t] >= MaxRecycle
       /\ Close(t)
    \/ /\ recycle[t] < MaxRecycle
       /\ recycle' = [recycle EXCEPT ![t] = @ + 1]
       /\ UNCHANGED <<st, fdtab, fd, g_readwrite>>

\* onBeginRequest: m_keepConn = flags == kFcgiKeepConn.
KeepConn(f) == f = 1

\* parseFcgiPackage over the units read: m_keepConn and m_gotRequest.
ParsedKeepConnSticky(units, keep) ==  \* mutant: never reset to false
    keep \/ \E i \in DOMAIN units : units[i].type = "begin" /\ KeepConn(units[i].flags)

ParsedKeepConn(units, keep) ==
    IF \E i \in DOMAIN units : units[i].type = "begin"
    THEN \E i \in DOMAIN units :
            /\ units[i].type = "begin"
            /\ KeepConn(units[i].flags)
            /\ \A j \in DOMAIN units : units[j].type = "begin" => j <= i
    ELSE keep
GotRequest(units) == \E i \in DOMAIN units : units[i].type = "end"

\* The bytes one readv() takes from the socket, and what it leaves.
ReadableOne(k) == SubSeq(inq[k], 1, 1)  \* mutant: one record per read

Readable(k) == SubSeq(inq[k], 1, IF Len(inq[k]) < ReadCap THEN Len(inq[k]) ELSE ReadCap)
Unread(k) == SubSeq(inq[k], Len(Readable(k)) + 1, Len(inq[k]))

\* The units the write() loop of doRequest hands to the socket before write()
\* fails, when it does: the peer may read while the loop runs.
Written == {n \in 0..(RespLen - 1) : n >= SndBuf}

\* doRequest: the response is written to the end, or write() fails.
\*  - EAGAIN: the rest of the response is dropped;
\*  - another error, the peer having reset the connection: ERR_SOCKET_WRITE;
\*  - a write after the reset of a closed peer was seen: SIGPIPE (DieBySigpipe).

AnswerWhole(t, k, keep) ==
    /\ resp' = [resp EXCEPT ![k] = "whole"]
    /\ IF keep THEN ContinueOk(t) ELSE Close(t)
    /\ UNCHANGED errno

AnswerEagain(t, k) ==
    /\ Written # {}
    /\ resp' = [resp EXCEPT ![k] = "cut"]
    /\ errno' = "EAGAIN"
    /\ ContinueEagain(t)

AnswerError(t, k) ==
    /\ peer[k] = "gone"
    /\ resp' = [resp EXCEPT ![k] = "cut"]
    /\ errno' = "other"
    /\ Close(t)

\* readv() > 0 and the request is complete.
ServeRequest(t) ==
    /\ alive /\ acc # "run"
    /\ fd[t] # NoFd
    /\ LET k == fdtab[fd[t]]
           keep == ParsedKeepConn(Readable(k), m_keepConn[t])
       IN /\ inq[k] # <<>>
          /\ GotRequest(Readable(k))
          /\ inq' = [inq EXCEPT ![k] = Unread(k)]
          /\ m_keepConn' = [m_keepConn EXCEPT ![t] = keep]
          /\ \/ AnswerWhole(t, k, keep)
             \/ AnswerEagain(t, k)
             \/ AnswerError(t, k)
    /\ UNCHANGED <<alive, acc, backlog, peer, phase, flags, nreq>>

\* readv() > 0 and the request is not complete: readData falls through to
\* ERR_SOCKET_READ, and the connection is closed.
DropIncomplete(t) ==
    /\ alive /\ acc # "run"
    /\ fd[t] # NoFd
    /\ LET k == fdtab[fd[t]]
       IN /\ inq[k] # <<>>
          /\ ~GotRequest(Readable(k))
          /\ inq' = [inq EXCEPT ![k] = Unread(k)]
          /\ m_keepConn' = [m_keepConn EXCEPT ![t] = ParsedKeepConn(Readable(k), @)]
    /\ Close(t)
    /\ UNCHANGED <<alive, acc, errno, backlog, peerVars>>

\* readv() < 0 with EAGAIN: the 1000 ms timeout of co_poll() without data.
NothingToRead(t) ==
    /\ alive /\ acc # "run"
    /\ fd[t] # NoFd
    /\ inq[fdtab[fd[t]]] = <<>>
    /\ peer[fdtab[fd[t]]] = "up"
    /\ errno' = "EAGAIN"
    /\ ContinueEagain(t)
    /\ UNCHANGED <<alive, acc, m_keepConn, backlog, inq, peerVars>>

\* readv() = 0 sets no errno: what the last failing call of any coroutine left
\* there decides whether the end of the stream is taken for EAGAIN.
ReadEof(t) ==
    /\ alive /\ acc # "run"
    /\ fd[t] # NoFd
    /\ inq[fdtab[fd[t]]] = <<>>
    /\ peer[fdtab[fd[t]]] = "gone"
    /\ IF errno = "EAGAIN" THEN ContinueEagain(t) ELSE Close(t)
    /\ UNCHANGED <<alive, acc, errno, m_keepConn, backlog, inq, peerVars>>

\* readv() < 0 with ECONNRESET.
ReadError(t) ==
    /\ alive /\ acc # "run"
    /\ fd[t] # NoFd
    /\ inq[fdtab[fd[t]]] = <<>>
    /\ peer[fdtab[fd[t]]] = "gone"
    /\ errno' = "other"
    /\ Close(t)
    /\ UNCHANGED <<alive, acc, m_keepConn, backlog, inq, peerVars>>

\* A second write() of one response to a peer that has closed and answered the
\* first with a reset: nothing in cocgi ignores SIGPIPE, the process ends and
\* the kernel closes its descriptors.
DieBySigpipe(t) ==
    /\ alive /\ acc # "run"
    /\ fd[t] # NoFd
    /\ LET k == fdtab[fd[t]]
       IN /\ inq[k] # <<>>
          /\ GotRequest(Readable(k))
          /\ peer[k] = "gone"
          /\ Written # {}
    /\ alive' = FALSE
    /\ st' = [k \in Conns |-> IF st[k] = "open" THEN "closed" ELSE st[k]]
    /\ fdtab' = [x \in Fds |-> NoConn]
    /\ fd' = [c \in Tasks |-> NoFd]
    /\ g_readwrite' = <<>>
    /\ UNCHANGED <<acc, errno, recycle, m_keepConn, backlog, inq, peerVars>>

readwrite_routine(t) ==
    \/ ServeRequest(t) \/ DropIncomplete(t)
    \/ NothingToRead(t) \/ ReadEof(t) \/ ReadError(t)
    \/ DieBySigpipe(t)

-----------------------------------------------------------------------------
(***************************************************************************)
(* The environment: peers, and the sibling workers on the same listening   *)
(* socket.  A peer has one request in flight ("there is no concurrent      *)
(* requests of one connection", cocgi/fastcgi.h).                          *)
(***************************************************************************)
PeerConnect(k) ==
    /\ st[k] = "none"
    /\ Len(backlog) < MaxBacklog
    /\ st' = [st EXCEPT ![k] = "backlog"]
    /\ backlog' = Append(backlog, k)
    /\ peer' = [peer EXCEPT ![k] = "up"]
    /\ UNCHANGED <<procVars, fdtab, inq, phase, flags, nreq, resp>>

\* The peer starts a request; units arrive together, or the first alone.
PeerSend(k, f) ==
    /\ peer[k] = "up" /\ st[k] \in {"backlog", "open"}
    /\ phase[k] = "idle"
    /\ nreq[k] < MaxRequests
    /\ nreq' = [nreq EXCEPT ![k] = @ + 1]
    /\ flags' = [flags EXCEPT ![k] = f]
    /\ resp' = [resp EXCEPT ![k] = "none"]
    /\ \/ /\ inq' = [inq EXCEPT ![k] = @ \o <<Begin(f), End>>]
          /\ phase' = [phase EXCEPT ![k] = "waiting"]
       \/ /\ Fragmented
          /\ inq' = [inq EXCEPT ![k] = Append(@, Begin(f))]
          /\ phase' = [phase EXCEPT ![k] = "sending"]
    /\ UNCHANGED <<procVars, fdtab, backlog, st, peer>>

PeerSendRest(k) ==
    /\ peer[k] = "up" /\ st[k] \in {"backlog", "open"}
    /\ phase[k] = "sending"
    /\ inq' = [inq EXCEPT ![k] = Append(@, End)]
    /\ phase' = [phase EXCEPT ![k] = "waiting"]
    /\ UNCHANGED <<procVars, fdtab, backlog, st, peer, flags, nreq, resp>>

PeerReceive(k) ==
    /\ peer[k] = "up"
    /\ phase[k] = "waiting"
    /\ resp[k] = "whole"
    /\ phase' = [phase EXCEPT ![k] = "idle"]
    /\ UNCHANGED <<procVars, kernelVars, peer, flags, nreq, resp>>

PeerClose(k) ==
    /\ peer[k] = "up" /\ st[k] \in {"backlog", "open"}
    /\ peer' = [peer EXCEPT ![k] = "gone"]
    /\ UNCHANGED <<procVars, kernelVars, phase, flags, nreq, resp>>

\* Another worker process accepts the connection; it is not seen again here.
SiblingAccepts ==
    /\ backlog # <<>>
    /\ st' = [st EXCEPT ![Head(backlog)] = "closed"]
    /\ backlog' = Tail(backlog)
    /\ UNCHANGED <<procVars, fdtab, inq, peerVars>>

Environment ==
    \/ \E k \in Conns :
          \/ PeerConnect(k) \/ PeerSendRest(k) \/ PeerReceive(k) \/ PeerClose(k)
          \/ \E f \in Flags : PeerSend(k, f)
    \/ SiblingAccepts

Next ==
    \/ accept_routine
    \/ \E t \in Tasks : readwrite_routine(t)
    \/ Environment

\* co_eventloop runs for ever and every yield of a coroutine is bounded by a
\* timer (10 ms or 1000 ms), so every coroutine that can step does.  Nothing
\* is assumed of the peers.
Fairness ==
    /\ WF_vars(accept_routine)
    /\ \A t \in Tasks : WF_vars(readwrite_routine(t))

Spec == Init /\ [][Next]_vars
FairSpec == Spec /\ Fairness

-----------------------------------------------------------------------------
(***************************************************************************)
(* Properties.                                                             *)
(***************************************************************************)

\* The stack g_readwrite holds every idle coroutine exactly once and no busy
\* one: accept_routine never resumes a coroutine that is waiting in co_poll()
\* for its own connection (main.cpp, push at the loop head, top/pop in accept).
PoolExact ==
    alive =>
      /\ \A i, j \in DOMAIN g_readwrite : g_readwrite[i] = g_readwrite[j] => i = j
      /\ \A t \in Tasks : fd[t] = NoFd <=> \E i \in DOMAIN g_readwrite : g_readwrite[i] = t

\* "one Tcp Connection per Coroutine" (cocgi/fastcgi.h): every open descriptor
\* is served by exactly one coroutine, and every accepted connection is behind
\* exactly one descriptor until it is closed.  No descriptor leaks and none is
\* used after close().
FdOwned ==
    /\ \A x \in Fds : fdtab[x] # NoConn <=> \E t \in Tasks : fd[t] = x
    /\ \A t, u \in Tasks : fd[t] = fd[u] /\ fd[t] # NoFd => t = u
    /\ \A x, y \in Fds : fdtab[x] = fdtab[y] /\ fdtab[x] # NoConn => x = y
    /\ \A k \in Conns : st[k] = "open" <=> \E x \in Fds : fdtab[x] = k

\* Every connection the process has accepted is closed in the end: a peer that
\* stops sending, or whose end of stream is mistaken for EAGAIN because errno
\* is stale, holds a coroutine only until the recycle count is used up.
EventuallyClosed == \A k \in Conns : st[k] = "open" ~> st[k] = "closed"

\* A connection waiting in the accept queue is taken from it, although the
\* coroutines may all be busy when it arrives: coroutines come back to the
\* stack and accept_routine looks again.
BacklogServed == \A k \in Conns : st[k] = "backlog" ~> (st[k] # "backlog" \/ ~alive)

\* fastcgi.cpp, comment on FCGI_KEEP_CONN: "If zero, the application closes the
\* connection after responding to this request.  If not zero, the application
\* does not close the connection": each request decides for itself, also on a
\* connection that an earlier one had kept open.
KeepConnObeyed ==
    [][\A k \in Conns :
          resp[k] = "none" /\ resp'[k] = "whole"
            => st'[k] = (IF flags[k] % 2 = 1 THEN "open" ELSE "closed")]_vars

\* fastcgi.cpp, readData: of a live peer the server closes no connection while
\* a whole request is there to be read; but a SIGPIPE that another connection
\* raises ends them all.
WholeRequestAnswered ==
    [][\A k \in Conns :
          (st[k] = "open" /\ st'[k] = "closed" /\ peer[k] = "up" /\ GotRequest(inq[k]) /\ alive')
            => resp'[k] # "none"]_vars

\* The server does not close the connection of a live peer in the middle of a
\* request: what it has read of a request it keeps in its receive buffer and
\* answers, within the receive timeout.
NoRequestDropped ==
    [][\A k \in Conns :
          (st[k] = "open" /\ st'[k] = "closed" /\ peer[k] = "up" /\ phase[k] # "idle")
            => resp'[k] # "none"]_vars
=============================================================================
