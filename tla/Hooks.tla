-------------------------------- MODULE Hooks --------------------------------
(***************************************************************************)
(* libco's hooked system calls (cocgi/libco/co_hook_sys_call.cpp).  In a   *)
(* coroutine that called co_enable_hook_sys, a socket that looks blocking  *)
(* to its user is non-blocking to the kernel, and a call that cannot go on *)
(* suspends the coroutine in poll() instead of blocking the thread.  What  *)
(* the user asked for is kept in a table indexed by descriptor number,     *)
(* numbers the kernel reuses.                                              *)
(*                                                                         *)
(* A step runs from the start of a call, or the return of a poll inside    *)
(* it, to its end or to the next poll.  poll() returns with an event or    *)
(* when its time is over (Libco), so it may return at any time.            *)
(***************************************************************************)
EXTENDS Naturals, FiniteSets, FiniteSetsExt

CONSTANTS
    Cos,       \* coroutines of the thread
    Hooked,    \* those that called co_enable_hook_sys, as both routines of cocgi do
    None,
    MaxFd,     \* bound: descriptors 0..MaxFd, within g_rpchook_socket_fd
    SndBuf,    \* bytes the kernel buffers for sending, on each connection
    MaxWrite,  \* bound: nbyte of one write
    MaxBytes   \* bound: bytes written to one descriptor while it is open

Fds == 0 .. MaxFd

VARIABLES
    g_rpchook_socket_fd,  \* [Fds -> rpchook_t or None]
    \* the kernel's side
    user,        \* the coroutine that has the descriptor open, or None
    O_NONBLOCK,  \* descriptors with the flag set in the kernel
    readable,    \* descriptors with bytes to read
    buffered,    \* [Fds -> bytes not yet taken by the peer]
    conn,        \* [Fds -> {"idle", "connecting", "up", "failed"}]
    \* coroutines
    call,        \* [Cos -> the call a coroutine is suspended or blocked in, or None]
    \* history
    asked,       \* what a hooked user asked of the open descriptor
    raw,         \* descriptors from co_accept whose flags were never set
    taken, told  \* bytes the kernel took, bytes the calls reported

kernelVars == <<user, O_NONBLOCK, readable, buffered, conn>>
vars == <<g_rpchook_socket_fd, kernelVars, call, asked, raw, taken, told>>

rpchook_t == [nonblock : BOOLEAN, timeouts : {"default", "set"}]

Call == [op : {"read", "write", "send", "sendto", "connect"}, fd : Fds,
         in : {"poll", "kernel"}, nbyte : 0 .. MaxWrite, done : 0 .. MaxWrite, tries : 0 .. 3]

\* None is no coroutine, no entry and no call.
ASSUME HooksAssumption ==
    /\ Hooked \subseteq Cos /\ None \notin Cos /\ None \notin rpchook_t /\ None \notin Call
    /\ MaxFd \in Nat /\ SndBuf \in Nat /\ MaxWrite \in Nat \ {0} /\ MaxBytes \in Nat

TypeOK ==
    /\ g_rpchook_socket_fd \in [Fds -> rpchook_t \cup {None}]
    /\ user \in [Fds -> Cos \cup {None}]
    /\ O_NONBLOCK \subseteq Fds /\ readable \subseteq Fds /\ raw \subseteq Fds
    /\ buffered \in [Fds -> 0 .. SndBuf]
    /\ conn \in [Fds -> {"idle", "connecting", "up", "failed"}]
    /\ call \in [Cos -> Call \cup {None}]
    /\ asked \in [Fds -> rpchook_t]
    /\ taken \in [Fds -> 0 .. MaxBytes] /\ told \in [Fds -> 0 .. MaxBytes]

Fresh == [nonblock |-> FALSE, timeouts |-> "default"]

Init ==
    /\ g_rpchook_socket_fd = [fd \in Fds |-> None]
    /\ user = [fd \in Fds |-> None]
    /\ O_NONBLOCK = {} /\ readable = {} /\ raw = {}
    /\ buffered = [fd \in Fds |-> 0]
    /\ conn = [fd \in Fds |-> "idle"]
    /\ call = [co \in Cos |-> None]
    /\ asked = [fd \in Fds |-> Fresh]
    /\ taken = [fd \in Fds |-> 0] /\ told = [fd \in Fds |-> 0]

-----------------------------------------------------------------------------
(* The table.                                                               *)

get_by_fd(fd) == g_rpchook_socket_fd[fd]

alloc_by_fd(fd) == [g_rpchook_socket_fd EXCEPT ![fd] = Fresh]

free_by_fdNot(fd) == g_rpchook_socket_fd

free_by_fd(fd) == [g_rpchook_socket_fd EXCEPT ![fd] = None]

\* The call is made as if there were no hooks.
Direct(co, fd) ==
    \/ co \notin Hooked
    \/ get_by_fd(fd) = None
    \/ get_by_fd(fd).nonblock

-----------------------------------------------------------------------------
(* The kernel.                                                              *)

ThreadSleeps == \E co \in Cos : call[co] # None /\ call[co].in = "kernel"

\* The thread runs, and co is not inside a call.
Runs(co) == call[co] = None /\ ~ThreadSleeps

\* The lowest free number, which accept and socket return.
NewFd == Min({fd \in Fds : user[fd] = None})

CanOpen(co) == Runs(co) /\ \E fd \in Fds : user[fd] = None

Opened(co, state) ==
    /\ user' = [user EXCEPT ![NewFd] = co]
    /\ buffered' = [buffered EXCEPT ![NewFd] = 0]
    /\ conn' = [conn EXCEPT ![NewFd] = state]
    /\ readable' = readable \ {NewFd}
    /\ asked' = [asked EXCEPT ![NewFd] = Fresh]
    /\ taken' = [taken EXCEPT ![NewFd] = 0] /\ told' = [told EXCEPT ![NewFd] = 0]
    /\ UNCHANGED call

\* What write() of n bytes can take now.
Room(fd, n) == IF conn[fd] # "up" THEN 0 ELSE Min({n, SndBuf - buffered[fd]})

WouldBlock(fd, n) == conn[fd] = "up" /\ Room(fd, n) < n

Take(fd, n) ==
    /\ buffered' = [buffered EXCEPT ![fd] = @ + n]
    /\ taken' = [taken EXCEPT ![fd] = @ + n]

-----------------------------------------------------------------------------
(* The hooked calls.                                                        *)

\* The kernel's flag after fcntl(fd, F_SETFL, ...) in co; lp is fd's entry.
KernelFlagAsAsked(co, lp, nonblock) == nonblock

KernelFlag(co, lp, nonblock) == nonblock \/ (co \in Hooked /\ lp # None)

\* A hooked socket() enters the descriptor and sets its flags to what they are,
\* which makes it non-blocking in the kernel only.
socket(co) ==
    /\ CanOpen(co)
    /\ Opened(co, "idle")
    /\ g_rpchook_socket_fd' = IF co \in Hooked THEN alloc_by_fd(NewFd) ELSE g_rpchook_socket_fd
    /\ O_NONBLOCK' = IF KernelFlag(co, g_rpchook_socket_fd'[NewFd], FALSE)
                     THEN O_NONBLOCK \cup {NewFd} ELSE O_NONBLOCK \ {NewFd}
    /\ raw' = raw \ {NewFd}

\* co_accept enters the descriptor and leaves its flags alone.
co_accept(co) ==
    /\ co \in Hooked /\ CanOpen(co)
    /\ Opened(co, "up")
    /\ g_rpchook_socket_fd' = alloc_by_fd(NewFd)
    /\ O_NONBLOCK' = O_NONBLOCK \ {NewFd}
    /\ raw' = raw \cup {NewFd}

\* fcntl(fd, F_SETFL, ...): the kernel's flag and the user's.
fcntl(co, fd, nonblock) ==
    /\ Runs(co) /\ user[fd] = co
    /\ O_NONBLOCK' = IF KernelFlag(co, get_by_fd(fd), nonblock)
                     THEN O_NONBLOCK \cup {fd} ELSE O_NONBLOCK \ {fd}
    /\ g_rpchook_socket_fd' = IF get_by_fd(fd) = None THEN g_rpchook_socket_fd
                              ELSE [g_rpchook_socket_fd EXCEPT ![fd].nonblock = nonblock]
    /\ asked' = IF co \in Hooked THEN [asked EXCEPT ![fd].nonblock = nonblock] ELSE asked
    /\ raw' = raw \ {fd}
    /\ UNCHANGED <<user, readable, buffered, conn, call, taken, told>>

\* SO_RCVTIMEO and SO_SNDTIMEO; without hooks only the kernel is told.
setsockopt(co, fd) ==
    /\ co \in Hooked /\ Runs(co) /\ user[fd] = co
    /\ g_rpchook_socket_fd' = IF get_by_fd(fd) = None THEN g_rpchook_socket_fd
                              ELSE [g_rpchook_socket_fd EXCEPT ![fd].timeouts = "set"]
    /\ asked' = [asked EXCEPT ![fd].timeouts = "set"]
    /\ UNCHANGED <<kernelVars, call, raw, taken, told>>

close(co, fd) ==
    /\ Runs(co) /\ user[fd] = co
    /\ g_rpchook_socket_fd' = IF co \in Hooked THEN free_by_fd(fd) ELSE g_rpchook_socket_fd
    /\ user' = [user EXCEPT ![fd] = None]
    /\ O_NONBLOCK' = O_NONBLOCK \ {fd} /\ raw' = raw \ {fd} /\ readable' = readable \ {fd}
    /\ buffered' = [buffered EXCEPT ![fd] = 0]
    /\ conn' = [conn EXCEPT ![fd] = "idle"]
    /\ asked' = [asked EXCEPT ![fd] = Fresh]
    /\ taken' = [taken EXCEPT ![fd] = 0] /\ told' = [told EXCEPT ![fd] = 0]
    /\ UNCHANGED call

Enter(co, op, fd, in, n, done, tries) ==
    call' = [call EXCEPT ![co] = [op |-> op, fd |-> fd, in |-> in, nbyte |-> n,
                                  done |-> done, tries |-> tries]]

\* The system call read: bytes, an error or, on an idle connection, EAGAIN or a
\* thread that sleeps in the kernel.
SysRead(co, fd) ==
    /\ IF fd \notin readable /\ conn[fd] = "up" /\ fd \notin O_NONBLOCK
       THEN Enter(co, "read", fd, "kernel", 0, 0, 0) /\ UNCHANGED readable
       ELSE /\ call' = [call EXCEPT ![co] = None]
            /\ readable' = readable \ {fd}
    /\ UNCHANGED <<g_rpchook_socket_fd, user, O_NONBLOCK, buffered, conn, asked, raw,
                   taken, told>>

\* read, recv and recvfrom: poll once, then try once.
StartRead(co, fd) ==
    /\ Runs(co) /\ user[fd] = co
    /\ IF Direct(co, fd) THEN SysRead(co, fd)
       ELSE /\ Enter(co, "read", fd, "poll", 0, 0, 0)
            /\ UNCHANGED <<g_rpchook_socket_fd, kernelVars, asked, raw, taken, told>>

read(co) == \E fd \in Fds : StartRead(co, fd)
recv(co) == \E fd \in Fds : StartRead(co, fd)
recvfrom(co) == \E fd \in Fds : StartRead(co, fd)

PolledRead(co) ==
    /\ call[co] # None /\ call[co].op = "read" /\ call[co].in = "poll"
    /\ ~ThreadSleeps
    /\ SysRead(co, call[co].fd)

ReturnsLast(done, k) == k

\* What the loop has written in all its calls.
Returns(done, k) == done + k

\* The system call write of the bytes from done on; if some are left the caller
\* returns what it has, or waits in poll() or in the kernel and tries again.
Written(co, fd, n, done, op, rest) ==
    LET k == Room(fd, n - done) IN
    /\ Take(fd, k)
    /\ IF rest # "return" /\ done + k < n
       THEN Enter(co, op, fd, rest, n, done + k, 0) /\ UNCHANGED told
       ELSE /\ call' = [call EXCEPT ![co] = None]
            /\ told' = [told EXCEPT ![fd] = @ + Returns(done, k)]
    /\ UNCHANGED <<g_rpchook_socket_fd, user, O_NONBLOCK, readable, conn, asked, raw>>

\* A blocking descriptor keeps the thread in the kernel until all is taken.
Sleeps(fd, n) == WouldBlock(fd, n) /\ fd \notin O_NONBLOCK

\* write and send wait whatever the first call returned, sendto only after EAGAIN.
FirstWait(op, fd, n) ==
    op = "sendto" => conn[fd] = "up" /\ Room(fd, n) = 0

StartWrite(co, fd, n, op) ==
    /\ Runs(co) /\ user[fd] = co /\ told[fd] + n <= MaxBytes
    /\ Written(co, fd, n, 0, op,
               IF Sleeps(fd, n) THEN "kernel"
               ELSE IF ~Direct(co, fd) /\ FirstWait(op, fd, n) THEN "poll" ELSE "return")

write(co) == \E fd \in Fds, n \in 1 .. MaxWrite : StartWrite(co, fd, n, "write")
send(co) == \E fd \in Fds, n \in 1 .. MaxWrite : StartWrite(co, fd, n, "send")
sendto(co) == \E fd \in Fds, n \in 1 .. MaxWrite : StartWrite(co, fd, n, "sendto")

TriesAgainAlways(co, fd) == TRUE

\* The loop of write and send ends at the first call that takes nothing.
TriesAgain(co, fd) == Room(fd, call[co].nbyte - call[co].done) > 0

PolledWrite(co) ==
    /\ call[co] # None /\ call[co].op \in {"write", "send", "sendto"}
    /\ call[co].in = "poll"
    /\ ~ThreadSleeps
    /\ LET fd == call[co].fd IN
       Written(co, fd, call[co].nbyte, call[co].done, call[co].op,
               IF Sleeps(fd, call[co].nbyte - call[co].done) THEN "kernel"
               ELSE IF call[co].op # "sendto" /\ TriesAgain(co, fd) THEN "poll"
               ELSE "return")

\* connect: one call, then at most three polls of 25 seconds.
connect(co, fd) ==
    /\ Runs(co) /\ user[fd] = co /\ conn[fd] = "idle"
    /\ conn' = [conn EXCEPT ![fd] = "connecting"]
    /\ IF Direct(co, fd)
       THEN IF fd \in O_NONBLOCK THEN UNCHANGED call
            ELSE Enter(co, "connect", fd, "kernel", 0, 0, 0)
       ELSE Enter(co, "connect", fd, "poll", 0, 0, 1)
    /\ UNCHANGED <<g_rpchook_socket_fd, user, O_NONBLOCK, readable, buffered, asked, raw,
                   taken, told>>

\* What connect makes of its last poll: the kernel raises POLLOUT both when the
\* connection is up and when it has failed.
ConnectResult(fd) == IF conn[fd] = "connecting" THEN "timed out" ELSE "connected"

MorePolls(tries) == tries < 3

\* A poll of connect returns with an event or, three times at most, without.
PolledConnect(co) ==
    /\ call[co] # None /\ call[co].op = "connect" /\ call[co].in = "poll"
    /\ ~ThreadSleeps
    /\ LET c == call[co] IN
       call' = [call EXCEPT ![co] =
                  IF ConnectResult(c.fd) = "timed out" /\ MorePolls(c.tries)
                  THEN [c EXCEPT !.tries = @ + 1] ELSE None]
    /\ UNCHANGED <<g_rpchook_socket_fd, kernelVars, asked, raw, taken, told>>

-----------------------------------------------------------------------------
(* The other end, and the kernel waking the thread.                         *)

Woken(co) ==
    /\ call[co] # None /\ call[co].in = "kernel"
    /\ LET fd == call[co].fd IN
       \/ /\ call[co].op = "read" /\ (fd \in readable \/ conn[fd] # "up")
          /\ SysRead(co, fd)
       \/ /\ call[co].op = "connect" /\ conn[fd] # "connecting"
          /\ call' = [call EXCEPT ![co] = None]
          /\ UNCHANGED <<g_rpchook_socket_fd, kernelVars, asked, raw, taken, told>>
       \/ /\ call[co].op \in {"write", "send", "sendto"}
          /\ Room(fd, call[co].nbyte - call[co].done) > 0 \/ conn[fd] # "up"
          /\ Written(co, fd, call[co].nbyte, call[co].done, call[co].op,
                     IF conn[fd] = "up" THEN "kernel" ELSE "return")

Peer(fd) ==
    /\ user[fd] # None
    /\ \/ /\ conn[fd] = "connecting"
          /\ conn' = [conn EXCEPT ![fd] = "up"] /\ UNCHANGED <<readable, buffered>>
       \/ /\ conn[fd] \in {"connecting", "up"}
          /\ conn' = [conn EXCEPT ![fd] = "failed"] /\ UNCHANGED <<readable, buffered>>
       \/ /\ conn[fd] = "up" /\ fd \notin readable
          /\ readable' = readable \cup {fd} /\ UNCHANGED <<conn, buffered>>
       \/ /\ conn[fd] = "up" /\ buffered[fd] > 0
          /\ buffered' = [buffered EXCEPT ![fd] = @ - 1] /\ UNCHANGED <<conn, readable>>
    /\ UNCHANGED <<g_rpchook_socket_fd, user, O_NONBLOCK, call, asked, raw, taken, told>>

Polled(co) == PolledRead(co) \/ PolledWrite(co) \/ PolledConnect(co)

Next ==
    \/ \E co \in Cos :
          \/ socket(co) \/ co_accept(co)
          \/ read(co) \/ recv(co) \/ recvfrom(co)
          \/ write(co) \/ send(co) \/ sendto(co)
          \/ Polled(co) \/ Woken(co)
          \/ \E fd \in Fds : close(co, fd) \/ connect(co, fd) \/ setsockopt(co, fd)
                             \/ \E nonblock \in BOOLEAN : fcntl(co, fd, nonblock)
    \/ \E fd \in Fds : Peer(fd)

Spec == Init /\ [][Next]_vars

\* The loop comes back to a suspended coroutine (Libco: poll has a timeout).
FairSpec == Spec /\ \A co \in Cos : WF_vars(Polled(co))

-----------------------------------------------------------------------------
(* Properties.                                                              *)

\* An entry belongs to the descriptor that is open now and says what its user
\* asked for: nothing of a descriptor that had the same number before, and a
\* hooked coroutine finds one for every socket it opened.
EntryMatches ==
    \A fd \in Fds :
        /\ get_by_fd(fd) # None => user[fd] \in Hooked /\ get_by_fd(fd) = asked[fd]
        /\ user[fd] \in Hooked => get_by_fd(fd) # None

\* The table after any sequence of opening, flagging, closing and reusing.
TableExact == TypeOK /\ EntryMatches

\* A hooked coroutine never puts the thread to sleep in the kernel, except on a
\* descriptor of co_accept whose flags it has not set.
NeverSleeps ==
    \A co \in Hooked : call[co] # None /\ call[co].in = "kernel" => call[co].fd \in raw

\* The bytes that the call on fd has written so far.
InCall(fd) == user[fd] # None /\ call[user[fd]] # None /\ call[user[fd]].fd = fd
Unreported(fd) == IF InCall(fd) THEN call[user[fd]].done ELSE 0

\* write, send and sendto report exactly the bytes the kernel took, however
\* many polls, partial writes and errors there were in between.
WriteAccounted == \A fd \in Fds : taken[fd] = told[fd] + Unreported(fd)

\* A hooked call that waits returns in the end, no retry goes on forever, as
\* long as no call without hooks keeps the thread asleep in the kernel.
SuspendedReturns ==
    \A co \in Hooked : call[co] # None ~> call[co] = None \/ ThreadSleeps

\* connect returns success ("connect succ") only if there is a connection.
ConnectHonest ==
    [][\A co \in Hooked : call[co] # None /\ call[co].op = "connect" /\ call'[co] = None =>
          (ConnectResult(call[co].fd) = "connected" => conn[call[co].fd] = "up")]_vars
=============================================================================
