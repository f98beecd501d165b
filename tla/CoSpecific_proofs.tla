-------------------------- MODULE CoSpecific_proofs --------------------------
(***************************************************************************)
(* The hooked system calls and the per-coroutine data, for any number of   *)
(* coroutines, descriptors and bytes: the table says what the user of an   *)
(* open descriptor asked for, a hooked coroutine does not put the thread   *)
(* to sleep, writes report what the kernel took, and nobody reads another  *)
(* coroutine's environment or host buffer.                                 *)
(***************************************************************************)
EXTENDS CoSpecific, WellFoundedInduction, TLAPS

\* A call works on a descriptor of its coroutine, within the bounds.
CallsOwn ==
    \A co \in Cos : call[co] # None =>
        /\ user[call[co].fd] = co
        /\ call[co].done <= call[co].nbyte
        /\ told[call[co].fd] + call[co].nbyte <= MaxBytes

\* Every socket of a hooked coroutine is non-blocking in the kernel, unless it
\* came from co_accept and its flags were never set.
FlagSet == \A fd \in Fds : user[fd] \in Hooked /\ fd \notin raw => fd \in O_NONBLOCK

\* Only write, send and sendto count bytes.
OthersWriteNothing ==
    \A co \in Cos : call[co] # None /\ call[co].op \in {"read", "connect"} => call[co].done = 0

HooksInv ==
    /\ TypeOK /\ EntryMatches /\ CallsOwn /\ FlagSet /\ NeverSleeps /\ WriteAccounted
    /\ OthersWriteNothing

\* A coroutine's array holds what the coroutine set.
EnvInv ==
    /\ pvEnv \in [Cos -> [Names -> EnvValues \cup {None}] \cup {None}]
    /\ mine \in [Cos -> [Names -> EnvValues \cup {None}]]
    /\ hostbuf \in [Cos -> Hosts \cup {None}] /\ answer \in [Cos -> Hosts \cup {None}]
    /\ resolving \in [Cos -> Hosts \cup {None}]
    /\ \A co \in Cos : dup_co_sysenv_arr(co) = mine[co]
    /\ HostIsOwn

-----------------------------------------------------------------------------
(* The kernel. *)

\* A set of naturals that is not empty has a minimum.
LEMMA MinExists ==
  ASSUME NEW S \in SUBSET Nat, S # {}
  PROVE  Min(S) \in S /\ \A m \in S : Min(S) <= m
<1> DEFINE R == OpToRel(<, Nat)
<1>1. IsWellFoundedOn(R, Nat)
  BY NatLessThanWellFounded
<1>2. \A x, y \in Nat : x < y => <<x, y>> \in R
  BY DEF OpToRel
<1> HIDE DEF R
<1>3. PICK n \in S : \A m \in S : ~ (<<m, n>> \in R)
  BY <1>1, WFMin
<1>4. \A m \in S : n <= m
  <2> TAKE m \in S
  <2>1. m \in Nat /\ n \in Nat
    OBVIOUS
  <2>2. ~ (m < n)
    BY <1>2, <1>3, <2>1, Zenon
  <2> QED BY <2>1, <2>2
<1> QED BY <1>4 DEF Min

\* socket and accept return a number nobody has open.
LEMMA NewFdFree ==
  ASSUME NEW co \in Cos, CanOpen(co)
  PROVE  NewFd \in Fds /\ user[NewFd] = None
<1>1. {fd \in Fds : user[fd] = None} \in SUBSET Nat /\ {fd \in Fds : user[fd] = None} # {}
  BY HooksAssumption DEF CanOpen, Fds
<1> QED BY <1>1, MinExists DEF NewFd

\* What a write takes is at most what it is given and what the buffer holds.
LEMMA RoomBounds ==
  ASSUME TypeOK, NEW fd \in Fds, NEW n \in Nat
  PROVE  /\ Room(fd, n) \in 0 .. n
         /\ buffered[fd] + Room(fd, n) \in 0 .. SndBuf
<1>1. buffered[fd] \in 0 .. SndBuf /\ SndBuf \in Nat
  BY HooksAssumption DEF TypeOK
<1>2. {n, SndBuf - buffered[fd]} \in SUBSET Nat
  BY <1>1
<1>3. /\ Min({n, SndBuf - buffered[fd]}) \in {n, SndBuf - buffered[fd]}
      /\ Min({n, SndBuf - buffered[fd]}) <= n
      /\ Min({n, SndBuf - buffered[fd]}) <= SndBuf - buffered[fd]
  BY <1>2, MinExists
<1> QED BY <1>1, <1>2, <1>3 DEF Room

\* What a coroutine that is suspended or blocked in a call has.
LEMMA CallFacts ==
  ASSUME HooksInv, NEW co \in Cos, call[co] # None
  PROVE  /\ call[co] \in Call /\ call[co].fd \in Fds /\ user[call[co].fd] = co
         /\ call[co].nbyte \in 0 .. MaxWrite /\ call[co].done \in 0 .. call[co].nbyte
         /\ told[call[co].fd] + call[co].nbyte <= MaxBytes
         /\ taken[call[co].fd] = told[call[co].fd] + call[co].done
         /\ co # None
<1>1. call[co] \in Call
  BY DEF HooksInv, TypeOK
<1>2. /\ call[co].fd \in Fds /\ call[co].nbyte \in 0 .. MaxWrite /\ call[co].done \in 0 .. MaxWrite
  BY <1>1 DEF Call
<1>3. /\ user[call[co].fd] = co /\ call[co].done <= call[co].nbyte
      /\ told[call[co].fd] + call[co].nbyte <= MaxBytes
  BY DEF HooksInv, CallsOwn
<1>4. co # None
  BY HooksAssumption
<1>5. taken[call[co].fd] = told[call[co].fd] + call[co].done
  BY <1>2, <1>3, <1>4 DEF HooksInv, WriteAccounted, Unreported, InCall
<1> QED BY <1>1, <1>2, <1>3, <1>4, <1>5, HooksAssumption

\* Two coroutines have no descriptor in common, so a call of one leaves what is
\* known of the calls of the others.
LEMMA OtherCalls ==
  ASSUME HooksInv, NEW co \in Cos, NEW fd \in Fds, user[fd] = co,
         call' \in [Cos -> Call \cup {None}],
         \A c \in Cos : c # co => call'[c] = call[c],
         \A f \in Fds : f # fd => told'[f] = told[f] /\ taken'[f] = taken[f],
         user' = user,
         told' \in [Fds -> 0 .. MaxBytes],
         call'[co] = None => taken'[fd] = told'[fd],
         call'[co] # None =>
            /\ call'[co].fd = fd /\ call'[co].done <= call'[co].nbyte
            /\ told'[fd] + call'[co].nbyte <= MaxBytes
            /\ taken'[fd] = told'[fd] + call'[co].done,
         call[co] = None \/ call[co].fd = fd
  PROVE  CallsOwn' /\ WriteAccounted'
<1>1. CallsOwn'
  <2> SUFFICES ASSUME NEW c \in Cos, call'[c] # None
               PROVE  /\ user[call'[c].fd] = c
                      /\ call'[c].done <= call'[c].nbyte
                      /\ told'[call'[c].fd] + call'[c].nbyte <= MaxBytes
    BY DEF CallsOwn
  <2>1. CASE c = co
    BY <2>1
  <2>2. CASE c # co
    <3>1. call'[c] = call[c] /\ call[c].fd \in Fds /\ user[call[c].fd] = c
      BY <2>2, CallFacts
    <3>2. call[c].fd # fd
      BY <2>2, <3>1
    <3> QED BY <3>1, <3>2, CallFacts
  <2> QED BY <2>1, <2>2
<1>2. WriteAccounted'
  <2> SUFFICES ASSUME NEW f \in Fds PROVE taken'[f] = told'[f] + Unreported(f)'
    BY DEF WriteAccounted
  <2>1. CASE f = fd
    <3>1. CASE call'[co] = None
      <4>1. Unreported(f)' = 0 /\ told'[fd] \in Nat
        BY <2>1, <3>1, HooksAssumption DEF Unreported, InCall
      <4> QED BY <2>1, <3>1, <4>1
    <3>2. CASE call'[co] # None
      BY <2>1, <3>2, HooksAssumption DEF Unreported, InCall
    <3> QED BY <3>1, <3>2
  <2>2. CASE f # fd
    <3>1. taken[f] = told[f] + Unreported(f)
      BY DEF HooksInv, WriteAccounted
    <3>2. Unreported(f)' = Unreported(f)
      <4>1. CASE user[f] = None
        BY <4>1 DEF Unreported, InCall
      <4>2. CASE user[f] = co
        <5>1. ~InCall(f) /\ ~InCall(f)'
          BY <2>2, <4>2 DEF InCall
        <5> QED BY <5>1 DEF Unreported
      <4>3. CASE user[f] # None /\ user[f] # co
        <5>1. user[f] \in Cos
          BY <4>3 DEF HooksInv, TypeOK
        <5> QED BY <4>3, <5>1 DEF Unreported, InCall
      <4> QED BY <4>1, <4>2, <4>3
    <3> QED BY <2>2, <3>1, <3>2
  <2> QED BY <2>1, <2>2
<1> QED BY <1>1, <1>2

-----------------------------------------------------------------------------
(* The calls. *)

\* A descriptor just opened is nobody's in the table, in a call or in the counts.
LEMMA OpenedInv ==
  ASSUME HooksInv, NEW co \in Cos, NEW state \in {"idle", "up"}, CanOpen(co),
         Opened(co, state),
         g_rpchook_socket_fd' = IF co \in Hooked THEN alloc_by_fd(NewFd) ELSE g_rpchook_socket_fd,
         O_NONBLOCK' \subseteq Fds, raw' \subseteq Fds,
         \A f \in Fds : f # NewFd => (f \in O_NONBLOCK => f \in O_NONBLOCK'),
         \A f \in Fds : f # NewFd => (f \in raw <=> f \in raw'),
         co \in Hooked => NewFd \in O_NONBLOCK' \/ NewFd \in raw'
  PROVE  HooksInv'
<1> DEFINE nf == NewFd
<1>1. nf \in Fds /\ user[nf] = None
  BY NewFdFree
<1>2. /\ user' = [user EXCEPT ![nf] = co] /\ asked' = [asked EXCEPT ![nf] = Fresh]
      /\ buffered' = [buffered EXCEPT ![nf] = 0] /\ conn' = [conn EXCEPT ![nf] = state]
      /\ readable' \subseteq readable /\ call' = call
      /\ taken' = [taken EXCEPT ![nf] = 0] /\ told' = [told EXCEPT ![nf] = 0]
      /\ g_rpchook_socket_fd' = IF co \in Hooked THEN [g_rpchook_socket_fd EXCEPT ![nf] = Fresh]
                                ELSE g_rpchook_socket_fd
  BY DEF Opened, alloc_by_fd
<1>3. /\ \A f \in Fds : f # nf => (f \in O_NONBLOCK => f \in O_NONBLOCK')
      /\ \A f \in Fds : f # nf => (f \in raw <=> f \in raw')
      /\ co \in Hooked => nf \in O_NONBLOCK' \/ nf \in raw'
  OBVIOUS
<1> HIDE DEF nf
<1>4. Fresh \in rpchook_t
  BY DEF Fresh, rpchook_t
<1>5. TypeOK'
  BY <1>1, <1>2, <1>4, HooksAssumption DEF HooksInv, TypeOK
<1>6. \A c \in Cos : call[c] # None => call[c].fd \in Fds /\ call[c].fd # nf /\ user[call[c].fd] = c
  BY <1>1, CallFacts
<1>7. EntryMatches'
  <2> SUFFICES ASSUME NEW f \in Fds
               PROVE  /\ get_by_fd(f)' # None => user'[f] \in Hooked /\ get_by_fd(f)' = asked'[f]
                      /\ user'[f] \in Hooked => get_by_fd(f)' # None
    BY DEF EntryMatches
  <2>1. /\ get_by_fd(f) # None => user[f] \in Hooked /\ get_by_fd(f) = asked[f]
        /\ user[f] \in Hooked => get_by_fd(f) # None
    BY DEF HooksInv, EntryMatches
  <2>2. None \notin Hooked /\ None # Fresh
    BY <1>4, HooksAssumption
  <2>3. CASE f = nf
    BY <1>1, <1>2, <2>1, <2>2, <2>3 DEF HooksInv, TypeOK, get_by_fd
  <2>4. CASE f # nf
    BY <1>1, <1>2, <2>1, <2>4 DEF HooksInv, TypeOK, get_by_fd
  <2> QED BY <2>3, <2>4
<1>8. CallsOwn'
  BY <1>1, <1>2, <1>6 DEF HooksInv, TypeOK, CallsOwn
<1>9. FlagSet'
  BY <1>1, <1>2, <1>3 DEF HooksInv, TypeOK, FlagSet
<1>10. NeverSleeps'
  BY <1>2, <1>3, <1>6, HooksAssumption DEF HooksInv, NeverSleeps
<1>11. WriteAccounted'
  <2> SUFFICES ASSUME NEW f \in Fds PROVE taken'[f] = told'[f] + Unreported(f)'
    BY DEF WriteAccounted
  <2>1. CASE f = nf
    <3>1. ~InCall(f)'
      BY <1>1, <1>2, <1>6, <2>1 DEF HooksInv, TypeOK, InCall
    <3> QED BY <1>1, <1>2, <2>1, <3>1 DEF HooksInv, TypeOK, Unreported
  <2>2. CASE f # nf
    <3>1. user'[f] = user[f] /\ taken'[f] = taken[f] /\ told'[f] = told[f]
      BY <1>2, <2>2 DEF HooksInv, TypeOK
    <3> QED BY <1>2, <3>1 DEF HooksInv, WriteAccounted, Unreported, InCall
  <2> QED BY <2>1, <2>2
<1>12. OthersWriteNothing'
  BY <1>2 DEF HooksInv, OthersWriteNothing
<1> QED BY <1>5, <1>7, <1>8, <1>9, <1>10, <1>11, <1>12 DEF HooksInv

\* socket().
LEMMA SocketInv ==
  ASSUME HooksInv, NEW co \in Cos, socket(co)
  PROVE  HooksInv'
<1>1. NewFd \in Fds /\ CanOpen(co) /\ Opened(co, "idle")
  BY NewFdFree DEF socket
<1>2. g_rpchook_socket_fd' = IF co \in Hooked THEN alloc_by_fd(NewFd) ELSE g_rpchook_socket_fd
  BY DEF socket
<1>3. co \in Hooked => g_rpchook_socket_fd'[NewFd] # None
  <2>1. Fresh \in rpchook_t
    BY DEF Fresh, rpchook_t
  <2>2. Fresh # None
    BY <2>1, HooksAssumption
  <2> QED BY <1>1, <1>2, <2>2 DEF alloc_by_fd, HooksInv, TypeOK
<1>4. co \in Hooked => O_NONBLOCK' = O_NONBLOCK \cup {NewFd}
  BY <1>3 DEF socket, KernelFlag
<1>5. O_NONBLOCK' \subseteq Fds /\ \A f \in Fds : f # NewFd => (f \in O_NONBLOCK => f \in O_NONBLOCK')
  <2>1. O_NONBLOCK' = O_NONBLOCK \cup {NewFd} \/ O_NONBLOCK' = O_NONBLOCK \ {NewFd}
    BY DEF socket
  <2>2. O_NONBLOCK \subseteq Fds
    BY DEF HooksInv, TypeOK
  <2> QED BY <1>1, <2>1, <2>2
<1>6. raw' = raw \ {NewFd} /\ raw \subseteq Fds
  BY DEF socket, HooksInv, TypeOK
<1> QED BY <1>1, <1>2, <1>4, <1>5, <1>6, OpenedInv

\* co_accept().
LEMMA AcceptInv ==
  ASSUME HooksInv, NEW co \in Cos, co_accept(co)
  PROVE  HooksInv'
<1>1. NewFd \in Fds /\ CanOpen(co) /\ Opened(co, "up") /\ co \in Hooked
  BY NewFdFree DEF co_accept
<1>2. g_rpchook_socket_fd' = alloc_by_fd(NewFd)
  BY DEF co_accept
<1>3. O_NONBLOCK' = O_NONBLOCK \ {NewFd} /\ raw' = raw \cup {NewFd}
  BY DEF co_accept
<1>4. raw \subseteq Fds /\ O_NONBLOCK \subseteq Fds
  BY DEF HooksInv, TypeOK
<1> QED BY <1>1, <1>2, <1>3, <1>4, OpenedInv

\* Runs(co): co is in no call, so a call on a descriptor is of another user.
LEMMA RunsFacts ==
  ASSUME HooksInv, NEW co \in Cos, Runs(co), NEW fd \in Fds, user[fd] = co
  PROVE  /\ call[co] = None /\ co # None /\ told[fd] = taken[fd]
         /\ \A c \in Cos : call[c] # None => call[c].fd \in Fds /\ call[c].fd # fd
                                             /\ c # co /\ user[call[c].fd] = c
<1>1. call[co] = None /\ co # None
  BY HooksAssumption DEF Runs
<1>2. Unreported(fd) = 0 /\ told[fd] \in Nat
  BY <1>1, HooksAssumption DEF Unreported, InCall, HooksInv, TypeOK
<1>3. told[fd] = taken[fd]
  BY <1>2 DEF HooksInv, WriteAccounted
<1> QED BY <1>1, <1>3, CallFacts

\* A step that changes neither the calls nor the counts nor the owners leaves
\* CallsOwn and WriteAccounted as they are.
LEMMA CallsKept ==
  ASSUME HooksInv, UNCHANGED <<user, call, taken, told>>
  PROVE  CallsOwn' /\ WriteAccounted'
BY DEF HooksInv, CallsOwn, WriteAccounted, Unreported, InCall

\* fcntl(fd, F_SETFL, ...).
LEMMA FcntlInv ==
  ASSUME HooksInv, NEW co \in Cos, NEW fd \in Fds, NEW nonblock \in BOOLEAN,
         fcntl(co, fd, nonblock)
  PROVE  HooksInv'
<1> DEFINE tb == g_rpchook_socket_fd
<1>1. Runs(co) /\ user[fd] = co
  BY DEF fcntl
<1>2. /\ user' = user /\ call' = call /\ taken' = taken /\ told' = told
      /\ readable' = readable /\ buffered' = buffered /\ conn' = conn /\ raw' = raw \ {fd}
  BY DEF fcntl
<1>3. /\ tb \in [Fds -> rpchook_t \cup {None}] /\ asked \in [Fds -> rpchook_t]
      /\ O_NONBLOCK \subseteq Fds /\ raw \subseteq Fds
  BY DEF HooksInv, TypeOK
<1>4. /\ tb[fd] # None => co \in Hooked /\ tb[fd] = asked[fd]
      /\ co \in Hooked => tb[fd] # None
  BY <1>1 DEF HooksInv, EntryMatches, get_by_fd
<1>5. [asked[fd] EXCEPT !.nonblock = nonblock] \in rpchook_t
  BY <1>3 DEF rpchook_t
<1>6. CASE co \in Hooked
  <2>1. /\ tb' = [tb EXCEPT ![fd] = [tb[fd] EXCEPT !.nonblock = nonblock]]
        /\ asked' = [asked EXCEPT ![fd] = [asked[fd] EXCEPT !.nonblock = nonblock]]
        /\ O_NONBLOCK' = O_NONBLOCK \cup {fd}
    BY <1>4, <1>6 DEF fcntl, get_by_fd, KernelFlag
  <2>2. /\ tb'[fd] = asked'[fd] /\ tb'[fd] # None
        /\ \A f \in Fds : f # fd => tb'[f] = tb[f] /\ asked'[f] = asked[f]
    BY <1>3, <1>4, <1>5, <1>6, <2>1, HooksAssumption
  <2>3. TypeOK'
    BY <1>2, <1>3, <1>4, <1>5, <1>6, <2>1 DEF HooksInv, TypeOK
  <2>4. EntryMatches'
    <3> SUFFICES ASSUME NEW f \in Fds
                 PROVE  /\ tb'[f] # None => user[f] \in Hooked /\ tb'[f] = asked'[f]
                        /\ user[f] \in Hooked => tb'[f] # None
      BY <1>2 DEF EntryMatches, get_by_fd
    <3>1. CASE f = fd
      BY <1>1, <1>6, <2>2, <3>1
    <3>2. CASE f # fd
      BY <2>2, <3>2 DEF HooksInv, EntryMatches, get_by_fd
    <3> QED BY <3>1, <3>2
  <2>5. FlagSet'
    BY <1>2, <2>1 DEF HooksInv, FlagSet
  <2> QED BY <1>1, <1>2, <2>3, <2>4, <2>5, CallsKept, RunsFacts, HooksAssumption
          DEF HooksInv, NeverSleeps, OthersWriteNothing
<1>7. CASE co \notin Hooked
  <2>1. /\ tb' = tb /\ asked' = asked
        /\ O_NONBLOCK' = O_NONBLOCK \cup {fd} \/ O_NONBLOCK' = O_NONBLOCK \ {fd}
    BY <1>4, <1>7 DEF fcntl, get_by_fd
  <2>2. TypeOK'
    BY <1>2, <1>3, <2>1 DEF HooksInv, TypeOK
  <2>3. EntryMatches'
    BY <1>2, <2>1 DEF HooksInv, EntryMatches, get_by_fd
  <2>4. FlagSet'
    BY <1>1, <1>2, <1>7, <2>1 DEF HooksInv, FlagSet
  <2> QED BY <1>1, <1>2, <2>2, <2>3, <2>4, CallsKept, RunsFacts, HooksAssumption
          DEF HooksInv, NeverSleeps, OthersWriteNothing
<1> QED BY <1>6, <1>7

\* setsockopt().
LEMMA SetsockoptInv ==
  ASSUME HooksInv, NEW co \in Cos, NEW fd \in Fds, setsockopt(co, fd)
  PROVE  HooksInv'
<1> DEFINE tb == g_rpchook_socket_fd
<1>1. co \in Hooked /\ user[fd] = co
  BY DEF setsockopt
<1>2. /\ user' = user /\ call' = call /\ taken' = taken /\ told' = told
      /\ readable' = readable /\ buffered' = buffered /\ conn' = conn /\ raw' = raw
      /\ O_NONBLOCK' = O_NONBLOCK
  BY DEF setsockopt, kernelVars
<1>3. tb \in [Fds -> rpchook_t \cup {None}] /\ asked \in [Fds -> rpchook_t]
  BY DEF HooksInv, TypeOK
<1>4. tb[fd] # None /\ tb[fd] = asked[fd]
  BY <1>1 DEF HooksInv, EntryMatches, get_by_fd
<1>5. [asked[fd] EXCEPT !.timeouts = "set"] \in rpchook_t
  BY <1>3 DEF rpchook_t
<1>6. /\ tb' = [tb EXCEPT ![fd] = [tb[fd] EXCEPT !.timeouts = "set"]]
      /\ asked' = [asked EXCEPT ![fd] = [asked[fd] EXCEPT !.timeouts = "set"]]
  BY <1>4 DEF setsockopt, get_by_fd
<1>7. /\ tb'[fd] = asked'[fd] /\ tb'[fd] # None
      /\ \A f \in Fds : f # fd => tb'[f] = tb[f] /\ asked'[f] = asked[f]
  BY <1>3, <1>4, <1>5, <1>6, HooksAssumption
<1>8. TypeOK'
  BY <1>2, <1>3, <1>4, <1>5, <1>6 DEF HooksInv, TypeOK
<1>9. EntryMatches'
  <2> SUFFICES ASSUME NEW f \in Fds
               PROVE  /\ tb'[f] # None => user[f] \in Hooked /\ tb'[f] = asked'[f]
                      /\ user[f] \in Hooked => tb'[f] # None
    BY <1>2 DEF EntryMatches, get_by_fd
  <2>1. CASE f = fd
    BY <1>1, <1>7, <2>1
  <2>2. CASE f # fd
    BY <1>7, <2>2 DEF HooksInv, EntryMatches, get_by_fd
  <2> QED BY <2>1, <2>2
<1> QED BY <1>2, <1>8, <1>9, CallsKept DEF HooksInv, FlagSet, NeverSleeps, OthersWriteNothing

\* close().
LEMMA CloseInv ==
  ASSUME HooksInv, NEW co \in Cos, NEW fd \in Fds, close(co, fd)
  PROVE  HooksInv'
<1> DEFINE tb == g_rpchook_socket_fd
<1>1. /\ Runs(co) /\ user[fd] = co
      /\ user' = [user EXCEPT ![fd] = None] /\ asked' = [asked EXCEPT ![fd] = Fresh]
      /\ buffered' = [buffered EXCEPT ![fd] = 0] /\ conn' = [conn EXCEPT ![fd] = "idle"]
      /\ readable' = readable \ {fd} /\ call' = call
      /\ O_NONBLOCK' = O_NONBLOCK \ {fd} /\ raw' = raw \ {fd}
      /\ taken' = [taken EXCEPT ![fd] = 0] /\ told' = [told EXCEPT ![fd] = 0]
  BY DEF close
<1>2. /\ tb[fd] # None => co \in Hooked
      /\ tb \in [Fds -> rpchook_t \cup {None}]
  BY <1>1 DEF HooksInv, EntryMatches, get_by_fd, TypeOK
<1>3. tb' = [tb EXCEPT ![fd] = None]
  <2>1. CASE co \in Hooked
    BY <2>1 DEF close, free_by_fd
  <2>2. CASE co \notin Hooked
    <3>1. tb' = tb
      BY <2>2 DEF close
    <3> QED BY <1>2, <2>2, <3>1
  <2> QED BY <2>1, <2>2
<1>4. Fresh \in rpchook_t
  BY DEF Fresh, rpchook_t
<1>5. TypeOK'
  BY <1>1, <1>2, <1>3, <1>4, HooksAssumption DEF HooksInv, TypeOK
<1>6. EntryMatches'
  <2> SUFFICES ASSUME NEW f \in Fds
               PROVE  /\ tb'[f] # None => user'[f] \in Hooked /\ tb'[f] = asked'[f]
                      /\ user'[f] \in Hooked => tb'[f] # None
    BY DEF EntryMatches, get_by_fd
  <2>1. CASE f = fd
    BY <1>1, <1>2, <1>3, <2>1, HooksAssumption DEF HooksInv, TypeOK
  <2>2. CASE f # fd
    BY <1>1, <1>2, <1>3, <2>2 DEF HooksInv, TypeOK, EntryMatches, get_by_fd
  <2> QED BY <2>1, <2>2
<1>7. \A c \in Cos : call[c] # None => call[c].fd \in Fds /\ call[c].fd # fd /\ user[call[c].fd] = c
  BY <1>1, RunsFacts
<1>8. CallsOwn'
  BY <1>1, <1>7 DEF HooksInv, TypeOK, CallsOwn
<1>9. FlagSet'
  BY <1>1, HooksAssumption DEF HooksInv, TypeOK, FlagSet
<1>10. NeverSleeps'
  BY <1>1, <1>7, HooksAssumption DEF HooksInv, NeverSleeps
<1>11. WriteAccounted'
  <2> SUFFICES ASSUME NEW f \in Fds PROVE taken'[f] = told'[f] + Unreported(f)'
    BY DEF WriteAccounted
  <2>1. CASE f = fd
    BY <1>1, <2>1 DEF HooksInv, TypeOK, Unreported, InCall
  <2>2. CASE f # fd
    <3>1. user'[f] = user[f] /\ taken'[f] = taken[f] /\ told'[f] = told[f]
      BY <1>1, <2>2 DEF HooksInv, TypeOK
    <3> QED BY <1>1, <3>1 DEF HooksInv, WriteAccounted, Unreported, InCall
  <2> QED BY <2>1, <2>2
<1>12. OthersWriteNothing'
  BY <1>1 DEF HooksInv, OthersWriteNothing
<1> QED BY <1>5, <1>6, <1>8, <1>9, <1>10, <1>11, <1>12 DEF HooksInv

\* A step of co in a call on its own descriptor fd: the table and the flags stay,
\* and if co now sleeps in the kernel, it has no hooks or fd came from co_accept.
LEMMA CallInv ==
  ASSUME HooksInv, NEW co \in Cos, NEW fd \in Fds, user[fd] = co,
         UNCHANGED <<g_rpchook_socket_fd, user, O_NONBLOCK, asked, raw>>,
         TypeOK', CallsOwn', WriteAccounted',
         \A c \in Cos : c # co => call'[c] = call[c],
         call'[co] # None /\ call'[co].in = "kernel" =>
            call'[co].fd = fd /\ (co \in Hooked => fd \notin O_NONBLOCK \/ fd \in raw),
         call'[co] # None /\ call'[co].op \in {"read", "connect"} => call'[co].done = 0
  PROVE  HooksInv'
<1>1. EntryMatches' /\ FlagSet'
  BY DEF HooksInv, EntryMatches, get_by_fd, FlagSet
<1>2. NeverSleeps'
  <2> SUFFICES ASSUME NEW c \in Hooked, call'[c] # None, call'[c].in = "kernel"
               PROVE  call'[c].fd \in raw
    BY DEF NeverSleeps
  <2>1. c \in Cos
    BY HooksAssumption
  <2>2. CASE c = co
    BY <2>2 DEF HooksInv, FlagSet
  <2>3. CASE c # co
    BY <2>1, <2>3 DEF HooksInv, NeverSleeps
  <2> QED BY <2>2, <2>3
<1>3. OthersWriteNothing'
  BY DEF HooksInv, OthersWriteNothing
<1> QED BY <1>1, <1>2, <1>3 DEF HooksInv

\* The call that Enter puts a coroutine in.
LEMMA Entered ==
  ASSUME TypeOK, NEW co \in Cos, NEW op \in {"read", "write", "send", "sendto", "connect"},
         NEW fd \in Fds, NEW in \in {"poll", "kernel"}, NEW n \in 0 .. MaxWrite,
         NEW done \in 0 .. MaxWrite, NEW tries \in 0 .. 3,
         Enter(co, op, fd, in, n, done, tries)
  PROVE  /\ call' \in [Cos -> Call \cup {None}] /\ call'[co] # None
         /\ call'[co].fd = fd /\ call'[co].in = in /\ call'[co].nbyte = n /\ call'[co].done = done
         /\ call'[co].op = op
         /\ \A c \in Cos : c # co => call'[c] = call[c]
<1> DEFINE new == [op |-> op, fd |-> fd, in |-> in, nbyte |-> n, done |-> done, tries |-> tries]
<1>1. new \in Call
  BY DEF Call
<1>2. new # None
  BY <1>1, HooksAssumption
<1>3. new.fd = fd /\ new.in = in /\ new.nbyte = n /\ new.done = done /\ new.op = op
  OBVIOUS
<1>4. call' = [call EXCEPT ![co] = new] /\ call \in [Cos -> Call \cup {None}]
  BY DEF Enter, TypeOK
<1> HIDE DEF new
<1> QED BY <1>1, <1>2, <1>3, <1>4

\* The system call read.
LEMMA SysReadInv ==
  ASSUME HooksInv, NEW co \in Cos, NEW fd \in Fds, user[fd] = co,
         call[co] = None \/ (call[co].fd = fd /\ call[co].done = 0), SysRead(co, fd)
  PROVE  HooksInv'
<1>1. /\ UNCHANGED <<g_rpchook_socket_fd, user, O_NONBLOCK, buffered, conn, asked, raw, taken, told>>
      /\ readable' \subseteq readable
  BY DEF SysRead
<1>2. TypeOK /\ told[fd] \in 0 .. MaxBytes /\ MaxBytes \in Nat /\ 0 \in 0 .. MaxWrite /\ MaxWrite \in Nat
  BY HooksAssumption DEF HooksInv, TypeOK
<1>3. taken[fd] = told[fd]
  <2>1. Unreported(fd) = 0
    BY HooksAssumption DEF Unreported, InCall
  <2> QED BY <1>2, <2>1 DEF HooksInv, WriteAccounted
<1>4. CASE Enter(co, "read", fd, "kernel", 0, 0, 0) /\ fd \notin O_NONBLOCK
  <2>1. /\ call' \in [Cos -> Call \cup {None}] /\ call'[co] # None
        /\ call'[co].fd = fd /\ call'[co].in = "kernel" /\ call'[co].nbyte = 0 /\ call'[co].done = 0
        /\ \A c \in Cos : c # co => call'[c] = call[c]
    BY <1>2, <1>4, Entered
  <2>2. TypeOK'
    BY <1>1, <2>1 DEF HooksInv, TypeOK
  <2>3. CallsOwn' /\ WriteAccounted'
    <3>1. told' \in [Fds -> 0 .. MaxBytes] /\ told'[fd] + 0 <= MaxBytes /\ taken'[fd] = told'[fd] + 0
      BY <1>1, <1>2, <1>3 DEF HooksInv, TypeOK
    <3> QED BY <1>1, <2>1, <3>1, OtherCalls
  <2> QED BY <1>1, <1>4, <2>1, <2>2, <2>3, CallInv
<1>5. CASE call' = [call EXCEPT ![co] = None]
  <2>1. /\ call' \in [Cos -> Call \cup {None}] /\ call'[co] = None
        /\ \A c \in Cos : c # co => call'[c] = call[c]
    BY <1>2, <1>5 DEF TypeOK
  <2>2. TypeOK'
    BY <1>1, <2>1 DEF HooksInv, TypeOK
  <2>3. CallsOwn' /\ WriteAccounted'
    <3>1. told' \in [Fds -> 0 .. MaxBytes] /\ taken'[fd] = told'[fd]
      BY <1>1, <1>3 DEF HooksInv, TypeOK
    <3> QED BY <1>1, <2>1, <3>1, OtherCalls
  <2> QED BY <1>1, <2>1, <2>2, <2>3, CallInv
<1> QED BY <1>4, <1>5 DEF SysRead

\* read, recv and recvfrom, up to their poll.
LEMMA StartReadInv ==
  ASSUME HooksInv, NEW co \in Cos, NEW fd \in Fds, StartRead(co, fd)
  PROVE  HooksInv'
<1>1. Runs(co) /\ user[fd] = co
  BY DEF StartRead
<1>2. call[co] = None /\ told[fd] = taken[fd]
  BY <1>1, RunsFacts
<1>3. CASE SysRead(co, fd)
  BY <1>1, <1>2, <1>3, SysReadInv
<1>4. CASE /\ Enter(co, "read", fd, "poll", 0, 0, 0)
           /\ UNCHANGED <<g_rpchook_socket_fd, kernelVars, asked, raw, taken, told>>
  <2>1. TypeOK /\ told[fd] \in 0 .. MaxBytes /\ 0 \in 0 .. MaxWrite /\ MaxBytes \in Nat
    BY <1>1, HooksAssumption DEF HooksInv, TypeOK
  <2>2. /\ call' \in [Cos -> Call \cup {None}] /\ call'[co] # None
        /\ call'[co].fd = fd /\ call'[co].in = "poll" /\ call'[co].nbyte = 0 /\ call'[co].done = 0
        /\ \A c \in Cos : c # co => call'[c] = call[c]
    BY <1>4, <2>1, Entered
  <2>3. TypeOK'
    BY <1>4, <2>2 DEF HooksInv, TypeOK, kernelVars
  <2>4. CallsOwn' /\ WriteAccounted'
    <3>1. told' \in [Fds -> 0 .. MaxBytes] /\ told'[fd] + 0 <= MaxBytes /\ taken'[fd] = told'[fd] + 0
      BY <1>2, <1>4, <2>1 DEF HooksInv, TypeOK
    <3> QED BY <1>1, <1>2, <1>4, <2>2, <3>1, OtherCalls DEF kernelVars
  <2> QED BY <1>1, <1>4, <2>2, <2>3, <2>4, CallInv DEF kernelVars
<1> QED BY <1>3, <1>4 DEF StartRead

\* The return of a poll in read, recv or recvfrom.
LEMMA PolledReadInv ==
  ASSUME HooksInv, NEW co \in Cos, PolledRead(co)
  PROVE  HooksInv'
<1>1. call[co] # None /\ call[co].op = "read" /\ SysRead(co, call[co].fd)
  BY DEF PolledRead
<1>2. call[co].done = 0
  BY <1>1 DEF HooksInv, OthersWriteNothing
<1>3. call[co].fd \in Fds /\ user[call[co].fd] = co
  BY <1>1, CallFacts
<1> QED BY <1>1, <1>2, <1>3, SysReadInv

\* One system call write in write, send or sendto, whatever is done with the rest.
LEMMA WrittenInv ==
  ASSUME HooksInv, NEW co \in Cos, NEW fd \in Fds, user[fd] = co,
         NEW n \in 0 .. MaxWrite, NEW done \in 0 .. n,
         NEW op \in {"write", "send", "sendto"}, NEW rest \in {"return", "poll", "kernel"},
         call[co] = None \/ call[co].fd = fd,
         told[fd] + n <= MaxBytes, taken[fd] = told[fd] + done,
         rest = "kernel" /\ co \in Hooked => fd \notin O_NONBLOCK \/ fd \in raw,
         Written(co, fd, n, done, op, rest)
  PROVE  HooksInv'
<1> DEFINE k == Room(fd, n - done)
<1>1. TypeOK /\ n \in Nat /\ done \in Nat /\ n - done \in Nat /\ MaxWrite \in Nat /\ MaxBytes \in Nat
      /\ done \in 0 .. MaxWrite /\ done <= n /\ n <= MaxWrite
  BY HooksAssumption DEF HooksInv
<1>2. k \in 0 .. n - done /\ buffered[fd] + k \in 0 .. SndBuf
  BY <1>1, RoomBounds
<1>3. /\ buffered' = [buffered EXCEPT ![fd] = @ + k]
      /\ taken' = [taken EXCEPT ![fd] = @ + k]
      /\ UNCHANGED <<g_rpchook_socket_fd, user, O_NONBLOCK, readable, conn, asked, raw>>
  BY DEF Written, Take
<1>4. \/ /\ rest # "return" /\ done + k < n
         /\ Enter(co, op, fd, rest, n, done + k, 0) /\ told' = told
      \/ /\ call' = [call EXCEPT ![co] = None]
         /\ told' = [told EXCEPT ![fd] = @ + (done + k)]
  BY DEF Written, Returns
<1> HIDE DEF k
<1>5. /\ taken \in [Fds -> 0 .. MaxBytes] /\ told \in [Fds -> 0 .. MaxBytes]
      /\ buffered \in [Fds -> 0 .. SndBuf] /\ call \in [Cos -> Call \cup {None}]
  BY <1>1 DEF TypeOK
<1>6. /\ taken'[fd] = told[fd] + (done + k) /\ done + k \in 0 .. MaxWrite /\ done + k <= n
      /\ told[fd] + (done + k) \in 0 .. MaxBytes
      /\ \A f \in Fds : f # fd => taken'[f] = taken[f]
  BY <1>1, <1>2, <1>3, <1>5
<1>7. taken' \in [Fds -> 0 .. MaxBytes] /\ buffered' \in [Fds -> 0 .. SndBuf]
  <2>1. taken[fd] + k = told[fd] + (done + k)
    BY <1>1, <1>2, <1>5
  <2>2. taken' = [taken EXCEPT ![fd] = told[fd] + (done + k)]
    BY <1>3, <2>1
  <2> QED BY <1>2, <1>3, <1>5, <1>6, <2>2
<1>8. CASE /\ rest # "return" /\ done + k < n
           /\ Enter(co, op, fd, rest, n, done + k, 0) /\ told' = told
  <2>1. rest \in {"poll", "kernel"} /\ op \in {"read", "write", "send", "sendto", "connect"}
    BY <1>8
  <2>2. /\ call' \in [Cos -> Call \cup {None}] /\ call'[co] # None
        /\ call'[co].fd = fd /\ call'[co].in = rest /\ call'[co].nbyte = n
        /\ call'[co].done = done + k /\ call'[co].op = op
        /\ \A c \in Cos : c # co => call'[c] = call[c]
    BY <1>1, <1>6, <1>8, <2>1, Entered
  <2>3. TypeOK'
    BY <1>3, <1>7, <1>8, <2>2 DEF HooksInv, TypeOK
  <2>4. CallsOwn' /\ WriteAccounted'
    BY <1>3, <1>5, <1>6, <1>8, <2>2, OtherCalls
  <2> QED BY <1>3, <2>2, <2>3, <2>4, CallInv
<1>9. CASE /\ call' = [call EXCEPT ![co] = None]
            /\ told' = [told EXCEPT ![fd] = @ + (done + k)]
  <2>1. /\ call' \in [Cos -> Call \cup {None}] /\ call'[co] = None
        /\ \A c \in Cos : c # co => call'[c] = call[c]
    BY <1>5, <1>9
  <2>2. told' \in [Fds -> 0 .. MaxBytes] /\ told'[fd] = told[fd] + (done + k)
        /\ \A f \in Fds : f # fd => told'[f] = told[f]
    BY <1>5, <1>6, <1>9
  <2>3. TypeOK'
    BY <1>3, <1>7, <2>1, <2>2 DEF HooksInv, TypeOK
  <2>4. CallsOwn' /\ WriteAccounted'
    BY <1>3, <1>6, <2>1, <2>2, OtherCalls
  <2> QED BY <1>3, <2>1, <2>3, <2>4, CallInv
<1> QED BY <1>4, <1>8, <1>9

\* write, send and sendto, up to their first poll.
LEMMA StartWriteInv ==
  ASSUME HooksInv, NEW co \in Cos, NEW fd \in Fds, NEW n \in 1 .. MaxWrite,
         NEW op \in {"write", "send", "sendto"}, StartWrite(co, fd, n, op)
  PROVE  HooksInv'
<1> DEFINE rest == IF Sleeps(fd, n) THEN "kernel"
                   ELSE IF ~Direct(co, fd) /\ FirstWait(op, fd, n) THEN "poll" ELSE "return"
<1>1. Runs(co) /\ user[fd] = co /\ told[fd] + n <= MaxBytes /\ Written(co, fd, n, 0, op, rest)
  BY DEF StartWrite
<1>2. call[co] = None /\ told[fd] = taken[fd]
  BY <1>1, RunsFacts
<1>3. rest = "kernel" => fd \notin O_NONBLOCK
  BY DEF Sleeps
<1>4. rest \in {"return", "poll", "kernel"}
  OBVIOUS
<1> HIDE DEF rest
<1>5. n \in 0 .. MaxWrite /\ 0 \in 0 .. n /\ taken[fd] = told[fd] + 0
  BY <1>1, <1>2, HooksAssumption DEF HooksInv, TypeOK
<1> QED BY <1>1, <1>2, <1>3, <1>4, <1>5, WrittenInv

\* The return of a poll in write, send or sendto.
LEMMA PolledWriteInv ==
  ASSUME HooksInv, NEW co \in Cos, PolledWrite(co)
  PROVE  HooksInv'
<1> DEFINE fd == call[co].fd
           n == call[co].nbyte
           done == call[co].done
           op == call[co].op
           rest == IF Sleeps(fd, n - done) THEN "kernel"
                   ELSE IF op # "sendto" /\ TriesAgain(co, fd) THEN "poll" ELSE "return"
<1>1. call[co] # None /\ op \in {"write", "send", "sendto"} /\ Written(co, fd, n, done, op, rest)
  BY DEF PolledWrite
<1>2. /\ fd \in Fds /\ user[fd] = co /\ n \in 0 .. MaxWrite /\ done \in 0 .. n
      /\ told[fd] + n <= MaxBytes /\ taken[fd] = told[fd] + done
  BY <1>1, CallFacts
<1>3. rest = "kernel" => fd \notin O_NONBLOCK
  BY DEF Sleeps
<1>4. rest \in {"return", "poll", "kernel"}
  OBVIOUS
<1>5. call[co].fd = fd
  OBVIOUS
<1> HIDE DEF rest, fd, n, done, op
<1> QED BY <1>1, <1>2, <1>3, <1>4, <1>5, WrittenInv

\* connect(), up to its first poll.
LEMMA ConnectInv ==
  ASSUME HooksInv, NEW co \in Cos, NEW fd \in Fds, connect(co, fd)
  PROVE  HooksInv'
<1>1. Runs(co) /\ user[fd] = co
  BY DEF connect
<1>2. call[co] = None /\ told[fd] = taken[fd]
  BY <1>1, RunsFacts
<1>3. /\ conn' = [conn EXCEPT ![fd] = "connecting"]
      /\ UNCHANGED <<g_rpchook_socket_fd, user, O_NONBLOCK, readable, buffered, asked, raw,
                     taken, told>>
  BY DEF connect
<1>4. TypeOK /\ told[fd] \in 0 .. MaxBytes /\ 0 \in 0 .. MaxWrite /\ MaxBytes \in Nat
  BY <1>1, HooksAssumption DEF HooksInv, TypeOK
<1>5. CASE call' = call
  <2>1. TypeOK'
    BY <1>3, <1>5 DEF HooksInv, TypeOK
  <2>2. CallsOwn' /\ WriteAccounted'
    BY <1>3, <1>5, CallsKept
  <2> QED BY <1>1, <1>2, <1>3, <1>5, <2>1, <2>2, CallInv
<1>6. CASE \E in \in {"poll", "kernel"}, tries \in 0 .. 3 :
              /\ Enter(co, "connect", fd, in, 0, 0, tries)
              /\ in = "kernel" => fd \notin O_NONBLOCK
  <2>1. PICK in \in {"poll", "kernel"}, tries \in 0 .. 3 :
              /\ Enter(co, "connect", fd, in, 0, 0, tries)
              /\ in = "kernel" => fd \notin O_NONBLOCK
    BY <1>6
  <2>2. /\ call' \in [Cos -> Call \cup {None}] /\ call'[co] # None
        /\ call'[co].fd = fd /\ call'[co].in = in /\ call'[co].nbyte = 0 /\ call'[co].done = 0
        /\ \A c \in Cos : c # co => call'[c] = call[c]
    BY <1>4, <2>1, Entered
  <2>3. TypeOK'
    BY <1>3, <2>2 DEF HooksInv, TypeOK
  <2>4. CallsOwn' /\ WriteAccounted'
    <3>1. told' \in [Fds -> 0 .. MaxBytes] /\ told'[fd] + 0 <= MaxBytes /\ taken'[fd] = told'[fd] + 0
      BY <1>2, <1>3, <1>4 DEF HooksInv, TypeOK
    <3> QED BY <1>1, <1>2, <1>3, <2>2, <3>1, OtherCalls
  <2> QED BY <1>1, <1>3, <2>1, <2>2, <2>3, <2>4, CallInv
<1>7. 0 \in 0 .. 3 /\ 1 \in 0 .. 3
  OBVIOUS
<1> QED BY <1>5, <1>6, <1>7 DEF connect

\* A call of co that has written nothing ends.
LEMMA ReturnedInv ==
  ASSUME HooksInv, NEW co \in Cos, call[co] # None, call[co].done = 0,
         call' = [call EXCEPT ![co] = None],
         UNCHANGED <<g_rpchook_socket_fd, kernelVars, asked, raw, taken, told>>
  PROVE  HooksInv'
<1> DEFINE fd == call[co].fd
<1>1. fd \in Fds /\ user[fd] = co /\ taken[fd] = told[fd] + call[co].done
  BY CallFacts
<1>2. call[co].fd = fd /\ call[co].done = 0
  OBVIOUS
<1> HIDE DEF fd
<1>3. /\ call' \in [Cos -> Call \cup {None}] /\ call'[co] = None
      /\ \A c \in Cos : c # co => call'[c] = call[c]
  BY DEF HooksInv, TypeOK
<1>4. TypeOK'
  BY <1>3 DEF HooksInv, TypeOK, kernelVars
<1>5. CallsOwn' /\ WriteAccounted'
  <2>1. told' \in [Fds -> 0 .. MaxBytes] /\ taken'[fd] = told'[fd]
    BY <1>1, <1>2 DEF HooksInv, TypeOK
  <2> QED BY <1>1, <1>2, <1>3, <2>1, OtherCalls DEF kernelVars
<1> QED BY <1>1, <1>3, <1>4, <1>5, CallInv DEF kernelVars

\* The return of a poll in connect.
LEMMA PolledConnectInv ==
  ASSUME HooksInv, NEW co \in Cos, PolledConnect(co)
  PROVE  HooksInv'
<1>1. /\ call[co] # None /\ call[co].op = "connect" /\ call[co].in = "poll"
      /\ UNCHANGED <<g_rpchook_socket_fd, kernelVars, asked, raw, taken, told>>
  BY DEF PolledConnect
<1>2. call[co].done = 0
  BY <1>1 DEF HooksInv, OthersWriteNothing
<1>3. CASE call' = [call EXCEPT ![co] = None]
  BY <1>1, <1>2, <1>3, ReturnedInv
<1>4. CASE /\ call' = [call EXCEPT ![co] = [call[co] EXCEPT !.tries = @ + 1]]
           /\ call[co].tries < 3
  <2> DEFINE fd == call[co].fd
             new == [call[co] EXCEPT !.tries = @ + 1]
  <2>1. /\ call[co] \in Call /\ fd \in Fds /\ user[fd] = co /\ taken[fd] = told[fd] + call[co].done
        /\ call[co].done <= call[co].nbyte /\ told[fd] + call[co].nbyte <= MaxBytes
    BY <1>1, CallFacts DEF HooksInv, CallsOwn
  <2>2. /\ new \in Call /\ new.fd = fd /\ new.in = "poll" /\ new.op = "connect"
        /\ new.nbyte = call[co].nbyte /\ new.done = call[co].done
    BY <1>1, <1>4, <2>1 DEF Call
  <2>3. new # None
    BY <2>2, HooksAssumption
  <2>4. call' = [call EXCEPT ![co] = new] /\ call \in [Cos -> Call \cup {None}] /\ call[co].fd = fd
    BY <1>4 DEF HooksInv, TypeOK
  <2> HIDE DEF new, fd
  <2>5. /\ call' \in [Cos -> Call \cup {None}] /\ call'[co] = new
        /\ \A c \in Cos : c # co => call'[c] = call[c]
    BY <2>2, <2>4
  <2>6. TypeOK'
    BY <1>1, <2>5 DEF HooksInv, TypeOK, kernelVars
  <2>7. CallsOwn' /\ WriteAccounted'
    <3>1. told' \in [Fds -> 0 .. MaxBytes] /\ told' = told /\ taken' = taken /\ user' = user
      BY <1>1 DEF HooksInv, TypeOK, kernelVars
    <3> QED BY <2>1, <2>2, <2>3, <2>4, <2>5, <3>1, OtherCalls
  <2> QED BY <1>1, <1>2, <2>1, <2>2, <2>3, <2>5, <2>6, <2>7, CallInv DEF kernelVars
<1>5. call' = [call EXCEPT ![co] =
                  IF ConnectResult(call[co].fd) = "timed out" /\ call[co].tries < 3
                  THEN [call[co] EXCEPT !.tries = @ + 1] ELSE None]
  BY DEF PolledConnect, MorePolls
<1>6. CASE ConnectResult(call[co].fd) = "timed out" /\ call[co].tries < 3
  <2>1. call' = [call EXCEPT ![co] = [call[co] EXCEPT !.tries = @ + 1]]
    BY <1>5, <1>6
  <2> QED BY <1>4, <1>6, <2>1
<1>7. CASE ~ (ConnectResult(call[co].fd) = "timed out" /\ call[co].tries < 3)
  <2>1. call' = [call EXCEPT ![co] = None]
    BY <1>5, <1>7
  <2> QED BY <1>3, <2>1
<1> QED BY <1>6, <1>7

\* The kernel wakes the thread.
LEMMA WokenInv ==
  ASSUME HooksInv, NEW co \in Cos, Woken(co)
  PROVE  HooksInv'
<1> DEFINE fd == call[co].fd
           n == call[co].nbyte
           done == call[co].done
           op == call[co].op
<1>1. call[co] # None /\ call[co].in = "kernel"
  BY DEF Woken
<1>2. /\ fd \in Fds /\ user[fd] = co /\ n \in 0 .. MaxWrite /\ done \in 0 .. n
      /\ told[fd] + n <= MaxBytes /\ taken[fd] = told[fd] + done
  BY <1>1, CallFacts
<1>3. co \in Hooked => fd \in raw
  BY <1>1 DEF HooksInv, NeverSleeps
<1>4. op \in {"read", "connect"} => done = 0
  BY <1>1 DEF HooksInv, OthersWriteNothing
<1>5. CASE op = "read" /\ SysRead(co, fd)
  BY <1>2, <1>4, <1>5, SysReadInv
<1>6. CASE /\ op = "connect" /\ call' = [call EXCEPT ![co] = None]
           /\ UNCHANGED <<g_rpchook_socket_fd, kernelVars, asked, raw, taken, told>>
  BY <1>1, <1>4, <1>6, ReturnedInv
<1>7. CASE /\ op \in {"write", "send", "sendto"}
           /\ Written(co, fd, n, done, op, IF conn[fd] = "up" THEN "kernel" ELSE "return")
  <2> DEFINE rest == IF conn[fd] = "up" THEN "kernel" ELSE "return"
  <2>1. rest \in {"return", "poll", "kernel"} /\ Written(co, fd, n, done, op, rest)
    BY <1>7
  <2>2. call[co].fd = fd /\ op \in {"write", "send", "sendto"}
    BY <1>7
  <2> HIDE DEF rest, fd, n, done, op
  <2> QED BY <1>2, <1>3, <2>1, <2>2, WrittenInv
<1> QED BY <1>5, <1>6, <1>7 DEF Woken

\* A step of the other end.
LEMMA PeerInv ==
  ASSUME HooksInv, NEW fd \in Fds, Peer(fd)
  PROVE  HooksInv'
<1>1. UNCHANGED <<g_rpchook_socket_fd, user, O_NONBLOCK, call, asked, raw, taken, told>>
  BY DEF Peer
<1>2. TypeOK'
  <2>1. buffered' \in [Fds -> 0 .. SndBuf]
    <3>1. buffered' = buffered \/ (buffered' = [buffered EXCEPT ![fd] = @ - 1] /\ buffered[fd] > 0)
      BY DEF Peer
    <3> QED BY <3>1, HooksAssumption DEF HooksInv, TypeOK
  <2>2. conn' \in [Fds -> {"idle", "connecting", "up", "failed"}] /\ readable' \subseteq Fds
    BY DEF Peer, HooksInv, TypeOK
  <2> QED BY <1>1, <2>1, <2>2 DEF HooksInv, TypeOK
<1>3. CallsOwn' /\ WriteAccounted'
  BY <1>1, CallsKept
<1> QED BY <1>1, <1>2, <1>3
        DEF HooksInv, EntryMatches, get_by_fd, FlagSet, NeverSleeps, OthersWriteNothing

-----------------------------------------------------------------------------
(* The invariant of the hooked calls. *)

\* Nothing is open at the start.
LEMMA HooksInit == Init => HooksInv
<1> SUFFICES ASSUME Init PROVE HooksInv
  OBVIOUS
<1>1. Fresh \in rpchook_t
  BY DEF Fresh, rpchook_t
<1>2. TypeOK
  BY <1>1, HooksAssumption DEF Init, TypeOK
<1>3. EntryMatches /\ CallsOwn /\ FlagSet /\ NeverSleeps /\ OthersWriteNothing
  BY HooksAssumption
     DEF Init, EntryMatches, get_by_fd, CallsOwn, FlagSet, NeverSleeps, OthersWriteNothing
<1>4. WriteAccounted
  BY DEF Init, WriteAccounted, Unreported, InCall
<1> QED BY <1>2, <1>3, <1>4 DEF HooksInv

\* Every step of the coroutines, the kernel and the peers keeps HooksInv.
LEMMA HooksStep == HooksInv /\ [Next]_vars => HooksInv'
<1> SUFFICES ASSUME HooksInv, [Next]_vars PROVE HooksInv'
  OBVIOUS
<1>1. CASE UNCHANGED vars
  <2>1. UNCHANGED <<user, call, taken, told>>
    BY <1>1 DEF vars, kernelVars
  <2>2. CallsOwn' /\ WriteAccounted'
    BY <2>1, CallsKept
  <2> QED BY <1>1, <2>2
          DEF vars, kernelVars, HooksInv, TypeOK, EntryMatches, get_by_fd, FlagSet, NeverSleeps,
              OthersWriteNothing
<1>2. CASE \E fd \in Fds : Peer(fd)
  BY <1>2, PeerInv
<1>3. ASSUME NEW co \in Cos, socket(co) \/ co_accept(co) PROVE HooksInv'
  BY <1>3, SocketInv, AcceptInv
<1>4. ASSUME NEW co \in Cos, read(co) \/ recv(co) \/ recvfrom(co) PROVE HooksInv'
  BY <1>4, StartReadInv DEF read, recv, recvfrom
<1>5. ASSUME NEW co \in Cos, write(co) \/ send(co) \/ sendto(co) PROVE HooksInv'
  BY <1>5, StartWriteInv DEF write, send, sendto
<1>6. ASSUME NEW co \in Cos, Polled(co) \/ Woken(co) PROVE HooksInv'
  BY <1>6, PolledReadInv, PolledWriteInv, PolledConnectInv, WokenInv DEF Polled
<1>7. ASSUME NEW co \in Cos, NEW fd \in Fds,
             close(co, fd) \/ connect(co, fd) \/ setsockopt(co, fd)
             \/ \E nonblock \in BOOLEAN : fcntl(co, fd, nonblock)
      PROVE  HooksInv'
  BY <1>7, CloseInv, ConnectInv, SetsockoptInv, FcntlInv
<1> QED BY <1>1, <1>2, <1>3, <1>4, <1>5, <1>6, <1>7, Zenon DEF Next

-----------------------------------------------------------------------------
(* The invariant of what is kept per coroutine. *)

\* Assigned gives a value or none.
LEMMA AssignedType ==
  ASSUME NEW old \in EnvValues \cup {None}, NEW value \in EnvValues, NEW overwrite \in BOOLEAN
  PROVE  Assigned(old, value, overwrite) \in EnvValues \cup {None}
BY DEF Assigned

\* A coroutine gives one of its own variables the value v.
LEMMA OwnSet ==
  ASSUME EnvInv, NEW co \in Cos, NEW n \in Names, NEW v \in EnvValues \cup {None},
         pvEnv' = [pvEnv EXCEPT ![co] = [dup_co_sysenv_arr(co) EXCEPT ![n] = v]],
         mine' = [mine EXCEPT ![co] = [mine[co] EXCEPT ![n] = v]],
         UNCHANGED <<hostbuf, resolving, answer>>
  PROVE  EnvInv'
<1> DEFINE new == [mine[co] EXCEPT ![n] = v]
<1>1. dup_co_sysenv_arr(co) = mine[co] /\ mine[co] \in [Names -> EnvValues \cup {None}]
  BY DEF EnvInv
<1>2. new \in [Names -> EnvValues \cup {None}]
  BY <1>1
<1>3. new # None
  BY <1>2, SpecificAssumption
<1>4. pvEnv' = [pvEnv EXCEPT ![co] = new] /\ mine' = [mine EXCEPT ![co] = new]
  BY <1>1
<1> HIDE DEF new
<1>5. /\ pvEnv' \in [Cos -> [Names -> EnvValues \cup {None}] \cup {None}]
      /\ mine' \in [Cos -> [Names -> EnvValues \cup {None}]]
  BY <1>2, <1>4 DEF EnvInv
<1>6. \A c \in Cos : dup_co_sysenv_arr(c)' = mine'[c]
  <2> SUFFICES ASSUME NEW c \in Cos
               PROVE  (IF pvEnv'[c] = None THEN NoValues ELSE pvEnv'[c]) = mine'[c]
    BY DEF dup_co_sysenv_arr, Specific
  <2>1. CASE c = co
    BY <1>3, <1>4, <2>1 DEF EnvInv
  <2>2. CASE c # co
    <3>1. pvEnv'[c] = pvEnv[c] /\ mine'[c] = mine[c]
      BY <1>4, <2>2 DEF EnvInv
    <3> QED BY <3>1 DEF EnvInv, dup_co_sysenv_arr, Specific
  <2> QED BY <2>1, <2>2
<1> QED BY <1>5, <1>6 DEF EnvInv, HostIsOwn, Specific

\* What neither a coroutine's array nor its buffer is touched by keeps EnvInv.
LEMMA EnvKept ==
  ASSUME EnvInv, UNCHANGED <<pvEnv, hostbuf, resolving, mine, answer>>
  PROVE  EnvInv'
BY DEF EnvInv, dup_co_sysenv_arr, Specific, HostIsOwn

\* setenv().
LEMMA SetenvInv ==
  ASSUME EnvInv, NEW co \in Cos, NEW n \in Names, NEW value \in EnvValues,
         NEW overwrite \in BOOLEAN, setenv(co, n, value, overwrite)
  PROVE  EnvInv'
<1>1. UNCHANGED <<hostbuf, resolving, answer>>
  BY DEF setenv
<1>2. CASE Private(co, n)
  <2> DEFINE v == Assigned(mine[co][n], value, overwrite)
  <2>1. dup_co_sysenv_arr(co) = mine[co] /\ mine[co] \in [Names -> EnvValues \cup {None}]
    BY DEF EnvInv
  <2>2. v \in EnvValues \cup {None}
    BY <2>1, AssignedType
  <2>3. /\ pvEnv' = [pvEnv EXCEPT ![co] = [dup_co_sysenv_arr(co) EXCEPT ![n] = v]]
        /\ mine' = [mine EXCEPT ![co] = [mine[co] EXCEPT ![n] = v]]
    BY <1>2, <2>1 DEF setenv, Specific
  <2> HIDE DEF v
  <2> QED BY <1>1, <2>2, <2>3, OwnSet
<1>3. CASE ~Private(co, n)
  <2>1. UNCHANGED <<pvEnv, mine>>
    BY <1>3 DEF setenv
  <2> QED BY <1>1, <2>1, EnvKept
<1> QED BY <1>2, <1>3

\* unsetenv().
LEMMA UnsetenvInv ==
  ASSUME EnvInv, NEW co \in Cos, NEW n \in Names, unsetenv(co, n)
  PROVE  EnvInv'
<1>1. UNCHANGED <<hostbuf, resolving, answer>>
  BY DEF unsetenv
<1>2. CASE Private(co, n)
  <2>1. /\ pvEnv' = [pvEnv EXCEPT ![co] = [dup_co_sysenv_arr(co) EXCEPT ![n] = None]]
        /\ mine' = [mine EXCEPT ![co] = [mine[co] EXCEPT ![n] = None]]
    BY <1>2 DEF unsetenv, Specific
  <2> QED BY <1>1, <2>1, OwnSet
<1>3. CASE ~Private(co, n)
  <2>1. UNCHANGED <<pvEnv, mine>>
    BY <1>3 DEF unsetenv
  <2> QED BY <1>1, <2>1, EnvKept
<1> QED BY <1>2, <1>3

\* The two halves of gethostbyname().
LEMMA HostInv ==
  ASSUME EnvInv, NEW co \in Hooked,
         co_gethostbyname(co) \/ \E name \in Hosts : gethostbyname(co, name)
  PROVE  EnvInv'
<1>1. co \in Cos
  BY HooksAssumption
<1>2. UNCHANGED <<pvEnv, mine>>
  BY DEF co_gethostbyname, gethostbyname
<1>3. \A c \in Cos : dup_co_sysenv_arr(c)' = mine'[c]
  BY <1>2 DEF EnvInv, dup_co_sysenv_arr, Specific
<1>4. CASE co_gethostbyname(co)
  <2>1. /\ hostbuf' = [hostbuf EXCEPT ![co] = resolving[co]]
        /\ answer' = [answer EXCEPT ![co] = resolving[co]]
        /\ resolving' = [resolving EXCEPT ![co] = None]
    BY <1>4 DEF co_gethostbyname, Specific
  <2>2. HostIsOwn'
    BY <1>1, <2>1, HooksAssumption DEF EnvInv, HostIsOwn, Specific
  <2> QED BY <1>1, <1>2, <1>3, <2>1, <2>2 DEF EnvInv
<1>5. CASE \E name \in Hosts : gethostbyname(co, name)
  <2>1. PICK name \in Hosts :
           /\ hostbuf' = hostbuf
           /\ answer' = [answer EXCEPT ![co] = None]
           /\ resolving' = [resolving EXCEPT ![co] = name]
    BY <1>5 DEF gethostbyname
  <2>2. HostIsOwn'
    BY <1>1, <2>1, HooksAssumption DEF EnvInv, HostIsOwn, Specific
  <2> QED BY <1>1, <1>2, <1>3, <2>1, <2>2 DEF EnvInv
<1> QED BY <1>4, <1>5

\* Nobody has set a variable or asked for a host at the start.
LEMMA EnvStart == EnvInit => EnvInv
BY DEF EnvInit, EnvInv, NoValues, dup_co_sysenv_arr, Specific, HostIsOwn

\* Every step keeps EnvInv.
LEMMA EnvStep == EnvInv /\ [EnvNext]_envVars => EnvInv'
<1> SUFFICES ASSUME EnvInv, [EnvNext]_envVars PROVE EnvInv'
  OBVIOUS
<1>1. CASE UNCHANGED envVars
  BY <1>1, EnvKept DEF envVars
<1>2. ASSUME NEW names \in SUBSET Names, co_set_env_list(names) PROVE EnvInv'
  BY <1>2, EnvKept DEF co_set_env_list
<1>3. ASSUME NEW co \in Cos, NEW n \in Names,
             unsetenv(co, n) \/ \E value \in EnvValues, overwrite \in BOOLEAN :
                                   setenv(co, n, value, overwrite)
      PROVE  EnvInv'
  BY <1>3, UnsetenvInv, SetenvInv
<1> QED BY <1>1, <1>2, <1>3, HostInv, Zenon DEF EnvNext

-----------------------------------------------------------------------------
(* The theorems. *)

\* A coroutine reads its own values and its own answer.
LEMMA EnvInvOwn == EnvInv => SpecificIsOwn
BY HooksAssumption DEF EnvInv, SpecificIsOwn, EnvIsOwn, getenv

\* Both invariants hold in every state of the calls and the per-coroutine data.
THEOREM Invariance == LibcoCallsSpec => [](HooksInv /\ EnvInv)
<1>1. LibcoCallsInit => HooksInv /\ EnvInv
  BY HooksInit, EnvStart DEF LibcoCallsInit
<1>2. HooksInv /\ EnvInv /\ [LibcoCallsNext]_<<vars, envVars>> => HooksInv' /\ EnvInv'
  <2>1. [LibcoCallsNext]_<<vars, envVars>> => [Next]_vars /\ [EnvNext]_envVars
    BY DEF LibcoCallsNext
  <2> QED BY <2>1, HooksStep, EnvStep
<1> QED BY <1>1, <1>2, PTL DEF LibcoCallsSpec

\* g_rpchook_socket_fd, whatever the numbers are reused for: an entry is of the
\* descriptor open now, holds what its user asked for with fcntl and setsockopt,
\* and every socket of a hooked coroutine has one.
THEOREM TableIsExact == LibcoCallsSpec => []TableExact
<1>1. HooksInv => TableExact
  BY DEF HooksInv, TableExact
<1> QED BY <1>1, Invariance, PTL

\* The hooked read, write, send, sendto and connect never let a hooked coroutine
\* block the thread in the kernel, but for a descriptor of co_accept whose flags
\* were never set.
THEOREM HookedNeverSleeps == LibcoCallsSpec => []NeverSleeps
<1>1. HooksInv => NeverSleeps
  BY DEF HooksInv
<1> QED BY <1>1, Invariance, PTL

\* What the loops of write, send and sendto report is what the kernel took.
THEOREM WritesAccounted == LibcoCallsSpec => []WriteAccounted
<1>1. HooksInv => WriteAccounted
  BY DEF HooksInv
<1> QED BY <1>1, Invariance, PTL

\* setenv, getenv and gethostbyname of one coroutine never show it the value or
\* the answer of another.
THEOREM SpecificsAreOwn == LibcoCallsSpec => []SpecificIsOwn
BY Invariance, EnvInvOwn, PTL
=============================================================================
