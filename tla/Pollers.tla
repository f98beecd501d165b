------------------------------- MODULE Pollers -------------------------------
(***************************************************************************)
(* The two Pollers of muduo side by side, driven by the same Channels:     *)
(* PollPoller keeps a vector of pollfd and each Channel the place of its   *)
(* own, EPollPoller keeps the registrations in the kernel and each Channel *)
(* the state of its own.  channels_ is that of either one.                 *)
(***************************************************************************)
EXTENDS Integers, SequencesExt, FiniteSets

CONSTANTS
    Channels,   \* Channel objects, constructed and destroyed over and over
    ChannelFds  \* descriptors (naturals), reused

ASSUME PollerConstants == ChannelFds \subseteq Nat

VARIABLES
    chan,       \* fd_, events_ and index_ (one per Poller) of each Channel
    channels_,  \* descriptor -> Channel
    pollfds_,   \* PollPoller: fd, negative if it is to be ignored, and events
    registered, \* the kernel's epoll set: descriptor -> Channel and events
    ctlFailed,  \* an epoll_ctl() has failed: LOG_SYSFATAL aborts
    again       \* Channels updated after they had been disabled

pollerVars == <<chan, channels_, pollfds_, registered, ctlFailed, again>>

kNew == -1
kAdded == 1
kDeleted == 2
NoChannel == [fd |-> -1, events |-> {}, place |-> -1, index |-> kNew]
Live(c) == chan[c] # NoChannel
isNoneEvent(c) == chan[c].events = {}
Added(c) == Live(c) /\ chan[c].fd \in DOMAIN channels_ /\ channels_[chan[c].fd] = c

-----------------------------------------------------------------------------
(* PollPoller.  Places count from 0, as in the code. *)

Ignored(f) == -f - 1
FdOf(f) == IF f < 0 THEN Ignored(f) ELSE f

\* updateChannel: a new one is added; the entry of an old one keeps the sign of
\* its fd, but for a Channel without events, which is ignored.
PolledFd(old, f, events) == IF events = {} THEN Ignored(f) ELSE old
PollUpdated(r) ==
    IF r.place < 0 THEN Append(pollfds_, [fd |-> r.fd, events |-> r.events])
    ELSE [pollfds_ EXCEPT ![r.place + 1] =
            [fd |-> PolledFd(@.fd, r.fd, r.events), events |-> r.events]]

\* removeChannel: the last one takes the place of the one that goes, and its
\* Channel is told.
PollRemoved(r) == SubSeq([pollfds_ EXCEPT ![r.place + 1] = Last(pollfds_)], 1, Len(pollfds_) - 1)
MovedNobody(c) == {}  \* mutant: the Channel that was moved is not told
Moved(c) ==
    IF chan[c].place = Len(pollfds_) - 1 THEN {} ELSE {channels_[FdOf(Last(pollfds_).fd)]}

-----------------------------------------------------------------------------
(* EPollPoller *)

\* update: epoll_ctl.  Adding what is there and changing what is not there fail.
Ctl(op, c, events) ==
    LET fd == chan[c].fd
        there == fd \in DOMAIN registered
    IN  /\ ctlFailed' = (ctlFailed \/ there = (op = "ADD"))
        /\ registered' =
             [f \in (DOMAIN registered \cup {fd}) \ (IF op = "DEL" THEN {fd} ELSE {}) |->
                IF f = fd THEN [channel |-> c, events |-> events] ELSE registered[f]]

\* updateChannel: the operation, and the index_ after it.
Operation(r) ==
    IF r.index \in {kNew, kDeleted} THEN [op |-> "ADD", index |-> kAdded]
    ELSE IF r.events = {} THEN [op |-> "DEL", index |-> kDeleted]
    ELSE [op |-> "MOD", index |-> kAdded]

-----------------------------------------------------------------------------
(* Channels: enableReading() ... disableAll() change events_ and update.    *)
(* The first of these calls is one that enables.                           *)

NewPollChannel(c) ==
    /\ ~Live(c)
    /\ \E f \in ChannelFds :
         /\ \A d \in Channels : Live(d) => chan[d].fd # f
         /\ chan' = [chan EXCEPT ![c] = [NoChannel EXCEPT !.fd = f]]
    /\ UNCHANGED <<channels_, pollfds_, registered, ctlFailed, again>>

updateChannel(c) ==
    /\ Live(c)
    /\ \E events \in SUBSET {"in", "out"} :
         LET r == [chan[c] EXCEPT !.events = events]
             o == Operation(r)
             place == IF r.place < 0 THEN Len(pollfds_) ELSE r.place
         IN  /\ events # {} \/ Added(c)
             /\ pollfds_' = PollUpdated(r)
             /\ Ctl(o.op, c, events)
             /\ chan' = [chan EXCEPT ![c] = [r EXCEPT !.place = place, !.index = o.index]]
    /\ channels_' = [f \in DOMAIN channels_ \cup {chan[c].fd} |->
                        IF f = chan[c].fd THEN c ELSE channels_[f]]
    /\ again' = IF Added(c) /\ isNoneEvent(c) THEN again \cup {c} ELSE again

\* remove() of a Channel that was disabled, then its destructor; the descriptor
\* is closed after it.
removeChannel(c) ==
    /\ Added(c) /\ isNoneEvent(c)
    /\ pollfds_' = PollRemoved(chan[c])
    /\ chan' = [d \in Channels |->
                  IF d = c THEN NoChannel
                  ELSE IF d \in Moved(c) THEN [chan[d] EXCEPT !.place = chan[c].place]
                  ELSE chan[d]]
    /\ channels_' = [f \in DOMAIN channels_ \ {chan[c].fd} |-> channels_[f]]
    /\ IF chan[c].index = kAdded THEN Ctl("DEL", c, {}) ELSE UNCHANGED <<registered, ctlFailed>>
    /\ again' = again \ {c}

PollInit ==
    /\ chan = [c \in Channels |-> NoChannel] /\ channels_ = <<>> /\ pollfds_ = <<>>
    /\ registered = <<>> /\ ctlFailed = FALSE /\ again = {}

PollNext == \E c \in Channels : NewPollChannel(c) \/ updateChannel(c) \/ removeChannel(c)

PollSpec == PollInit /\ [][PollNext]_pollerVars

-----------------------------------------------------------------------------
(* poll() and fillActiveChannels(): the Channels reported when the          *)
(* descriptors have the events ready; a hangup is always reported.         *)

Raised(ready, f, events) == (ready[f] \cap (events \cup {"hup"})) # {}
ActiveOfPoll(ready) ==
    {channels_[pollfds_[i].fd] :
        i \in {j \in DOMAIN pollfds_ :
                 pollfds_[j].fd >= 0 /\ Raised(ready, pollfds_[j].fd, pollfds_[j].events)}}
ActiveOfEpoll(ready) ==
    {registered[f].channel : f \in {g \in DOMAIN registered : Raised(ready, g, registered[g].events)}}

-----------------------------------------------------------------------------
(* Properties. *)

\* The vector of PollPoller has one entry for each Channel, in the place the
\* Channel knows, with its events, after any order of removals, and ignores
\* those without events.
PlacesExact ==
    /\ Len(pollfds_) = Cardinality(DOMAIN channels_)
    /\ \A c \in Channels :
         Added(c) =>
            /\ chan[c].place + 1 \in DOMAIN pollfds_
            /\ FdOf(pollfds_[chan[c].place + 1].fd) = chan[c].fd
            /\ pollfds_[chan[c].place + 1].events = chan[c].events
            /\ isNoneEvent(c) => pollfds_[chan[c].place + 1].fd < 0

\* epoll_ctl() is never asked to add what is registered or to change what is
\* not, which would abort the program.
CtlSucceeds == ~ctlFailed

\* Whatever is ready, both Pollers report the same Channels, those that wait
\* for it; but for a Channel that was enabled again after it had no events,
\* which PollPoller goes on ignoring.
SameReported ==
    \A ready \in [ChannelFds -> {{}, {"in"}, {"out"}, {"hup"}}] :
        LET wanted == {c \in Channels : Added(c) /\ ~isNoneEvent(c)
                                          /\ Raised(ready, chan[c].fd, chan[c].events)}
        IN  /\ wanted \subseteq ActiveOfEpoll(ready)
            /\ ActiveOfPoll(ready) \ again = ActiveOfEpoll(ready) \ again

\* Both Pollers know every Channel for what it is and report the same ones.
PollersExact == PlacesExact /\ CtlSucceeds /\ SameReported
=============================================================================
