------------------------------- MODULE Poller -------------------------------
(***************************************************************************)
(* The registration of channels with a loop's poller: net/Channel.{h,cc},  *)
(* EventLoop::updateChannel() / removeChannel() and the two pollers,       *)
(* net/poller/EPollPoller.cc and net/poller/PollPoller.cc, of which        *)
(* Poller::newDefaultPoller() makes one.                                   *)
(*                                                                         *)
(* All of it runs on the loop's thread.  Users call enable*(), disable*()  *)
(* and remove() from functors and from the handlers of active channels;    *)
(* as everywhere in the library a channel is removed once, without events, *)
(* by a functor or by its own handler, and its descriptor may then be      *)
(* reused by another channel.  Most channels are enabled first; that of an *)
(* Acceptor that never listened is first updated by disableAll(), in       *)
(* ~Acceptor().                                                            *)
(***************************************************************************)
EXTENDS Integers, Sequences, FiniteSets

CONSTANTS Channels,          \* the Channel objects
          Fds,               \* descriptors
          kInitEventListSize, \* initial size of EPollPoller::events_
          None               \* nullptr, or no value

ASSUME FdsAssumption == Fds \subseteq Nat
ASSUME EventListAssumption == kInitEventListSize \in Nat \ {0}

Events == {"read", "write"}

kNew == -1
kAdded == 1
kDeleted == 2

\* chan: fd_, events_, index_ of every Channel; channels: channels_; epoll:
\* the events and the data.ptr the kernel keeps per descriptor; pollfds.
EpollEntries == [events : SUBSET Events, ptr : Channels]
PollerStates ==
  [chan     : [Channels -> [fd : Fds \union {None}, events : SUBSET Events, index : Int]],
   channels : [Fds -> Channels \union {None}],
   epoll    : [Fds -> EpollEntries \union {None}],
   pollfds  : Seq([fd : Int, events : SUBSET Events])]

ASSUME NoneAssumption ==
  None \notin Fds /\ None \notin Channels /\ None \notin EpollEntries /\ None \notin PollerStates

VARIABLES kind,      \* "epoll" or "poll"
          poller,    \* the poller's fields and its channels' (see PollerStates)
          eventList, \* events_.size()
          failed,    \* where an assertion or LOG_SYSFATAL ended the program
          muted      \* history: channels that an update after the first left without events

pollerVars == <<kind, poller, eventList, failed, muted>>

\* A poller without channels, and channels before their first update.
NewPoller ==
  [chan     |-> [c \in Channels |-> [fd |-> None, events |-> {}, index |-> kNew]],
   channels |-> [fd \in Fds |-> None],
   epoll    |-> [fd \in Fds |-> None],
   pollfds  |-> <<>>]

\* Poller::newDefaultPoller().
PollerInit ==
  /\ kind \in {"epoll", "poll"}
  /\ poller = NewPoller
  /\ eventList = kInitEventListSize
  /\ failed = None
  /\ muted = {}

-----------------------------------------------------------------------------
(* EPollPoller.  The result of an operation is the new poller, or Abort.   *)

Abort == None

\* update(): epoll_ctl().  ADD of a known and MOD of an unknown descriptor
\* fail, which is fatal.
update(p, op, c) ==
  LET r == p.chan[c]
  IN IF op = "DEL" THEN [p EXCEPT !.epoll[r.fd] = None]
     ELSE IF (op = "ADD") # (p.epoll[r.fd] = None) THEN Abort
     ELSE [p EXCEPT !.epoll[r.fd] = [events |-> r.events, ptr |-> c]]

\* updateChannel().
EPollUpdate(p, c) ==
  LET r     == p.chan[c]
      added == [p EXCEPT !.channels[r.fd] = c, !.chan[c].index = kAdded]
  IN IF p.channels[r.fd] # (IF r.index = kNew THEN None ELSE c) THEN Abort
     ELSE IF r.index \in {kNew, kDeleted} THEN update(added, "ADD", c)
     ELSE IF r.events = {} THEN update([p EXCEPT !.chan[c].index = kDeleted], "DEL", c)
     ELSE update(p, "MOD", c)

\* Fault: the kernel is not told about a removed channel.
EPollRemoveQuietly(p, c) == [p EXCEPT !.channels[p.chan[c].fd] = None, !.chan[c].index = kNew]

\* removeChannel().
EPollRemove(p, c) ==
  LET r       == p.chan[c]
      removed == [p EXCEPT !.channels[r.fd] = None, !.chan[c].index = kNew]
  IN IF p.channels[r.fd] # c \/ r.events # {} \/ r.index = kNew THEN Abort
     ELSE IF r.index = kAdded THEN update(removed, "DEL", c)
     ELSE removed

-----------------------------------------------------------------------------
(* PollPoller.  index_ is the position in pollfds_, counted from 0.        *)

\* How the descriptor of an entry without events is stored.
Negated(fd) == -fd - 1

\* updateChannel().  A negated descriptor is not restored when the channel
\* has events again.
PollUpdate(p, c) ==
  LET r   == p.chan[c]
      i   == r.index + 1
      fd2 == IF r.events = {} THEN Negated(r.fd) ELSE p.pollfds[i].fd
  IN IF r.index < 0
     THEN IF p.channels[r.fd] # None THEN Abort
          ELSE [p EXCEPT !.pollfds = Append(@, [fd |-> r.fd, events |-> r.events]),
                         !.chan[c].index = Len(p.pollfds),
                         !.channels[r.fd] = c]
     ELSE IF \/ p.channels[r.fd] # c \/ i > Len(p.pollfds)
             \/ p.pollfds[i].fd \notin {r.fd, Negated(r.fd)} THEN Abort
     ELSE [p EXCEPT !.pollfds[i] = [fd |-> fd2, events |-> r.events]]

\* The channel of the entry that removeChannel() moves.
AtEnd(p) == LET fd == p.pollfds[Len(p.pollfds)].fd
            IN p.channels[IF fd < 0 THEN Negated(fd) ELSE fd]

\* Fault: the channel whose entry moves keeps its old index.
IndexStays(p, i) == p.chan

\* channels_[channelAtEnd]->setIndex(idx).
MovedIndex(p, i) == [p.chan EXCEPT ![AtEnd(p)].index = i - 1]

\* removeChannel(): the last entry takes the place of the removed one.  The
\* removed channel keeps its index.
PollRemove(p, c) ==
  LET r    == p.chan[c]
      i    == r.index + 1
      n    == Len(p.pollfds)
  IN IF \/ r.index < 0 \/ i > n \/ p.channels[r.fd] # c \/ r.events # {}
        \/ p.pollfds[i] # [fd |-> Negated(r.fd), events |-> r.events] THEN Abort
     ELSE IF i = n THEN [p EXCEPT !.channels[r.fd] = None, !.pollfds = SubSeq(@, 1, n - 1)]
     ELSE [p EXCEPT !.channels[r.fd] = None,
                    !.chan = MovedIndex(p, i),
                    !.pollfds = SubSeq([@ EXCEPT ![i] = p.pollfds[n]], 1, n - 1)]

-----------------------------------------------------------------------------
(* Calls on channels.                                                      *)

updateChannel(p, c) == IF kind = "epoll" THEN EPollUpdate(p, c) ELSE PollUpdate(p, c)
removeChannel(p, c) == IF kind = "epoll" THEN EPollRemove(p, c) ELSE PollRemove(p, c)

\* An assertion that fails, or a fatal error, in a call for channel c.
Failure(where, c) == [where |-> where, channel |-> c]

Becomes(p, where, c) ==
  IF p = Abort THEN failed' = Failure(where, c) /\ UNCHANGED poller
               ELSE failed' = None /\ poller' = p

Registered(c) == poller.chan[c].fd # None /\ poller.channels[poller.chan[c].fd] = c

\* What the first update of a channel asks for: enable*(), or disableAll().
FirstEvents == {{}} \union {{e} : e \in Events}

\* Channel(loop, fd) and its first update.
Add(c, fd, es) ==
  /\ failed = None
  /\ poller.chan[c].fd = None
  /\ poller.channels[fd] = None
  /\ Becomes(updateChannel([poller EXCEPT !.chan[c].fd = fd, !.chan[c].events = es], c), "update", c)
  /\ UNCHANGED <<kind, eventList, muted>>

\* enableReading(), disableReading(), enableWriting(), disableWriting(),
\* disableAll().
Update(c, es) ==
  /\ failed = None
  /\ Registered(c)
  /\ \/ \E e \in Events : es \in {poller.chan[c].events \union {e}, poller.chan[c].events \ {e}}
     \/ es = {}
  /\ Becomes(updateChannel([poller EXCEPT !.chan[c].events = es], c), "update", c)
  /\ muted' = IF es = {} THEN muted \union {c} ELSE muted
  /\ UNCHANGED <<kind, eventList>>

\* Channel::remove() -> EventLoop::removeChannel(), of a channel without events.
Remove(c) ==
  /\ failed = None
  /\ Registered(c)
  /\ poller.chan[c].events = {}
  /\ Becomes(removeChannel(poller, c), "remove", c)
  /\ UNCHANGED <<kind, eventList, muted>>

-----------------------------------------------------------------------------
(* EventLoop::loop(): poll() and the dispatch.                             *)

\* EPollPoller::poll(): the kernel reports at most events_.size() of the
\* descriptors it has; errors and hang-ups need no interest.  A full list is
\* doubled.
EPoll(S) ==
  /\ kind = "epoll"
  /\ failed = None
  /\ S # {}
  /\ \A fd \in S : poller.epoll[fd] # None
  /\ Cardinality(S) <= eventList
  /\ eventList' = IF Cardinality(S) = eventList THEN 2 * eventList ELSE eventList
  /\ failed' = IF \A fd \in S : poller.channels[fd] = poller.epoll[fd].ptr
                THEN None ELSE Failure("fill", None)
  /\ UNCHANGED <<kind, poller, muted>>

\* PollPoller::poll(): n entries are ready, and fillActiveChannels() takes
\* the first n entries whether they are ready or not.
Poll(n) ==
  /\ kind = "poll"
  /\ failed = None
  /\ n \in 1 .. Cardinality({i \in DOMAIN poller.pollfds : poller.pollfds[i].fd >= 0})
  /\ failed' = IF \A i \in 1 .. n : poller.pollfds[i].fd >= 0
                THEN None ELSE Failure("fill", None)
  /\ UNCHANGED <<kind, poller, eventList, muted>>

PollerNext ==
  \/ \E c \in Channels : Remove(c)
  \/ \E c \in Channels, fd \in Fds, es \in FirstEvents : Add(c, fd, es)
  \/ \E c \in Channels, es \in SUBSET Events : Update(c, es)
  \/ \E S \in SUBSET Fds : EPoll(S)
  \/ \E n \in 1 .. Cardinality(Fds) : Poll(n)

PollerSpec == PollerInit /\ [][PollerNext]_pollerVars

-----------------------------------------------------------------------------
(* Properties.                                                             *)

\* The assertions of both pollers and the fatal errors of epoll_ctl() are
\* never met, except two of PollPoller's: the one in fillActiveChannels()
\* (:37) fails when a negated entry stands before a ready one, and the one in
\* removeChannel() (:87) fails for a channel whose only update left it without
\* events, as in ~Acceptor() (Acceptor.cc:25) after no listen(): updateChannel()
\* negates the descriptor of a known channel only.
RegistrationHolds ==
  failed # None =>
    /\ kind = "poll"
    /\ \/ /\ failed.where = "fill"
          /\ \E i \in DOMAIN poller.pollfds : poller.pollfds[i].fd < 0
       \/ /\ failed.where = "remove"
          /\ failed.channel \in Channels \ muted

\* What the kernel is asked to watch for a channel.
Watched(c) ==
  LET r == poller.chan[c]
      e == poller.epoll[r.fd]
      p == poller.pollfds[r.index + 1]
  IN IF kind = "epoll" THEN IF e = None THEN {} ELSE e.events
     ELSE IF p.fd < 0 THEN {} ELSE p.events

\* The kernel never watches an event that the channel does not ask for, nor
\* anything for a descriptor without a channel, whatever was removed, moved in
\* pollfds_ and reused before; and it watches all the channel asks for, under
\* EPollPoller always, under PollPoller as long as no update after the first
\* left the channel without events (see IdleIsTemporary).
WatchedIsAsked ==
  /\ \A c \in Channels : Registered(c) =>
       /\ Watched(c) \subseteq poller.chan[c].events
       /\ kind = "epoll" \/ c \notin muted => Watched(c) = poller.chan[c].events
  /\ \A fd \in Fds : poller.channels[fd] = None =>
       /\ poller.epoll[fd] = None
       /\ \A i \in DOMAIN poller.pollfds : poller.pollfds[i].fd \notin {fd, Negated(fd)}

\* A channel without events is unwatched temporarily, as the comment at
\* PollPoller.cc:70 has it: whenever it has events again the kernel watches
\* them.  PollPoller::updateChannel() never restores the negated descriptor.
IdleIsTemporary == \A c \in Channels : Registered(c) => Watched(c) = poller.chan[c].events
=============================================================================
