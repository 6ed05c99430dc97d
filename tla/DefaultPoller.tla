--------------------------- MODULE DefaultPoller ----------------------------
(***************************************************************************)
(* The channels of an event loop and its two pollers: Channel.cc with      *)
(* Poller.cc, then poller/EPollPoller.cc, then poller/PollPoller.cc, each a*)
(* set of operators, and the choice between the two of DefaultPoller.cc,   *)
(* which makes one specification of them and shows that it implements      *)
(* Poller.tla.                                                             *)
(***************************************************************************)
EXTENDS Integers, FiniteSets, Sequences

-----------------------------------------------------------------------------
(***************************************************************************)
(* muduo/net/Channel.cc, the base class muduo/net/Poller.cc, and the list  *)
(* EventLoop::loop() gets from poll().  What the handlers of the channels  *)
(* in it do are the updates and removals before the next poll().           *)
(***************************************************************************)

CONSTANTS
  Channels,  \* Channel objects
  Fd,        \* file descriptor of each; numbers are used again
  None,      \* no channel
  Types      \* POLLIN, standing for kReadEvent, and POLLOUT

ASSUME ChannelAssumption ==
  /\ Fd \in [Channels -> Nat]
  /\ None \notin Channels

VARIABLES
  events_, index_,                \* of each channel
  everEnabled,                    \* history: channels enabled since they were added
  channels_,                      \* of the poller: the channel of each descriptor
  activeChannels_                 \* of the loop: <<channel, revents>>

channelVars == <<events_, index_, everEnabled, channels_>>

Fds == {Fd[c] : c \in Channels}
kNew == -1

ChannelTypeOK ==
  /\ events_ \in [Channels -> SUBSET Types]
  /\ index_ \in [Channels -> Int]
  /\ everEnabled \subseteq Channels
  /\ channels_ \in [Fds -> Channels \cup {None}]
  /\ activeChannels_ \subseteq Channels \X (SUBSET (Types \cup {"hup"}))

ChannelInit ==
  /\ events_ = [c \in Channels |-> {}]
  /\ index_ = [c \in Channels |-> kNew]
  /\ everEnabled = {}
  /\ channels_ = [fd \in Fds |-> None]
  /\ activeChannels_ = {}

\* Poller::hasChannel(), and so addedToLoop_
HasChannel(c) == channels_[Fd[c]] = c

\* enableReading(), enableWriting(), disableReading(), disableWriting() and
\* disableAll(): what they make of events_
Changed(events) ==
  {events \cup {type} : type \in Types} \cup {events \ {type} : type \in Types} \cup {{}}

\* A channel that is in the poller, or is new and the only one with its
\* descriptor: that belongs to one open file, and a channel leaves the poller
\* before its file is closed.
Usable(c) == channels_[Fd[c]] \in {c, None}

\* update(), up to the poller
ChannelUpdate(c, events) ==
  /\ Usable(c)
  /\ events \in Changed(events_[c])
  /\ events_' = [events_ EXCEPT ![c] = events]
  /\ everEnabled' = IF events # {} THEN everEnabled \cup {c} ELSE everEnabled

\* remove(), up to the poller, and the destruction of the channel: what is left
\* is a channel that is not made yet.  That it has no events is only asserted,
\* and so is, in EventLoop::removeChannel(), that it is not one of the list that
\* is still to be handled.
ChannelRemove(c) ==
  /\ HasChannel(c)
  /\ everEnabled' = everEnabled \ {c}
  /\ events_' = [events_ EXCEPT ![c] = {}]

-----------------------------------------------------------------------------
(* muduo/net/poller/EPollPoller.cc                                         *)

CONSTANT MaxListSize  \* bound on the growth of the list for epoll_wait()

ASSUME ListAssumption == MaxListSize \in Nat \ {0}

VARIABLES
  epollfd_,   \* kernel: descriptor :> [channel, events] that is registered
  listSize    \* events_.size()

epollVars == <<epollfd_, listSize>>

kAdded == 1
kDeleted == 2

EPollTypeOK ==
  /\ DOMAIN epollfd_ \subseteq Fds
  /\ \A fd \in DOMAIN epollfd_ : epollfd_[fd] \in [channel : Channels, events : SUBSET Types]
  /\ listSize \in 1 .. MaxListSize

EPollInit ==
  /\ epollfd_ = <<>>
  /\ listSize = 1

\* epoll_ctl()
CtlSet(c, events) ==
  [fd \in DOMAIN epollfd_ \cup {Fd[c]} |->
     IF fd = Fd[c] THEN [channel |-> c, events |-> events] ELSE epollfd_[fd]]

CtlDel(c) == [fd \in DOMAIN epollfd_ \ {Fd[c]} |-> epollfd_[fd]]

\* Mutant of EPollUpdateChannel: a channel that is disabled stays registered.
EPollUpdateNoDel(c, events) ==
  /\ index_' = [index_ EXCEPT ![c] = kAdded]
  /\ channels_' = IF index_[c] = kNew THEN [channels_ EXCEPT ![Fd[c]] = c] ELSE channels_
  /\ epollfd_' = CtlSet(c, events)
  /\ UNCHANGED listSize

EPollUpdateChannel(c, events) ==
  /\ \/ /\ index_[c] \in {kNew, kDeleted}
        /\ channels_' = IF index_[c] = kNew THEN [channels_ EXCEPT ![Fd[c]] = c] ELSE channels_
        /\ index_' = [index_ EXCEPT ![c] = kAdded]
        /\ epollfd_' = CtlSet(c, events)
     \/ /\ index_[c] = kAdded /\ events = {}
        /\ epollfd_' = CtlDel(c)
        /\ index_' = [index_ EXCEPT ![c] = kDeleted]
        /\ UNCHANGED channels_
     \/ /\ index_[c] = kAdded /\ events # {}
        /\ epollfd_' = CtlSet(c, events)
        /\ UNCHANGED <<channels_, index_>>
  /\ UNCHANGED listSize

\* Mutant of EPollRemoveChannel: the kernel is not told.
EPollRemoveNoDel(c) ==
  /\ channels_' = [channels_ EXCEPT ![Fd[c]] = None]
  /\ index_' = [index_ EXCEPT ![c] = kNew]
  /\ UNCHANGED epollVars

EPollRemoveChannel(c) ==
  /\ channels_' = [channels_ EXCEPT ![Fd[c]] = None]
  /\ epollfd_' = IF index_[c] = kAdded THEN CtlDel(c) ELSE epollfd_
  /\ index_' = [index_ EXCEPT ![c] = kNew]
  /\ UNCHANGED listSize

\* epoll_wait() and fillActiveChannels(): some of the ready channels when there
\* are more than the list takes, and a longer list the next time.
EPollPoll(ready) ==
  LET found == {fd \in DOMAIN epollfd_ : ready[fd] \cap (epollfd_[fd].events \cup {"hup"}) # {}}
  IN \E some \in SUBSET found :
       /\ Cardinality(some) = IF Cardinality(found) < listSize THEN Cardinality(found) ELSE listSize
       /\ activeChannels_' = {<<epollfd_[fd].channel, ready[fd] \cap (epollfd_[fd].events \cup {"hup"})>> : fd \in some}
       /\ listSize' = IF Cardinality(some) = listSize /\ 2 * listSize <= MaxListSize
                      THEN 2 * listSize ELSE listSize
       /\ UNCHANGED epollfd_

-----------------------------------------------------------------------------
(* muduo/net/poller/PollPoller.cc                                          *)

VARIABLE pollfds_   \* sequence of [fd, events]; index i of the code is i + 1

PollTypeOK == pollfds_ \in Seq([fd : Int, events : SUBSET Types])

PollInit == pollfds_ = <<>>

\* Mutant of IgnoredFd: does not ignore descriptor 0.
NegatedFd(fd) == -fd

\* The number poll() ignores that stands for a descriptor; its own inverse.
IgnoredFd(fd) == -fd - 1

PollUpdateChannel(c, events) ==
  \/ /\ index_[c] < 0
     /\ pollfds_' = Append(pollfds_, [fd |-> Fd[c], events |-> events])
     /\ index_' = [index_ EXCEPT ![c] = Len(pollfds_)]
     /\ channels_' = [channels_ EXCEPT ![Fd[c]] = c]
  \/ /\ index_[c] >= 0
     /\ pollfds_' = [pollfds_ EXCEPT ![index_[c] + 1] =
          [fd |-> IF events = {} THEN IgnoredFd(Fd[c]) ELSE Fd[c], events |-> events]]
     /\ UNCHANGED <<index_, channels_>>

\* The channel that owns the last entry
ChannelAtEnd ==
  LET fd == pollfds_[Len(pollfds_)].fd
  IN channels_[IF fd < 0 THEN IgnoredFd(fd) ELSE fd]

\* Mutant of PollRemoveChannel: the channel that moves keeps its index.
PollRemoveNoIndex(c) ==
  LET last == Len(pollfds_)
      swapped == [pollfds_ EXCEPT ![index_[c] + 1] = pollfds_[last]]
  IN /\ channels_' = [channels_ EXCEPT ![Fd[c]] = None]
     /\ pollfds_' = SubSeq(swapped, 1, last - 1)
     /\ index_' = [index_ EXCEPT ![c] = kNew]

\* The last entry takes the place of the one that is removed.
PollRemoveChannel(c) ==
  LET last == Len(pollfds_)
      swapped == [pollfds_ EXCEPT ![index_[c] + 1] = pollfds_[last]]
  IN /\ channels_' = [channels_ EXCEPT ![Fd[c]] = None]
     /\ pollfds_' = SubSeq(swapped, 1, last - 1)
     /\ index_' = [index_ EXCEPT ![ChannelAtEnd] = index_[c], ![c] = kNew]

\* poll() and fillActiveChannels()
PollPoll(ready) ==
  LET revents(i) == IF pollfds_[i].fd < 0 THEN {}
                    ELSE ready[pollfds_[i].fd] \cap (pollfds_[i].events \cup {"hup"})
  IN /\ activeChannels_' = {<<channels_[pollfds_[i].fd], revents(i)>> :
                              i \in {j \in 1 .. Len(pollfds_) : revents(j) # {}}}
     /\ UNCHANGED pollfds_

-----------------------------------------------------------------------------
(***************************************************************************)
(* muduo/net/poller/DefaultPoller.cc chooses a poller for a loop: the one  *)
(* around epoll, or with MUDUO_USE_POLL the one around poll(2).  Both      *)
(* implement the Poller of Poller.tla.                                     *)
(***************************************************************************)

CONSTANT Ready     \* what the kernel may know to be ready on a descriptor

ASSUME ReadyAssumption == Ready \subseteq SUBSET (Types \cup {"hup"})

VARIABLE usePoll   \* MUDUO_USE_POLL is set

vars == <<channelVars, activeChannels_, epollVars, pollfds_, usePoll>>

TypeOK ==
  /\ ChannelTypeOK /\ EPollTypeOK /\ PollTypeOK
  /\ usePoll \in BOOLEAN
  /\ usePoll => \A c \in Channels : index_[c] < Len(pollfds_)

Init ==
  /\ ChannelInit /\ EPollInit /\ PollInit
  /\ usePoll \in BOOLEAN

Update(c, events) ==
  /\ ChannelUpdate(c, events)
  /\ IF usePoll
     THEN PollUpdateChannel(c, events) /\ UNCHANGED epollVars
     ELSE EPollUpdateChannel(c, events) /\ UNCHANGED pollfds_
  /\ UNCHANGED <<activeChannels_, usePoll>>

Remove(c) ==
  /\ ChannelRemove(c)
  /\ IF usePoll
     THEN PollRemoveChannel(c) /\ UNCHANGED epollVars
     ELSE EPollRemoveChannel(c) /\ UNCHANGED pollfds_
  /\ UNCHANGED <<activeChannels_, usePoll>>

Poll(ready) ==
  /\ IF usePoll
     THEN PollPoll(ready) /\ UNCHANGED epollVars
     ELSE EPollPoll(ready) /\ UNCHANGED pollfds_
  /\ UNCHANGED <<channelVars, usePoll>>

Next ==
  \/ \E c \in Channels :
       \/ \E events \in Changed(events_[c]) : Update(c, events)
       \/ Remove(c)
  \/ \E ready \in [Fds -> Ready] : Poll(ready)

Spec == Init /\ [][Next]_vars

-----------------------------------------------------------------------------
(* Properties.                                                             *)

Registered == {c \in Channels : HasChannel(c)}

\* What the entry of a channel in pollfds_ is.
Entry(c) == pollfds_[index_[c] + 1]

\* PollPoller: over any additions and removals that move entries around, each
\* registered channel has its own entry at its index, with its events, and there
\* are no other entries (the assertions of updateChannel() and removeChannel()).
\* The entry of a channel without events is ignored, unless the channel was
\* disabled before it was ever enabled.
IndexValid ==
  usePoll =>
    /\ TypeOK
    /\ Len(pollfds_) = Cardinality(Registered)
    /\ \A c \in Registered :
         /\ index_[c] \in 0 .. Len(pollfds_) - 1
         /\ Entry(c).fd \in {Fd[c], -Fd[c] - 1}
         /\ Entry(c).events = events_[c]
         /\ c \in everEnabled /\ events_[c] = {} => Entry(c).fd = -Fd[c] - 1

\* EPollPoller: the kernel has registered exactly the channels whose index is
\* kAdded, each with its own pointer and its present events.
KernelKnows ==
  ~usePoll =>
    /\ TypeOK
    /\ DOMAIN epollfd_ = {Fd[c] : c \in {d \in Registered : index_[d] = kAdded}}
    /\ \A c \in Registered :
         /\ index_[c] \in {kAdded, kDeleted}
         /\ index_[c] = kAdded => epollfd_[Fd[c]] = [channel |-> c, events |-> events_[c]]
         /\ index_[c] = kDeleted => events_[c] = {}

\* What a channel, the poller and the kernel know of it agrees, for both pollers.
RegistrationAgrees == IndexValid /\ KernelKnows

-----------------------------------------------------------------------------
(* The promise.                                                            *)

Absent == {"absent"}
Ignored == {"ignored"}

ASSUME MarksAssumption == "absent" \notin Types /\ "ignored" \notin Types

Watched(c) ==
  IF ~HasChannel(c) THEN Absent
  ELSE IF usePoll THEN (IF Entry(c).fd < 0 THEN Ignored ELSE Entry(c).events)
  ELSE IF index_[c] = kDeleted THEN Ignored ELSE epollfd_[Fd[c]].events

P == INSTANCE Poller WITH watch <- [c \in Channels |-> Watched(c)], reports <- activeChannels_

\* Both pollers implement Poller.tla: what loop() gets from poll() is what its
\* channels are watched for at that time, and disabling silences a channel.
PollerSpec == P!Spec

-----------------------------------------------------------------------------
\* Channels 0, 2 and 4 have the descriptors 0, 1 and 2.
MCFd == [c \in Channels |-> c \div 2]
=============================================================================
