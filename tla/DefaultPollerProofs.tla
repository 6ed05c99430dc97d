------------------------- MODULE DefaultPollerProofs --------------------------
(***************************************************************************)
(* Both pollers for any channels, any descriptors and any events: what a    *)
(* channel, its poller and the kernel know of it agrees, and both implement *)
(* Poller.tla.                                                              *)
(*                                                                         *)
(* The argument: a descriptor has one channel, which is registered, so the  *)
(* descriptor in an entry of pollfds_, or the one epoll knows, tells whose  *)
(* entry it is; and every entry is somebody's.                              *)
(***************************************************************************)
EXTENDS DefaultPoller, FiniteSetTheorems, TLAPS

\* The provers of a step that names none, with their time limits.
USE SMTT(30), ZenonT(30)

-----------------------------------------------------------------------------
(* The invariant.                                                          *)

\* A descriptor is mapped to a channel of its own, or to none; only registered
\* channels have been enabled.
Mapped ==
  /\ \A fd \in Fds : channels_[fd] # None => Fd[channels_[fd]] = fd
  /\ \A c \in everEnabled : HasChannel(c)

\* The entry of pollfds_ that a registered channel has at its index.
EntryOf(c) ==
  /\ index_[c] \in 0 .. Len(pollfds_) - 1
  /\ Entry(c).fd \in {Fd[c], -Fd[c] - 1}
  /\ Entry(c).events = events_[c]
  /\ events_[c] # {} => Entry(c).fd = Fd[c]
  /\ c \in everEnabled /\ events_[c] = {} => Entry(c).fd = -Fd[c] - 1

\* PollPoller: registered channels have entries, others have the index of a new
\* channel, and every entry has its channel.
Indexed ==
  /\ \A c \in Channels : IF HasChannel(c) THEN EntryOf(c) ELSE index_[c] = kNew
  /\ \A i \in 1 .. Len(pollfds_) : \E c \in Channels : HasChannel(c) /\ index_[c] = i - 1

\* EPollPoller: what the index of a channel says of it.
Known ==
  /\ \A c \in Channels :
       /\ index_[c] \in (IF HasChannel(c) THEN {kAdded, kDeleted} ELSE {kNew})
       /\ index_[c] = kAdded => /\ Fd[c] \in DOMAIN epollfd_
                                /\ epollfd_[Fd[c]] = [channel |-> c, events |-> events_[c]]
       /\ index_[c] = kDeleted => events_[c] = {}
  /\ \A fd \in DOMAIN epollfd_ : \E c \in Channels : HasChannel(c) /\ index_[c] = kAdded /\ Fd[c] = fd

Types0 == ChannelTypeOK /\ EPollTypeOK /\ PollTypeOK /\ usePoll \in BOOLEAN

PollerInv ==
  /\ Types0 /\ Mapped
  /\ usePoll => Indexed
  /\ ~ usePoll => Known

\* A poller without channels has the invariant.
LEMMA InitInv == Init => PollerInv
  <1> SUFFICES ASSUME Init PROVE PollerInv
    OBVIOUS
  <1> USE DEF Init, ChannelInit, EPollInit, PollInit
  <1>1. \A c \in Channels : Fd[c] \in Fds /\ ~ HasChannel(c)
    BY ChannelAssumption DEF HasChannel, Fds
  <1>2. Types0
    <2>1. ChannelTypeOK
      <3>1. events_ \in [Channels -> SUBSET Types] /\ index_ \in [Channels -> Int]
        BY DEF kNew
      <3>2. channels_ \in [Fds -> Channels \cup {None}]
        OBVIOUS
      <3>3. /\ everEnabled \subseteq Channels
            /\ activeChannels_ \subseteq Channels \X (SUBSET (Types \cup {"hup"}))
        OBVIOUS
      <3> QED
        BY <3>1, <3>2, <3>3, ZenonT(30) DEF ChannelTypeOK
    <2>2. EPollTypeOK
      BY ListAssumption DEF EPollTypeOK
    <2>3. PollTypeOK
      BY DEF PollTypeOK
    <2> QED
      BY <2>1, <2>2, <2>3 DEF Types0
  <1>3. Mapped
    BY DEF Mapped
  <1>4. Indexed
    BY <1>1 DEF Indexed
  <1>5. Known
    BY <1>1 DEF Known, kNew, kAdded, kDeleted
  <1> QED
    BY <1>2, <1>3, <1>4, <1>5 DEF PollerInv

-----------------------------------------------------------------------------
(* What the types say of one channel.                                      *)

\* A descriptor is a number, and the poller maps it to a channel or to none.
LEMMA ChannelTypes ==
  ASSUME Types0, NEW c \in Channels
  PROVE  /\ Fd[c] \in Fds /\ Fd[c] \in Nat /\ c # None
         /\ events_[c] \in SUBSET Types /\ index_[c] \in Int
         /\ channels_[Fd[c]] \in Channels \cup {None}
  BY ChannelAssumption DEF Types0, ChannelTypeOK, Fds

\* Of two channels with one descriptor at most one is registered.
LEMMA OneChannel ==
  ASSUME Types0, NEW c \in Channels, Usable(c), NEW d \in Channels, d # c, HasChannel(d)
  PROVE  Fd[d] # Fd[c]
  BY ChannelTypes DEF Usable, HasChannel

-----------------------------------------------------------------------------
(* update().                                                               *)

\* What enableReading() and its like leave of the poller's map: the channel is
\* registered, and so are the others that were.
LEMMA UpdateMaps ==
  ASSUME PollerInv, NEW c \in Channels, NEW events, Update(c, events)
  PROVE  /\ events \in SUBSET Types
         /\ events_' = [events_ EXCEPT ![c] = events]
         /\ everEnabled' = IF events # {} THEN everEnabled \cup {c} ELSE everEnabled
         /\ UNCHANGED <<activeChannels_, usePoll>>
         /\ channels_' \in [Fds -> Channels \cup {None}]
         /\ channels_'[Fd[c]] = c /\ \A fd \in Fds \ {Fd[c]} : channels_'[fd] = channels_[fd]
         /\ HasChannel(c)' /\ \A d \in Channels \ {c} : HasChannel(d)' <=> HasChannel(d)
  <1>1. /\ Usable(c) /\ events \in Changed(events_[c])
        /\ events_' = [events_ EXCEPT ![c] = events]
        /\ everEnabled' = IF events # {} THEN everEnabled \cup {c} ELSE everEnabled
        /\ UNCHANGED <<activeChannels_, usePoll>>
    BY DEF Update, ChannelUpdate
  <1>t. /\ Types0 /\ Fd[c] \in Fds /\ events_[c] \in SUBSET Types /\ c # None
        /\ channels_ \in [Fds -> Channels \cup {None}] /\ index_[c] \in Int
        /\ \A d \in Channels : Fd[d] \in Fds /\ d # None
    BY ChannelTypes DEF PollerInv, Types0, ChannelTypeOK
  <1>2. events \in SUBSET Types
    BY <1>1, <1>t DEF Changed
  <1>3. \/ channels_' = channels_ /\ HasChannel(c)
        \/ channels_' = [channels_ EXCEPT ![Fd[c]] = c]
    <2>1. CASE usePoll
      BY <2>1, <1>t DEF Update, PollUpdateChannel, PollerInv, Indexed, EntryOf, kNew
    <2>2. CASE ~ usePoll
      <3>1. index_[c] \in (IF HasChannel(c) THEN {kAdded, kDeleted} ELSE {kNew})
        BY <2>2, ZenonT(30) DEF PollerInv, Known
      <3>2. EPollUpdateChannel(c, events)
        BY <2>2 DEF Update
      <3> QED
        BY <3>1, <3>2 DEF EPollUpdateChannel, kNew, kAdded, kDeleted
    <2> QED
      BY <2>1, <2>2
  <1>4. /\ channels_' \in [Fds -> Channels \cup {None}]
        /\ channels_'[Fd[c]] = c /\ \A fd \in Fds \ {Fd[c]} : channels_'[fd] = channels_[fd]
    BY <1>3, <1>t DEF HasChannel
  <1>5. ASSUME NEW d \in Channels \ {c} PROVE HasChannel(d)' <=> HasChannel(d)
    <2>1. CASE Fd[d] = Fd[c]
      BY <2>1, <1>1, <1>4, <1>t, OneChannel DEF HasChannel
    <2>2. CASE Fd[d] # Fd[c]
      BY <2>2, <1>4, <1>t DEF HasChannel
    <2> QED
      BY <2>1, <2>2
  <1> QED
    BY <1>1, <1>2, <1>4, <1>5 DEF HasChannel

\* What a step on one channel leaves to every other: its entry, wherever it is
\* now, or its index.
EntrySame(c) == \A d \in Channels \ {c} : HasChannel(d) => Entry(d)'.fd = Entry(d).fd
IndexSame(c) == \A d \in Channels \ {c} : index_'[d] = index_[d]

\* PollPoller::updateChannel() appends the entry of a new channel or writes that
\* of a known one; a channel that watches nothing has its descriptor negated, and
\* the entries of the others stay.
LEMMA PollUpdateKeeps ==
  ASSUME PollerInv, NEW c \in Channels, NEW events, Update(c, events), usePoll
  PROVE  /\ PollTypeOK' /\ index_' \in [Channels -> Int] /\ Indexed' /\ UNCHANGED epollVars
         /\ HasChannel(c) /\ events = {} => Entry(c)'.fd = -Fd[c] - 1
         /\ EntrySame(c)
  <1> DEFINE new == [fd |-> IF events = {} /\ HasChannel(c) THEN IgnoredFd(Fd[c]) ELSE Fd[c],
                     events |-> events]
             k == IF HasChannel(c) THEN index_[c] ELSE Len(pollfds_)
  <1>t. /\ Types0 /\ Fd[c] \in Nat /\ index_ \in [Channels -> Int]
        /\ pollfds_ \in Seq([fd : Int, events : SUBSET Types]) /\ Len(pollfds_) \in Nat
    BY ChannelTypes DEF PollerInv, Types0, ChannelTypeOK, PollTypeOK
  <1>u. /\ events \in SUBSET Types /\ events_' = [events_ EXCEPT ![c] = events]
        /\ everEnabled' = IF events # {} THEN everEnabled \cup {c} ELSE everEnabled
        /\ HasChannel(c)' /\ \A d \in Channels \ {c} : HasChannel(d)' <=> HasChannel(d)
    BY UpdateMaps, ZenonT(30)
  <1>1. IF HasChannel(c) THEN EntryOf(c) ELSE index_[c] = kNew /\ c \notin everEnabled
    BY DEF PollerInv, Indexed, Mapped
  <1>2. new \in [fd : Int, events : SUBSET Types] /\ k \in 0 .. Len(pollfds_)
    BY <1>t, <1>u, <1>1 DEF IgnoredFd, EntryOf
  <1>3. /\ index_' = [index_ EXCEPT ![c] = k]
        /\ pollfds_' = IF HasChannel(c) THEN [pollfds_ EXCEPT ![k + 1] = new] ELSE Append(pollfds_, new)
        /\ UNCHANGED epollVars
    <2>1. CASE HasChannel(c)
      BY <2>1, <1>1, <1>t DEF Update, PollUpdateChannel, EntryOf
    <2>2. CASE ~ HasChannel(c)
      BY <2>2, <1>1, <1>t DEF Update, PollUpdateChannel, kNew
    <2> QED
      BY <2>1, <2>2
  <1> HIDE DEF new, k
  <1>4. /\ pollfds_' \in Seq([fd : Int, events : SUBSET Types])
        /\ Len(pollfds_') = (IF HasChannel(c) THEN Len(pollfds_) ELSE Len(pollfds_) + 1)
        /\ pollfds_'[k + 1] = new
        /\ \A i \in 1 .. Len(pollfds_) : i # k + 1 => pollfds_'[i] = pollfds_[i]
    <2>1. CASE HasChannel(c)
      BY <2>1, <1>1, <1>2, <1>3, <1>t DEF EntryOf, k
    <2>2. CASE ~ HasChannel(c)
      BY <2>2, <1>1, <1>2, <1>3, <1>t DEF k
    <2> QED
      BY <2>1, <2>2
  <1>5. EntryOf(c)' /\ (HasChannel(c) /\ events = {} => Entry(c)'.fd = -Fd[c] - 1)
    <2>1. k \in 0 .. Len(pollfds_') - 1 /\ index_'[c] = k /\ events_'[c] = events
      BY <1>1, <1>2, <1>3, <1>4, <1>t, <1>u, ChannelTypes DEF k, EntryOf, PollerInv, Types0, ChannelTypeOK
    <2>2. pollfds_'[k + 1].fd = (IF events = {} /\ HasChannel(c) THEN -Fd[c] - 1 ELSE Fd[c])
          /\ pollfds_'[k + 1].events = events
      BY <1>4 DEF new, IgnoredFd
    <2>3. c \in everEnabled' /\ events = {} => HasChannel(c)
      BY <1>1, <1>u
    <2> QED
      BY <2>1, <2>2, <2>3 DEF EntryOf, Entry
  <1>6. ASSUME NEW d \in Channels \ {c}, HasChannel(d) PROVE index_'[d] = index_[d] /\ EntryOf(d)' /\ Entry(d)'.fd = Entry(d).fd
    <2>1. EntryOf(d) /\ index_[d] \in Int /\ Fd[d] \in Nat
      BY <1>6, <1>t, ChannelTypes DEF PollerInv, Indexed
    <2>2. index_[d] # k
      <3>1. CASE HasChannel(c)
        <4>1. Fd[d] # Fd[c]
          BY <1>6, <3>1, <1>t, OneChannel DEF Usable, HasChannel
        <4> QED
          BY <4>1, <3>1, <2>1, <1>1, <1>t DEF k, EntryOf, Entry
      <3>2. CASE ~ HasChannel(c)
        BY <3>2, <2>1, <1>t DEF k, EntryOf
      <3> QED
        BY <3>1, <3>2
    <2>3. index_'[d] = index_[d] /\ pollfds_'[index_[d] + 1] = pollfds_[index_[d] + 1]
      <3>1. index_[d] + 1 \in 1 .. Len(pollfds_) /\ index_[d] + 1 # k + 1
        BY <2>1, <2>2, <1>2, <1>t DEF EntryOf
      <3> QED
        BY <3>1, <1>3, <1>4, <1>t
    <2>4. events_'[d] = events_[d] /\ (d \in everEnabled' <=> d \in everEnabled)
      BY <1>u DEF PollerInv, Types0, ChannelTypeOK
    <2> QED
      BY <2>1, <2>3, <2>4, <1>4, <1>t DEF EntryOf, Entry
  <1>7. ASSUME NEW d \in Channels PROVE IF HasChannel(d)' THEN EntryOf(d)' ELSE index_'[d] = kNew
    BY <1>3, <1>5, <1>6, <1>t, <1>u DEF PollerInv, Indexed
  <1>8. ASSUME NEW i \in 1 .. Len(pollfds_')
        PROVE  \E d \in Channels : HasChannel(d)' /\ index_'[d] = i - 1
    <2>1. CASE i = k + 1
      BY <2>1, <1>2, <1>3, <1>t, <1>u
    <2>2. CASE i # k + 1
      <3>1. i \in 1 .. Len(pollfds_)
        BY <2>2, <1>4, <1>2, <1>t DEF k
      <3>2. PICK d \in Channels : HasChannel(d) /\ index_[d] = i - 1
        BY <3>1 DEF PollerInv, Indexed
      <3>3. d # c
        BY <3>1, <3>2, <2>2, <1>t DEF k
      <3> QED
        BY <3>2, <3>3, <1>6, <1>u
    <2> QED
      BY <2>1, <2>2
  <1>9. Indexed'
    BY <1>7, <1>8 DEF Indexed
  <1>10. EntrySame(c)
    BY <1>6 DEF EntrySame
  <1> QED
    BY <1>2, <1>3, <1>4, <1>5, <1>9, <1>10, <1>t DEF PollTypeOK

\* EPollPoller::updateChannel() adds, modifies or deletes in the kernel as the
\* index says, and the others stay.
LEMMA EPollUpdateKeeps ==
  ASSUME PollerInv, NEW c \in Channels, NEW events, Update(c, events), ~ usePoll
  PROVE  /\ EPollTypeOK' /\ index_' \in [Channels -> Int] /\ Known' /\ UNCHANGED pollfds_
         /\ index_'[c] = IF index_[c] = kAdded /\ events = {} THEN kDeleted ELSE kAdded
         /\ IndexSame(c)
  <1>t. /\ Types0 /\ Fd[c] \in Fds /\ index_ \in [Channels -> Int] /\ DOMAIN epollfd_ \subseteq Fds
        /\ \A fd \in DOMAIN epollfd_ : epollfd_[fd] \in [channel : Channels, events : SUBSET Types]
    BY ChannelTypes DEF PollerInv, Types0, ChannelTypeOK, EPollTypeOK
  <1>u. /\ events \in SUBSET Types /\ events_' = [events_ EXCEPT ![c] = events]
        /\ HasChannel(c)' /\ \A d \in Channels \ {c} : HasChannel(d)' <=> HasChannel(d)
    BY UpdateMaps
  <1>k. Known
    BY DEF PollerInv
  <1>1. EPollUpdateChannel(c, events) /\ UNCHANGED <<listSize, pollfds_>>
    BY DEF Update, EPollUpdateChannel
  <1> DEFINE silent == index_[c] = kAdded /\ events = {}
  <1>2. /\ index_' = [index_ EXCEPT ![c] = IF silent THEN kDeleted ELSE kAdded]
        /\ epollfd_' = IF silent THEN CtlDel(c) ELSE CtlSet(c, events)
    <2>1. index_[c] = kAdded => index_ = [index_ EXCEPT ![c] = kAdded]
      BY <1>t
    <2> QED
      BY <2>1, <1>1 DEF EPollUpdateChannel, kNew, kAdded, kDeleted
  <1>3. index_' \in [Channels -> Int]
        /\ index_'[c] = (IF silent THEN kDeleted ELSE kAdded)
        /\ \A d \in Channels \ {c} : index_'[d] = index_[d]
    BY <1>2, <1>t DEF kAdded, kDeleted
  <1>4. IF silent
        THEN DOMAIN epollfd_' = DOMAIN epollfd_ \ {Fd[c]}
        ELSE DOMAIN epollfd_' = DOMAIN epollfd_ \cup {Fd[c]}
             /\ epollfd_'[Fd[c]] = [channel |-> c, events |-> events]
    BY <1>2 DEF CtlSet, CtlDel
  <1>5. \A fd \in DOMAIN epollfd_ \ {Fd[c]} : epollfd_'[fd] = epollfd_[fd]
    BY <1>2 DEF CtlSet, CtlDel
  <1>6. EPollTypeOK'
    <2>1. DOMAIN epollfd_' \subseteq Fds
      BY <1>4, <1>t
    <2>2. \A fd \in DOMAIN epollfd_' : epollfd_'[fd] \in [channel : Channels, events : SUBSET Types]
      BY <1>4, <1>5, <1>t, <1>u
    <2> QED
      BY <2>1, <2>2, <1>1 DEF EPollTypeOK, PollerInv, Types0
  <1> HIDE DEF silent
  <1>7. ASSUME NEW d \in Channels, d # c, HasChannel(d)
        PROVE  Fd[d] # Fd[c]
    <2>1. Usable(c)
      BY DEF Update, ChannelUpdate
    <2> QED
      BY <2>1, <1>7, <1>t, OneChannel
  <1>8. ASSUME NEW d \in Channels
        PROVE  /\ index_'[d] \in (IF HasChannel(d)' THEN {kAdded, kDeleted} ELSE {kNew})
               /\ index_'[d] = kAdded => /\ Fd[d] \in DOMAIN epollfd_'
                                         /\ epollfd_'[Fd[d]] = [channel |-> d, events |-> events_'[d]]
               /\ index_'[d] = kDeleted => events_'[d] = {}
    <2>1. CASE d = c
      <3>1. events_'[c] = events
        BY <1>u DEF PollerInv, Types0, ChannelTypeOK
      <3> QED
        BY <2>1, <3>1, <1>3, <1>4, <1>u DEF silent, kAdded, kDeleted
    <2>2. CASE d # c
      <3>1. events_'[d] = events_[d] /\ index_'[d] = index_[d] /\ (HasChannel(d)' <=> HasChannel(d))
        BY <2>2, <1>u, <1>3 DEF PollerInv, Types0, ChannelTypeOK
      <3>2. /\ index_[d] \in (IF HasChannel(d) THEN {kAdded, kDeleted} ELSE {kNew})
            /\ index_[d] = kAdded => /\ Fd[d] \in DOMAIN epollfd_
                                     /\ epollfd_[Fd[d]] = [channel |-> d, events |-> events_[d]]
            /\ index_[d] = kDeleted => events_[d] = {}
        BY <1>k DEF Known
      <3>3. index_[d] = kAdded => HasChannel(d) /\ Fd[d] # Fd[c]
        BY <3>2, <2>2, <1>7 DEF kNew, kAdded
      <3> QED
        BY <3>1, <3>2, <3>3, <1>4, <1>5
    <2> QED
      BY <2>1, <2>2
  <1>9. ASSUME NEW fd \in DOMAIN epollfd_'
        PROVE  \E d \in Channels : HasChannel(d)' /\ index_'[d] = kAdded /\ Fd[d] = fd
    <2>1. CASE fd = Fd[c]
      BY <2>1, <1>3, <1>4, <1>u
    <2>2. CASE fd # Fd[c]
      <3>1. PICK d \in Channels : HasChannel(d) /\ index_[d] = kAdded /\ Fd[d] = fd
        BY <2>2, <1>4, <1>k DEF Known
      <3> QED
        BY <3>1, <2>2, <1>3, <1>u
    <2> QED
      BY <2>1, <2>2
  <1>10. Known'
    BY <1>8, <1>9 DEF Known
  <1>11. IndexSame(c)
    BY <1>3 DEF IndexSame
  <1> QED
    BY <1>1, <1>3, <1>6, <1>10, <1>11 DEF silent

\* Channel::update() keeps the invariant, with either poller.
LEMMA UpdateKeeps ==
  ASSUME PollerInv, NEW c \in Channels, NEW events, Update(c, events)
  PROVE  PollerInv'
  <1>u. /\ events \in SUBSET Types /\ events_' = [events_ EXCEPT ![c] = events]
        /\ everEnabled' = IF events # {} THEN everEnabled \cup {c} ELSE everEnabled
        /\ UNCHANGED <<activeChannels_, usePoll>>
        /\ channels_' \in [Fds -> Channels \cup {None}]
        /\ channels_'[Fd[c]] = c /\ \A fd \in Fds \ {Fd[c]} : channels_'[fd] = channels_[fd]
        /\ HasChannel(c)' /\ \A d \in Channels \ {c} : HasChannel(d)' <=> HasChannel(d)
    BY UpdateMaps
  <1>1. /\ index_' \in [Channels -> Int] /\ EPollTypeOK' /\ PollTypeOK'
        /\ (usePoll' => Indexed') /\ (~ usePoll' => Known')
    <2>1. CASE usePoll
      BY <2>1, <1>u, PollUpdateKeeps DEF PollerInv, Types0, EPollTypeOK, epollVars
    <2>2. CASE ~ usePoll
      BY <2>2, <1>u, EPollUpdateKeeps DEF PollerInv, Types0, PollTypeOK
    <2> QED
      BY <2>1, <2>2
  <1>2. ChannelTypeOK'
    <2>1. events_' \in [Channels -> SUBSET Types] /\ everEnabled' \subseteq Channels
      BY <1>u DEF PollerInv, Types0, ChannelTypeOK
    <2> QED
      BY <2>1, <1>1, <1>u DEF PollerInv, Types0, ChannelTypeOK
  <1>3. Mapped'
    <2>1. \A fd \in Fds : channels_'[fd] # None => Fd[channels_'[fd]] = fd
      BY <1>u DEF PollerInv, Mapped
    <2>2. \A d \in everEnabled' : HasChannel(d)'
      BY <1>u DEF PollerInv, Mapped, Types0, ChannelTypeOK
    <2> QED
      BY <2>1, <2>2 DEF Mapped
  <1> QED
    BY <1>1, <1>2, <1>3, <1>u DEF PollerInv, Types0

-----------------------------------------------------------------------------
(* remove().                                                               *)

\* Channel::remove() takes the channel, and no other, from channels_.
LEMMA RemoveMaps ==
  ASSUME PollerInv, NEW c \in Channels, Remove(c)
  PROVE  /\ HasChannel(c)
         /\ everEnabled' = everEnabled \ {c} /\ events_' = [events_ EXCEPT ![c] = {}]
         /\ UNCHANGED <<activeChannels_, usePoll>>
         /\ channels_' = [channels_ EXCEPT ![Fd[c]] = None]
         /\ ~ HasChannel(c)' /\ \A d \in Channels \ {c} : HasChannel(d)' <=> HasChannel(d)
  <1>1. /\ HasChannel(c)
        /\ everEnabled' = everEnabled \ {c} /\ events_' = [events_ EXCEPT ![c] = {}]
        /\ UNCHANGED <<activeChannels_, usePoll>>
        /\ channels_' = [channels_ EXCEPT ![Fd[c]] = None]
    BY DEF Remove, ChannelRemove, PollRemoveChannel, EPollRemoveChannel
  <1>t. /\ Types0 /\ channels_ \in [Fds -> Channels \cup {None}]
        /\ \A d \in Channels : Fd[d] \in Fds /\ d # None
    BY ChannelTypes DEF PollerInv, Types0, ChannelTypeOK
  <1>2. \A d \in Channels \ {c} : HasChannel(d)' <=> HasChannel(d)
    BY <1>1, <1>t DEF HasChannel
  <1> QED
    BY <1>1, <1>2, <1>t DEF HasChannel

\* PollPoller: two channels have two entries.
LEMMA IndexDistinct ==
  ASSUME PollerInv, usePoll, NEW d \in Channels, HasChannel(d), NEW e \in Channels, HasChannel(e), d # e
  PROVE  index_[d] # index_[e]
  <1>1. Fd[d] # Fd[e]
    BY OneChannel DEF Usable, HasChannel, PollerInv
  <1>2. /\ Fd[d] \in Nat /\ Fd[e] \in Nat
        /\ pollfds_[index_[d] + 1].fd \in {Fd[d], -Fd[d] - 1}
        /\ pollfds_[index_[e] + 1].fd \in {Fd[e], -Fd[e] - 1}
    BY ChannelTypes DEF EntryOf, Entry, PollerInv, Indexed
  <1> QED
    BY <1>1, <1>2

\* The removal of an entry in whose place the last one comes.
Swapped(q, i) == SubSeq([q EXCEPT ![i] = q[Len(q)]], 1, Len(q) - 1)

\* Removal by moving the last entry to the place of the removed one.
LEMMA SwapRemove ==
  ASSUME NEW S, NEW q \in Seq(S), NEW i \in 1 .. Len(q)
  PROVE  /\ Swapped(q, i) \in Seq(S) /\ Len(Swapped(q, i)) = Len(q) - 1
         /\ \A j \in 1 .. Len(q) - 1 : Swapped(q, i)[j] = IF j = i THEN q[Len(q)] ELSE q[j]
  <1> DEFINE w == [q EXCEPT ![i] = q[Len(q)]]
  <1>1. Len(q) \in Nat /\ Len(q) \in 1 .. Len(q) /\ q[Len(q)] \in S
    OBVIOUS
  <1>2. w \in Seq(S) /\ Len(w) = Len(q) /\ \A j \in 1 .. Len(q) : w[j] = IF j = i THEN q[Len(q)] ELSE q[j]
    BY <1>1
  <1> DEFINE q2 == Swapped(q, i)
  <1>3. q2 = SubSeq(w, 1, Len(q) - 1)
    BY DEF Swapped
  <1> HIDE DEF w, q2
  <1>4. q2 \in Seq(S) /\ Len(q2) = Len(q) - 1 /\ \A j \in 1 .. Len(q) - 1 : q2[j] = w[j]
    BY <1>1, <1>2, <1>3
  <1> QED
    BY <1>1, <1>2, <1>4 DEF q2

\* The channel whose entry is the last one, and the entry that takes the place of
\* the one removed.
LEMMA PollRemoveKeeps ==
  ASSUME PollerInv, NEW c \in Channels, Remove(c), usePoll
  PROVE  /\ PollTypeOK' /\ index_' \in [Channels -> Int] /\ Indexed' /\ UNCHANGED epollVars
         /\ EntrySame(c)
  <1> DEFINE last == Len(pollfds_)
             k == index_[c]
             swapped == [pollfds_ EXCEPT ![k + 1] = pollfds_[last]]
  <1>t. /\ Types0 /\ index_ \in [Channels -> Int]
        /\ pollfds_ \in Seq([fd : Int, events : SUBSET Types]) /\ last \in Nat
    BY DEF PollerInv, Types0, ChannelTypeOK, PollTypeOK
  <1>u. /\ HasChannel(c) /\ everEnabled' = everEnabled \ {c} /\ events_' = [events_ EXCEPT ![c] = {}]
        /\ ~ HasChannel(c)' /\ \A d \in Channels \ {c} : HasChannel(d)' <=> HasChannel(d)
    BY RemoveMaps, ZenonT(30)
  <1>1. \A d \in Channels : HasChannel(d) => EntryOf(d) /\ index_[d] \in Int /\ Fd[d] \in Nat
    BY <1>t, ChannelTypes DEF PollerInv, Indexed
  <1>2. ASSUME NEW d \in Channels, HasChannel(d), NEW e \in Channels, HasChannel(e), d # e
        PROVE  index_[d] # index_[e]
    BY <1>2, IndexDistinct
  <1>3. k \in 0 .. last - 1 /\ last \in 1 .. last
    BY <1>1, <1>u, <1>t DEF EntryOf
  <1>4. PICK m \in Channels : HasChannel(m) /\ index_[m] = last - 1
    BY <1>3 DEF PollerInv, Indexed
  <1>5. ChannelAtEnd = m
    <2>1. pollfds_[last].fd \in {Fd[m], -Fd[m] - 1} /\ Fd[m] \in Nat
      BY <1>1, <1>4, <1>t DEF EntryOf, Entry
    <2>2. channels_[Fd[m]] = m
      BY <1>4 DEF HasChannel
    <2> QED
      BY <2>1, <2>2 DEF ChannelAtEnd, IgnoredFd
  <1>6. /\ pollfds_' = SubSeq(swapped, 1, last - 1)
        /\ index_' = [index_ EXCEPT ![m] = k, ![c] = kNew]
        /\ UNCHANGED epollVars
    BY <1>5 DEF Remove, PollRemoveChannel
  <1>7. /\ pollfds_' \in Seq([fd : Int, events : SUBSET Types]) /\ Len(pollfds_') = last - 1
        /\ \A i \in 1 .. last - 1 :
             pollfds_'[i] = IF i = k + 1 THEN pollfds_[last] ELSE pollfds_[i]
    <2> DEFINE Entries == [fd : Int, events : SUBSET Types]
    <2>1. k + 1 \in 1 .. Len(pollfds_) /\ pollfds_ \in Seq(Entries)
      BY <1>3, <1>t
    <2>2. pollfds_' = Swapped(pollfds_, k + 1)
      BY <1>6 DEF Swapped
    <2> HIDE DEF Entries, k
    <2>3. /\ pollfds_' \in Seq(Entries) /\ Len(pollfds_') = Len(pollfds_) - 1
          /\ \A i \in 1 .. Len(pollfds_) - 1 :
               pollfds_'[i] = IF i = k + 1 THEN pollfds_[Len(pollfds_)] ELSE pollfds_[i]
      BY <2>1, <2>2, SwapRemove, ZenonT(30)
    <2> QED
      BY <2>3 DEF Entries
  <1>8. /\ index_' \in [Channels -> Int] /\ index_'[c] = kNew
        /\ m # c => index_'[m] = k
        /\ \A d \in Channels \ {c, m} : index_'[d] = index_[d]
    BY <1>3, <1>6, <1>t DEF kNew
  <1> HIDE DEF k, last
  <1>9. ASSUME NEW d \in Channels \ {c}, HasChannel(d) PROVE EntryOf(d)' /\ Entry(d)'.fd = Entry(d).fd
    <2>1. EntryOf(d) /\ index_[d] \in Int /\ index_[d] # k
      BY <1>1, <1>2, <1>9, <1>u DEF k
    <2>2. index_'[d] \in 0 .. last - 2 /\ pollfds_'[index_'[d] + 1] = pollfds_[index_[d] + 1]
      <3>1. CASE d = m
        BY <3>1, <2>1, <1>3, <1>4, <1>7, <1>8, <1>t
      <3>2. CASE d # m
        <4>1. index_[d] # last - 1 /\ index_[d] \in 0 .. last - 1
          BY <3>2, <2>1, <1>2, <1>4, <1>9 DEF EntryOf, last
        <4>2. index_[d] + 1 \in 1 .. last - 1 /\ index_[d] + 1 # k + 1
          BY <4>1, <2>1, <1>3, <1>t
        <4> QED
          BY <3>2, <4>1, <4>2, <1>7, <1>8, <1>t
      <3> QED
        BY <3>1, <3>2
    <2>3. events_'[d] = events_[d] /\ (d \in everEnabled' <=> d \in everEnabled)
      BY <1>u
    <2> QED
      BY <2>1, <2>2, <2>3, <1>7, <1>t DEF EntryOf, Entry
  <1>10. ASSUME NEW d \in Channels PROVE IF HasChannel(d)' THEN EntryOf(d)' ELSE index_'[d] = kNew
    <2>1. CASE d = c
      BY <2>1, <1>8, <1>u
    <2>2. CASE d # c /\ HasChannel(d)
      BY <2>2, <1>9, <1>u
    <2>3. CASE d # c /\ ~ HasChannel(d)
      BY <2>3, <1>4, <1>8, <1>u DEF PollerInv, Indexed
    <2> QED
      BY <2>1, <2>2, <2>3
  <1>11. ASSUME NEW i \in 1 .. Len(pollfds_')
         PROVE  \E d \in Channels : HasChannel(d)' /\ index_'[d] = i - 1
    <2>1. i \in 1 .. last - 1 /\ i \in 1 .. last
      BY <1>7, <1>t
    <2>2. CASE i = k + 1
      <3>1. m # c
        BY <2>1, <2>2, <1>3, <1>4, <1>t DEF k
      <3> QED
        BY <3>1, <2>2, <1>3, <1>4, <1>8, <1>t, <1>u
    <2>3. CASE i # k + 1
      <3>1. PICK d \in Channels : HasChannel(d) /\ index_[d] = i - 1
        BY <2>1 DEF PollerInv, Indexed, last
      <3>2. d # c /\ d # m
        BY <3>1, <2>1, <2>3, <1>3, <1>4, <1>t DEF k
      <3> QED
        BY <3>1, <3>2, <1>8, <1>u
    <2> QED
      BY <2>2, <2>3
  <1>12. Indexed'
    BY <1>10, <1>11 DEF Indexed
  <1>13. EntrySame(c)
    BY <1>9 DEF EntrySame
  <1> QED
    BY <1>6, <1>7, <1>8, <1>12, <1>13 DEF PollTypeOK

\* EPollPoller::removeChannel() makes the channel new, in the kernel too.
LEMMA EPollRemoveKeeps ==
  ASSUME PollerInv, NEW c \in Channels, Remove(c), ~ usePoll
  PROVE  EPollTypeOK' /\ index_' \in [Channels -> Int] /\ Known' /\ UNCHANGED pollfds_ /\ IndexSame(c)
  <1>t. /\ Types0 /\ index_ \in [Channels -> Int] /\ DOMAIN epollfd_ \subseteq Fds
        /\ \A fd \in DOMAIN epollfd_ : epollfd_[fd] \in [channel : Channels, events : SUBSET Types]
    BY DEF PollerInv, Types0, ChannelTypeOK, EPollTypeOK
  <1>u. /\ HasChannel(c) /\ events_' = [events_ EXCEPT ![c] = {}]
        /\ ~ HasChannel(c)' /\ \A d \in Channels \ {c} : HasChannel(d)' <=> HasChannel(d)
    BY RemoveMaps
  <1>k. Known
    BY DEF PollerInv
  <1>1. /\ epollfd_' = IF index_[c] = kAdded THEN CtlDel(c) ELSE epollfd_
        /\ index_' = [index_ EXCEPT ![c] = kNew] /\ UNCHANGED <<listSize, pollfds_>>
    BY DEF Remove, EPollRemoveChannel
  <1>2. /\ index_' \in [Channels -> Int] /\ index_'[c] = kNew
        /\ \A d \in Channels \ {c} : index_'[d] = index_[d]
    BY <1>1, <1>t DEF kNew
  <1>3. \A d \in Channels \ {c} : HasChannel(d) => Fd[d] # Fd[c]
    BY <1>t, <1>u, OneChannel DEF Usable, HasChannel
  <1>4. DOMAIN epollfd_' = DOMAIN epollfd_ \ {Fd[c]}
    <2>1. CASE index_[c] = kAdded
      BY <2>1, <1>1 DEF CtlDel
    <2>2. CASE index_[c] # kAdded
      <3>1. Fd[c] \notin DOMAIN epollfd_
        BY <2>2, <1>3, <1>k DEF Known
      <3> QED
        BY <3>1, <2>2, <1>1
    <2> QED
      BY <2>1, <2>2
  <1>5. \A fd \in DOMAIN epollfd_' : epollfd_'[fd] = epollfd_[fd]
    BY <1>1 DEF CtlDel
  <1>6. EPollTypeOK'
    BY <1>1, <1>4, <1>5 DEF EPollTypeOK, PollerInv, Types0
  <1>7. ASSUME NEW d \in Channels
        PROVE  /\ index_'[d] \in (IF HasChannel(d)' THEN {kAdded, kDeleted} ELSE {kNew})
               /\ index_'[d] = kAdded => /\ Fd[d] \in DOMAIN epollfd_'
                                         /\ epollfd_'[Fd[d]] = [channel |-> d, events |-> events_'[d]]
               /\ index_'[d] = kDeleted => events_'[d] = {}
    <2>1. CASE d = c
      BY <2>1, <1>2, <1>u DEF kNew, kAdded, kDeleted
    <2>2. CASE d # c
      <3>1. index_'[d] = index_[d] /\ (HasChannel(d)' <=> HasChannel(d))
        BY <2>2, <1>u, <1>2
      <3>2. /\ index_[d] \in (IF HasChannel(d) THEN {kAdded, kDeleted} ELSE {kNew})
            /\ index_[d] = kAdded => /\ Fd[d] \in DOMAIN epollfd_
                                     /\ epollfd_[Fd[d]] = [channel |-> d, events |-> events_[d]]
            /\ index_[d] = kDeleted => events_[d] = {}
        BY <1>k DEF Known
      <3>3. index_[d] = kAdded => HasChannel(d) /\ Fd[d] # Fd[c]
        BY <3>2, <2>2, <1>3 DEF kNew, kAdded
      <3> QED
        BY <3>1, <3>2, <3>3, <1>4, <1>5, <1>u
    <2> QED
      BY <2>1, <2>2
  <1>8. ASSUME NEW fd \in DOMAIN epollfd_'
        PROVE  \E d \in Channels : HasChannel(d)' /\ index_'[d] = kAdded /\ Fd[d] = fd
    <2>1. PICK d \in Channels : HasChannel(d) /\ index_[d] = kAdded /\ Fd[d] = fd
      BY <1>4, <1>k DEF Known
    <2> QED
      BY <2>1, <1>2, <1>4, <1>u
  <1>9. Known'
    BY <1>7, <1>8 DEF Known
  <1>10. IndexSame(c)
    BY <1>2 DEF IndexSame
  <1> QED
    BY <1>1, <1>2, <1>6, <1>9, <1>10

\* Channel::remove() keeps the invariant, with either poller.
LEMMA RemoveKeeps ==
  ASSUME PollerInv, NEW c \in Channels, Remove(c)
  PROVE  PollerInv'
  <1>u. /\ HasChannel(c)
        /\ everEnabled' = everEnabled \ {c} /\ events_' = [events_ EXCEPT ![c] = {}]
        /\ UNCHANGED <<activeChannels_, usePoll>>
        /\ channels_' = [channels_ EXCEPT ![Fd[c]] = None]
        /\ ~ HasChannel(c)' /\ \A d \in Channels \ {c} : HasChannel(d)' <=> HasChannel(d)
    BY RemoveMaps
  <1>1. /\ index_' \in [Channels -> Int] /\ EPollTypeOK' /\ PollTypeOK'
        /\ (usePoll' => Indexed') /\ (~ usePoll' => Known')
    <2>1. CASE usePoll
      BY <2>1, <1>u, PollRemoveKeeps DEF PollerInv, Types0, EPollTypeOK, epollVars
    <2>2. CASE ~ usePoll
      BY <2>2, <1>u, EPollRemoveKeeps DEF PollerInv, Types0, PollTypeOK
    <2> QED
      BY <2>1, <2>2
  <1>2. ChannelTypeOK'
    <2>1. channels_' \in [Fds -> Channels \cup {None}] /\ everEnabled' \subseteq Channels
      BY <1>u, ZenonT(30) DEF PollerInv, Types0, ChannelTypeOK
    <2> QED
      BY <2>1, <1>1, <1>u DEF PollerInv, Types0, ChannelTypeOK
  <1>3. Mapped'
    <2>1. \A fd \in Fds : channels_'[fd] # None => Fd[channels_'[fd]] = fd
      BY <1>u DEF PollerInv, Mapped, Types0, ChannelTypeOK
    <2>2. \A d \in everEnabled' : HasChannel(d)'
      BY <1>u DEF PollerInv, Mapped, Types0, ChannelTypeOK
    <2> QED
      BY <2>1, <2>2 DEF Mapped
  <1> QED
    BY <1>1, <1>2, <1>3, <1>u DEF PollerInv, Types0

-----------------------------------------------------------------------------
(* poll() and the loop over what it reports.                               *)

\* What is reported: registered channels, each with what is ready of what it is
\* watched for.
ReportOf(c, ready) == <<c, ready[Fd[c]] \cap (Watched(c) \cup {"hup"})>>

Genuine(r, ready) ==
  \E c \in Channels : /\ HasChannel(c) /\ Watched(c) \in SUBSET Types
                      /\ r = ReportOf(c, ready) /\ r[2] # {}

\* PollPoller::poll() reports each ready channel once, and only registered ones
\* that watch for the event.
LEMMA PollReports ==
  ASSUME PollerInv, usePoll, NEW ready \in [Fds -> Ready], Poll(ready)
  PROVE  /\ UNCHANGED <<pollfds_, epollfd_>> /\ listSize' \in 1 .. MaxListSize
         /\ \A r \in activeChannels_' : Genuine(r, ready)
  <1> DEFINE revents(i) == IF pollfds_[i].fd < 0 THEN {}
                           ELSE ready[pollfds_[i].fd] \cap (pollfds_[i].events \cup {"hup"})
             found == {j \in 1 .. Len(pollfds_) : revents(j) # {}}
  <1>1. UNCHANGED <<pollfds_, epollVars>>
    BY DEF Poll, PollPoll
  <1>2. activeChannels_' = {<<channels_[pollfds_[i].fd], revents(i)>> : i \in found}
    BY DEF Poll, PollPoll
  <1>3. UNCHANGED <<pollfds_, epollfd_>> /\ listSize' \in 1 .. MaxListSize
    BY <1>1 DEF epollVars, PollerInv, Types0, EPollTypeOK
  <1>4. ASSUME NEW i \in found PROVE Genuine(<<channels_[pollfds_[i].fd], revents(i)>>, ready)
    <2>1. i \in 1 .. Len(pollfds_) /\ revents(i) # {} /\ ~ (pollfds_[i].fd < 0) /\ Len(pollfds_) \in Nat
      BY DEF PollerInv, Types0, PollTypeOK
    <2>2. PICK c \in Channels : HasChannel(c) /\ index_[c] = i - 1
      BY <2>1 DEF PollerInv, Indexed
    <2>3. EntryOf(c) /\ Entry(c) = pollfds_[i] /\ Fd[c] \in Nat /\ events_[c] \in SUBSET Types
      BY <2>1, <2>2, ChannelTypes DEF PollerInv, Indexed, Entry
    <2>4. pollfds_[i].fd = Fd[c] /\ channels_[Fd[c]] = c /\ pollfds_[i].events = events_[c]
      BY <2>1, <2>2, <2>3 DEF EntryOf, HasChannel
    <2>5. Watched(c) = events_[c]
      BY <2>1, <2>2, <2>3, <2>4 DEF Watched
    <2> QED
      BY <2>1, <2>2, <2>3, <2>4, <2>5 DEF Genuine, ReportOf
  <1> HIDE DEF found, revents
  <1> QED
    BY <1>2, <1>3, <1>4

\* EPollPoller::poll() reports, of what epoll_wait() returns, each channel once,
\* and only registered ones that watch for the event.
LEMMA EPollReports ==
  ASSUME PollerInv, ~ usePoll, NEW ready \in [Fds -> Ready], Poll(ready)
  PROVE  /\ UNCHANGED <<pollfds_, epollfd_>> /\ listSize' \in 1 .. MaxListSize
         /\ \A r \in activeChannels_' : Genuine(r, ready)
  <1> DEFINE revents(fd) == ready[fd] \cap (epollfd_[fd].events \cup {"hup"})
             found == {fd \in DOMAIN epollfd_ : revents(fd) # {}}
  <1>1. PICK some \in SUBSET found :
          /\ activeChannels_' = {<<epollfd_[fd].channel, revents(fd)>> : fd \in some}
          /\ listSize' = IF Cardinality(some) = listSize /\ 2 * listSize <= MaxListSize
                         THEN 2 * listSize ELSE listSize
          /\ UNCHANGED <<epollfd_, pollfds_>>
    BY ZenonT(30) DEF Poll, EPollPoll
  <1>2. activeChannels_' = {<<epollfd_[fd].channel, revents(fd)>> : fd \in some}
    BY <1>1
  <1>3. UNCHANGED <<pollfds_, epollfd_>>
    BY <1>1
  <1>4. listSize' \in 1 .. MaxListSize
    BY <1>1, ListAssumption DEF PollerInv, Types0, EPollTypeOK
  <1>5. ASSUME NEW fd \in some PROVE Genuine(<<epollfd_[fd].channel, revents(fd)>>, ready)
    <2>1. fd \in DOMAIN epollfd_ /\ revents(fd) # {}
      OBVIOUS
    <2>2. PICK c \in Channels : HasChannel(c) /\ index_[c] = kAdded /\ Fd[c] = fd
      BY <2>1 DEF PollerInv, Known
    <2>3. epollfd_[fd] = [channel |-> c, events |-> events_[c]] /\ events_[c] \in SUBSET Types
      BY <2>2, ChannelTypes DEF PollerInv, Known
    <2>4. Watched(c) = events_[c]
      BY <2>2, <2>3 DEF Watched, kAdded, kDeleted
    <2> QED
      BY <2>1, <2>2, <2>3, <2>4 DEF Genuine, ReportOf
  <1> HIDE DEF found, revents
  <1> QED
    BY <1>2, <1>3, <1>4, <1>5

\* What either poll() reports, and what it leaves alone.
LEMMA Reports ==
  ASSUME PollerInv, NEW ready \in [Fds -> Ready], Poll(ready)
  PROVE  /\ UNCHANGED <<pollfds_, epollfd_>> /\ listSize' \in 1 .. MaxListSize
         /\ \A r \in activeChannels_' : Genuine(r, ready)
         /\ UNCHANGED <<channelVars, usePoll>>
  <1>1. UNCHANGED <<channelVars, usePoll>>
    BY DEF Poll
  <1> QED
    BY <1>1, PollReports, EPollReports DEF PollerInv, Types0

\* A step of loop() leaves the channels and the poller as they are.
LEMMA PollerSame ==
  ASSUME PollerInv, UNCHANGED <<channelVars, pollfds_, epollfd_, usePoll>>, listSize' \in 1 .. MaxListSize,
         activeChannels_' \subseteq Channels \X (SUBSET (Types \cup {"hup"}))
  PROVE  PollerInv'
  <1>1. UNCHANGED <<events_, index_, everEnabled, channels_>>
    BY DEF channelVars
  <1>2. Types0'
    BY <1>1 DEF PollerInv, Types0, ChannelTypeOK, EPollTypeOK, PollTypeOK
  <1>3. Mapped'
    BY <1>1 DEF PollerInv, Mapped, HasChannel
  <1>4. (usePoll => Indexed)' /\ (~ usePoll => Known)'
    BY <1>1 DEF PollerInv, Indexed, Known, HasChannel, EntryOf, Entry
  <1> QED
    BY <1>2, <1>3, <1>4 DEF PollerInv

\* poll() keeps the invariant.
LEMMA PollKeeps ==
  ASSUME PollerInv, NEW ready \in [Fds -> Ready], Poll(ready)
  PROVE  PollerInv'
  <1>1. /\ UNCHANGED <<channelVars, pollfds_, epollfd_, usePoll>> /\ listSize' \in 1 .. MaxListSize
        /\ \A r \in activeChannels_' : Genuine(r, ready)
    BY Reports
  <1>2. ASSUME NEW r \in activeChannels_' PROVE r \in Channels \X (SUBSET (Types \cup {"hup"}))
    <2>1. PICK c \in Channels : HasChannel(c) /\ r = ReportOf(c, ready)
      BY <1>1, <1>2 DEF Genuine
    <2>2. Fd[c] \in Fds
      BY ChannelTypes DEF PollerInv
    <2>3. ready[Fd[c]] \in SUBSET (Types \cup {"hup"})
      BY <2>2, ReadyAssumption
    <2> QED
      BY <2>1, <2>3 DEF ReportOf
  <1> QED
    BY <1>1, <1>2, PollerSame

\* Every step keeps the invariant.
LEMMA NextInv == PollerInv /\ [Next]_vars => PollerInv'
  <1> SUFFICES ASSUME PollerInv, [Next]_vars PROVE PollerInv'
    OBVIOUS
  <1>1. ASSUME NEW c \in Channels, NEW events \in Changed(events_[c]), Update(c, events) PROVE PollerInv'
    BY <1>1, UpdateKeeps
  <1>2. ASSUME NEW c \in Channels, Remove(c) PROVE PollerInv'
    BY <1>2, RemoveKeeps
  <1>3. ASSUME NEW ready \in [Fds -> Ready], Poll(ready) PROVE PollerInv'
    BY <1>3, PollKeeps
  <1>4. CASE UNCHANGED vars
    <2>1. UNCHANGED <<channelVars, pollfds_, epollfd_, usePoll>> /\ UNCHANGED activeChannels_ /\ UNCHANGED listSize
      BY <1>4 DEF vars, epollVars
    <2> QED
      BY <2>1, PollerSame DEF PollerInv, Types0, ChannelTypeOK, EPollTypeOK
  <1> QED
    BY <1>1, <1>2, <1>3, <1>4 DEF Next

\* The invariant holds in every reachable state.
LEMMA SpecInv == Spec => []PollerInv
  <1> QED
    BY InitInv, NextInv, PTL DEF Spec

-----------------------------------------------------------------------------
(* The invariants.                                                         *)

\* PollPoller has as many entries as there are registered channels: the entries
\* and the channels count each other.
LEMMA EntriesCounted ==
  ASSUME PollerInv, usePoll
  PROVE  Len(pollfds_) = Cardinality(Registered)
  <1> DEFINE n == Len(pollfds_)
             owner == [i \in 1 .. n |-> CHOOSE c \in Registered : index_[c] = i - 1]
  <1>1. n \in Nat
    BY DEF PollerInv, Types0, PollTypeOK
  <1>2. \A i \in 1 .. n : owner[i] \in Registered /\ index_[owner[i]] = i - 1
    BY DEF PollerInv, Indexed, Registered
  <1>3. \A c \in Registered : index_[c] + 1 \in 1 .. n /\ index_[c] \in Int
    <2> SUFFICES ASSUME NEW c \in Channels, HasChannel(c)
                 PROVE  index_[c] + 1 \in 1 .. n /\ index_[c] \in Int
      BY DEF Registered
    <2>1. EntryOf(c) /\ index_[c] \in Int
      BY ChannelTypes DEF PollerInv, Indexed
    <2> QED
      BY <1>1, <2>1 DEF EntryOf
  <1>4. \A c, d \in Registered : index_[c] = index_[d] => c = d
    BY IndexDistinct DEF Registered
  <1>5. owner \in [1 .. n -> Registered]
    BY <1>2
  <1> HIDE DEF owner, n
  <1>6. \A i, j \in 1 .. n : owner[i] = owner[j] => i = j
    BY <1>1, <1>2
  <1>7. \A c \in Registered : \E i \in 1 .. n : owner[i] = c
    <2> TAKE c \in Registered
    <2>1. index_[c] + 1 \in 1 .. n /\ index_[c] = (index_[c] + 1) - 1
      BY <1>3
    <2>2. owner[index_[c] + 1] = c
      BY <2>1, <1>2, <1>4
    <2> QED
      BY <2>1, <2>2
  <1>8. owner \in Bijection(1 .. n, Registered)
    BY <1>5, <1>6, <1>7 DEF Bijection, Injection, Surjection, IsInjective
  <1>9. ExistsBijection(1 .. n, Registered)
    BY <1>8 DEF ExistsBijection
  <1> QED
    BY <1>1, <1>9, FS_CountingElements DEF n

\* For any channels, descriptors and events: what a channel, its poller and the
\* kernel know of it agrees after every update(), remove() and poll(), the
\* removals of PollPoller that move the last entry included.
THEOREM Agreement == Spec => []RegistrationAgrees
  <1>1. PollerInv => RegistrationAgrees
    <2> SUFFICES ASSUME PollerInv PROVE RegistrationAgrees
      OBVIOUS
    <2>1. TypeOK
      <3>1. usePoll => \A c \in Channels : index_[c] < Len(pollfds_)
        <4> SUFFICES ASSUME usePoll, NEW c \in Channels PROVE index_[c] < Len(pollfds_)
          OBVIOUS
        <4>1. Len(pollfds_) \in Nat /\ (IF HasChannel(c) THEN EntryOf(c) ELSE index_[c] = -1)
          BY DEF PollerInv, Types0, PollTypeOK, Indexed, kNew
        <4> QED
          BY <4>1 DEF EntryOf
      <3> QED
        BY <3>1 DEF PollerInv, Types0, TypeOK
    <2>2. IndexValid
      BY <2>1, EntriesCounted DEF IndexValid, PollerInv, Indexed, EntryOf, Registered
    <2>3. KernelKnows
      <3> SUFFICES ASSUME ~ usePoll PROVE KernelKnows
        BY DEF KernelKnows
      <3>1. DOMAIN epollfd_ = {Fd[c] : c \in {d \in Registered : index_[d] = kAdded}}
        <4>1. \A fd \in DOMAIN epollfd_ : \E c \in Registered : index_[c] = kAdded /\ Fd[c] = fd
          BY DEF PollerInv, Known, Registered
        <4>2. \A c \in Registered : index_[c] = kAdded => Fd[c] \in DOMAIN epollfd_
          BY ZenonT(30) DEF PollerInv, Known, Registered
        <4> QED
          BY <4>1, <4>2
      <3>2. \A c \in Registered :
              /\ index_[c] \in {kAdded, kDeleted}
              /\ index_[c] = kAdded => epollfd_[Fd[c]] = [channel |-> c, events |-> events_[c]]
              /\ index_[c] = kDeleted => events_[c] = {}
        BY DEF PollerInv, Known, Registered
      <3> QED
        BY <2>1, <3>1, <3>2 DEF KernelKnows
    <2> QED
      BY <2>2, <2>3 DEF RegistrationAgrees
  <1> QED
    BY <1>1, SpecInv, PTL

-----------------------------------------------------------------------------
(* The refinement.                                                         *)

Watch == [c \in Channels |-> Watched(c)]

\* What the invariant makes of Watched.
WatchedSays ==
  \A c \in Channels :
    Watched(c) = IF ~ HasChannel(c) THEN Absent
                 ELSE IF (IF usePoll THEN Entry(c).fd < 0 ELSE index_[c] = kDeleted) THEN Ignored
                 ELSE events_[c]

\* What a channel is to Poller, read off the poller and the kernel, is what its
\* registration and its events say.
LEMMA WatchedIs == PollerInv => WatchedSays
  <1> SUFFICES ASSUME PollerInv, NEW c \in Channels
               PROVE  Watched(c) = IF ~ HasChannel(c) THEN Absent
                        ELSE IF (IF usePoll THEN Entry(c).fd < 0 ELSE index_[c] = kDeleted) THEN Ignored
                        ELSE events_[c]
    BY DEF WatchedSays
  <1>1. CASE usePoll
    BY <1>1 DEF Watched, PollerInv, Indexed, EntryOf
  <1>2. CASE ~ usePoll
    <2>1. HasChannel(c) /\ index_[c] # kDeleted => epollfd_[Fd[c]] = [channel |-> c, events |-> events_[c]]
      BY <1>2 DEF PollerInv, Known
    <2> QED
      BY <2>1, <1>2 DEF Watched
  <1> QED
    BY <1>1, <1>2

\* At first every channel is absent.
LEMMA InitWatch == Init => P!Init
  <1> SUFFICES ASSUME Init PROVE P!Init
    OBVIOUS
  <1>1. \A c \in Channels : ~ HasChannel(c)
    BY ChannelAssumption DEF Init, ChannelInit, HasChannel, Fds
  <1>2. Watch = [c \in Channels |-> Absent]
    BY <1>1 DEF Watch, Watched
  <1>3. activeChannels_ = {}
    BY DEF Init, ChannelInit
  <1> QED
    BY <1>2, <1>3 DEF P!Init, Watch

\* A step that changes what is watched of one channel only.
LEMMA OneWatched ==
  ASSUME NEW c \in Channels, \A d \in Channels \ {c} : Watched(d)' = Watched(d)
  PROVE  Watch' = [Watch EXCEPT ![c] = Watched(c)']
  <1> DEFINE old(d) == Watched(d)
             new(d) == Watched(d)'
  <1>1. \A d \in Channels \ {c} : new(d) = old(d)
    OBVIOUS
  <1>2. Watch = [d \in Channels |-> old(d)] /\ Watch' = [d \in Channels |-> new(d)]
    BY DEF Watch
  <1> HIDE DEF old, new
  <1>3. Watch' = [Watch EXCEPT ![c] = new(c)]
    BY <1>1, <1>2
  <1> QED
    BY <1>3 DEF new

\* Channel::update() is an update of Poller, or silences the channel.
LEMMA UpdateWatch ==
  ASSUME PollerInv, NEW c \in Channels, NEW events, Update(c, events)
  PROVE  P!Next
  <1>u. /\ events \in SUBSET Types /\ events_' = [events_ EXCEPT ![c] = events]
        /\ UNCHANGED <<activeChannels_, usePoll>>
        /\ HasChannel(c)' /\ \A d \in Channels \ {c} : HasChannel(d)' <=> HasChannel(d)
    BY UpdateMaps
  <1>i. PollerInv' /\ events_ \in [Channels -> SUBSET Types] /\ Fd[c] \in Nat /\ usePoll \in BOOLEAN
    BY UpdateKeeps, ChannelTypes DEF PollerInv, Types0, ChannelTypeOK
  <1>w. WatchedSays /\ WatchedSays'
    BY <1>i, WatchedIs, PTL
  <1>1. ASSUME NEW d \in Channels \ {c} PROVE Watched(d)' = Watched(d)
    <2>1. events_'[d] = events_[d]
      BY <1>u, <1>i
    <2>2. CASE usePoll
      <3>1. EntrySame(c)
        BY <2>2, PollUpdateKeeps
      <3>2. HasChannel(d) => Entry(d)'.fd = Entry(d).fd
        BY <3>1 DEF EntrySame
      <3> QED
        BY <2>1, <2>2, <3>2, <1>u, <1>w, ZenonT(30) DEF WatchedSays
    <2>3. CASE ~ usePoll
      <3>1. IndexSame(c)
        BY <2>3, EPollUpdateKeeps
      <3> QED
        BY <2>1, <2>3, <3>1, <1>u, <1>w DEF WatchedSays, IndexSame
    <2> QED
      BY <2>2, <2>3
  <1>2. Watch' = [Watch EXCEPT ![c] = Watched(c)'] /\ Watch[c] = Watched(c)
    BY <1>1, OneWatched DEF Watch
  <1>3. \/ events # {} /\ Watched(c)' = events
        \/ Watched(c)' = Ignored
        \/ Watched(c) \in {Absent, Ignored} /\ Watched(c)' = {}
    <2>1. events_'[c] = events
      BY <1>u, <1>i
    <2>2. CASE usePoll
      <3>1. /\ HasChannel(c) /\ events = {} => Entry(c)'.fd = -Fd[c] - 1
            /\ events # {} => Entry(c)'.fd = Fd[c]
        BY <2>1, <2>2, <1>u, <1>i, PollUpdateKeeps, ZenonT(30) DEF Indexed, EntryOf
      <3>2. Watched(c)' \in {Ignored, events}
        BY <2>1, <2>2, <1>u, <1>w DEF WatchedSays
      <3>3. events # {} => Watched(c)' = events
        <4>1. events # {} => ~ (Entry(c)'.fd < 0)
          BY <3>1, <1>i
        <4> QED
          BY <2>1, <2>2, <4>1, <1>u, <1>w, ZenonT(30) DEF WatchedSays
      <3>4. HasChannel(c) /\ events = {} => Watched(c)' = Ignored
        BY <2>1, <2>2, <3>1, <1>i, <1>u, <1>w DEF WatchedSays
      <3>5. ~ HasChannel(c) => Watched(c) = Absent
        BY <1>w DEF WatchedSays
      <3> QED
        BY <3>2, <3>3, <3>4, <3>5
    <2>3. CASE ~ usePoll
      <3>1. index_'[c] = IF index_[c] = kAdded /\ events = {} THEN kDeleted ELSE kAdded
        BY <2>3, EPollUpdateKeeps
      <3>2. Watched(c)' = IF index_[c] = kAdded /\ events = {} THEN Ignored ELSE events
        BY <2>1, <2>3, <3>1, <1>u, <1>w DEF WatchedSays, kAdded, kDeleted
      <3>3. index_[c] # kAdded => Watched(c) \in {Absent, Ignored}
        BY <2>3, <1>w, ZenonT(30) DEF WatchedSays, PollerInv, Known, kNew, kAdded, kDeleted
      <3> QED
        BY <3>2, <3>3
    <2> QED
      BY <2>2, <2>3
  <1>4. CASE events # {} /\ Watched(c)' = events
    <2>1. P!Update(c, events)
      BY <1>2, <1>4, <1>u DEF P!Update, Watch
    <2> QED
      BY <2>1, <1>4, <1>u DEF P!Next
  <1>5. CASE Watched(c)' = Ignored
    <2>1. P!Disable(c)
      BY <1>2, <1>5, <1>u DEF P!Disable, Watch
    <2> QED
      BY <2>1 DEF P!Next
  <1>6. CASE Watched(c) \in {Absent, Ignored} /\ Watched(c)' = {}
    <2>1. P!Disable(c)
      BY <1>2, <1>6, <1>u DEF P!Disable, Watch
    <2> QED
      BY <2>1 DEF P!Next
  <1> QED
    BY <1>3, <1>4, <1>5, <1>6

\* Channel::remove() makes the channel absent.
LEMMA RemoveWatch ==
  ASSUME PollerInv, NEW c \in Channels, Remove(c)
  PROVE  P!Next
  <1>u. /\ HasChannel(c) /\ events_' = [events_ EXCEPT ![c] = {}] /\ UNCHANGED <<activeChannels_, usePoll>>
        /\ ~ HasChannel(c)' /\ \A d \in Channels \ {c} : HasChannel(d)' <=> HasChannel(d)
    BY RemoveMaps
  <1>i. PollerInv' /\ usePoll \in BOOLEAN
    BY RemoveKeeps DEF PollerInv, Types0
  <1>e. events_[c] \in SUBSET Types /\ \A d \in Channels \ {c} : events_'[d] = events_[d]
    BY <1>u, ChannelTypes DEF PollerInv, Types0, ChannelTypeOK
  <1>w. WatchedSays /\ WatchedSays'
    BY <1>i, WatchedIs, PTL
  <1>1. ASSUME NEW d \in Channels \ {c} PROVE Watched(d)' = Watched(d)
    <2>1. CASE usePoll
      <3>1. EntrySame(c)
        BY <2>1, PollRemoveKeeps
      <3>2. HasChannel(d) => Entry(d)'.fd = Entry(d).fd
        BY <3>1 DEF EntrySame
      <3> QED
        BY <2>1, <3>2, <1>u, <1>e, <1>w, ZenonT(30) DEF WatchedSays
    <2>2. CASE ~ usePoll
      <3>1. IndexSame(c)
        BY <2>2, EPollRemoveKeeps
      <3>2. index_'[d] = index_[d] /\ events_'[d] = events_[d]
        BY <3>1, <1>e DEF IndexSame
      <3> QED
        BY <2>2, <3>2, <1>u, <1>w DEF WatchedSays
    <2> QED
      BY <2>1, <2>2
  <1>2. Watch' = [Watch EXCEPT ![c] = Watched(c)'] /\ Watch[c] = Watched(c)
    BY <1>1, OneWatched DEF Watch
  <1>3. Watched(c) # Absent /\ Watched(c)' = Absent
    BY <1>u, <1>w, <1>e, MarksAssumption DEF WatchedSays, Absent, Ignored
  <1>4. P!Remove(c)
    BY <1>2, <1>3, <1>u DEF P!Remove, Watch
  <1> QED
    BY <1>4 DEF P!Next

\* Steps that leave the channels and the poller as they are.
LEMMA WatchSame ==
  ASSUME UNCHANGED <<channelVars, pollfds_, epollfd_, usePoll>>
  PROVE  Watch' = Watch
  BY DEF Watch, Watched, HasChannel, Entry, channelVars

\* poll() is a poll of Poller: it reports events that are watched for.
LEMMA PollWatch ==
  ASSUME PollerInv, NEW ready \in [Fds -> Ready], Poll(ready)
  PROVE  P!Next
  <1>1. /\ UNCHANGED <<channelVars, pollfds_, epollfd_, usePoll>>
        /\ \A r \in activeChannels_' : Genuine(r, ready)
    BY Reports
  <1>2. ASSUME NEW r \in activeChannels_'
        PROVE  /\ r[1] \in Channels /\ Watch[r[1]] \notin {Absent, Ignored}
               /\ r[2] # {} /\ r[2] \subseteq Watch[r[1]] \cup {"hup"}
    <2>1. PICK c \in Channels : HasChannel(c) /\ Watched(c) \in SUBSET Types
                                /\ r = ReportOf(c, ready) /\ r[2] # {}
      BY <1>1, <1>2 DEF Genuine
    <2>2. Watch[c] = Watched(c) /\ Watched(c) \notin {Absent, Ignored}
      BY <2>1, MarksAssumption DEF Watch, Absent, Ignored
    <2> QED
      BY <2>1, <2>2 DEF ReportOf
  <1>3. P!Poll
    BY <1>1, <1>2, WatchSame DEF P!Poll, Watch
  <1> QED
    BY <1>3 DEF P!Next

\* For any channels, descriptors and events: both pollers implement Poller.tla,
\* step by step.  update() is an update or silences the channel, remove() makes it
\* absent, and poll() reports events of channels that are watched for them.
THEOREM Implements == Spec => PollerSpec
  <1>1. Init => P!Init
    BY InitWatch
  <1>2. PollerInv /\ [Next]_vars => [P!Next]_<<Watch, activeChannels_>>
    <2> SUFFICES ASSUME PollerInv, [Next]_vars PROVE P!Next \/ UNCHANGED <<Watch, activeChannels_>>
      OBVIOUS
    <2>1. ASSUME NEW c \in Channels, NEW events \in Changed(events_[c]), Update(c, events) PROVE P!Next
      BY <2>1, UpdateWatch
    <2>2. ASSUME NEW c \in Channels, Remove(c) PROVE P!Next
      BY <2>2, RemoveWatch
    <2>3. ASSUME NEW ready \in [Fds -> Ready], Poll(ready) PROVE P!Next
      BY <2>3, PollWatch
    <2>4. CASE UNCHANGED vars
      BY <2>4, WatchSame DEF vars, epollVars
    <2> QED
      BY <2>1, <2>2, <2>3, <2>4 DEF Next
  <1> QED
    BY <1>1, <1>2, SpecInv, PTL DEF Spec, PollerSpec, P!Spec, Watch
=============================================================================
