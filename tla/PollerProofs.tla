---------------------------- MODULE PollerProofs ----------------------------
(***************************************************************************)
(* Proofs about Poller, for any channels and descriptors: the types, that  *)
(* epoll watches what the channels want, and that no assertion fails.      *)
(***************************************************************************)
EXTENDS Poller, FiniteSetTheorems, SequenceTheorems, TLAPS

(***************************************************************************)
(* The invariant of a poller p, and what its operations make of it.        *)
(***************************************************************************)

(* index_, events_ and addedToLoop_ of a channel agree, and so does channels_. *)
ChannelOK(p, c) ==
  /\ p.chan[c].index = "kNew" => p.chan[c].events = {} /\ ~p.chan[c].added
  /\ p.chan[c].index = "kAdded" => p.chan[c].events # {} /\ p.chan[c].added
  /\ p.chan[c].index = "kDeleted" => p.chan[c].events = {} /\ p.chan[c].added
  /\ p.chan[c].index # "kNew" <=> p.channels[p.chan[c].fd] = c

Wanted(p, d) ==
  LET c == p.channels[d]
  IN  IF c = NoChannel \/ p.chan[c].events = {} THEN Unwatched
      ELSE [chan |-> c, events |-> p.chan[c].events]

FdOK(p, d) ==
  /\ p.channels[d] # NoChannel => p.chan[p.channels[d]].fd = d
  /\ p.interest[d] = Wanted(p, d)

Sound(p) ==
  /\ p \in Pollers
  /\ p.failed = "none"
  /\ \A c \in Channels : ChannelOK(p, c)
  /\ \A d \in Fds : FdOK(p, d)

(* A poller by its parts. *)
Is(p, chan, channels, interest) ==
  /\ p \in Pollers
  /\ p.chan = chan /\ p.channels = channels /\ p.interest = interest /\ p.failed = "none"

(* q is p with channel c watching for E. *)
IsWatching(q, p, c, E) ==
  Is(q,
     [p.chan EXCEPT ![c] = Registered(p.chan[c], E, IF E = {} THEN "kDeleted" ELSE "kAdded", TRUE)],
     [p.channels EXCEPT ![p.chan[c].fd] = c],
     [p.interest EXCEPT ![p.chan[c].fd] =
        IF E = {} THEN Unwatched ELSE [chan |-> c, events |-> E]])

(* q is p without channel c, whose object is left. *)
IsRemoved(q, p, c) ==
  Is(q,
     [p.chan EXCEPT ![c] = Registered(p.chan[c], {}, "kNew", FALSE)],
     [p.channels EXCEPT ![p.chan[c].fd] = NoChannel],
     [p.interest EXCEPT ![p.chan[c].fd] = Unwatched])

(* q is p with another object at the address c. *)
IsReplaced(q, p, c, o) == Is(q, [p.chan EXCEPT ![c] = o], p.channels, p.interest)

LEMMA EventNames == Events = {"hup", "err", "in", "out"}
  BY DEF Events, Rank

(* The parts of a poller have their types. *)
LEMMA Parts ==
  ASSUME NEW p \in Pollers, NEW c \in Channels
  PROVE  /\ p.chan \in [Channels -> Objects]
         /\ p.channels \in [Fds -> Channels \cup {NoChannel}]
         /\ p.interest \in [Fds -> [chan : Channels \cup {NoChannel}, events : SUBSET Events]]
         /\ p.chan[c] \in Objects
         /\ p.chan[c].use \in {"none", "wakeup", "listener", "connection", "connector"}
         /\ p.chan[c].fd \in Fds
         /\ p.chan[c].events \subseteq Events
         /\ p.chan[c].index \in {"kNew", "kAdded", "kDeleted"}
         /\ p.chan[c].added \in BOOLEAN
  BY DEF Pollers, Objects

LEMMA UnwatchedType == Unwatched \in [chan : Channels \cup {NoChannel}, events : SUBSET Events]
  BY DEF Unwatched

LEMMA RegisteredType ==
  ASSUME NEW o \in Objects, NEW E \in SUBSET Events, NEW k \in {"kNew", "kAdded", "kDeleted"},
         NEW b \in BOOLEAN
  PROVE  Registered(o, E, k, b) \in Objects
  BY DEF Registered, Objects

LEMMA ObjectType ==
  ASSUME NEW use \in {"none", "wakeup", "listener", "connection", "connector"}, NEW d \in Fds
  PROVE  Object(use, d) \in Objects
  BY DEF Object, Objects

(* Channel::update sets the events and leaves the rest. *)
LEMMA EventsSet ==
  ASSUME NEW p \in Pollers, NEW c \in Channels, NEW o \in Objects
  PROVE  LET q == [p EXCEPT !.chan[c] = o]
         IN  /\ q \in Pollers
             /\ q.chan = [p.chan EXCEPT ![c] = o]
             /\ q.channels = p.channels /\ q.interest = p.interest /\ q.failed = p.failed
<1>1. [p.chan EXCEPT ![c] = o] \in [Channels -> Objects]
  BY Parts
<1> QED
  BY <1>1 DEF Pollers

(* set_index leaves the rest. *)
LEMMA IndexSet ==
  ASSUME NEW p \in Pollers, NEW c \in Channels, NEW k \in {"kNew", "kAdded", "kDeleted"}
  PROVE  LET q == [p EXCEPT !.chan[c].index = k]
         IN  /\ q \in Pollers
             /\ q.chan = [p.chan EXCEPT ![c] =
                            Registered(p.chan[c], p.chan[c].events, k, p.chan[c].added)]
             /\ q.channels = p.channels /\ q.interest = p.interest /\ q.failed = p.failed
<1> DEFINE o == Registered(p.chan[c], p.chan[c].events, k, p.chan[c].added)
<1>1. [p.chan[c] EXCEPT !.index = k] = o
  BY Parts DEF Objects, Registered
<1>2. [p.chan EXCEPT ![c] = o] \in [Channels -> Objects]
  BY Parts, RegisteredType
<1> QED
  BY <1>1, <1>2 DEF Pollers

(* epoll_ctl touches the interest in the channel's descriptor only. *)
LEMMA InterestSet ==
  ASSUME NEW p \in Pollers, NEW d \in Fds,
         NEW w \in [chan : Channels \cup {NoChannel}, events : SUBSET Events]
  PROVE  LET q == [p EXCEPT !.interest[d] = w]
         IN  /\ q \in Pollers
             /\ q.interest = [p.interest EXCEPT ![d] = w]
             /\ q.chan = p.chan /\ q.channels = p.channels /\ q.failed = p.failed
<1>1. [p.interest EXCEPT ![d] = w] \in [Fds -> [chan : Channels \cup {NoChannel}, events : SUBSET Events]]
  BY DEF Pollers
<1> QED
  BY <1>1 DEF Pollers

LEMMA ChannelsSet ==
  ASSUME NEW p \in Pollers, NEW d \in Fds, NEW x \in Channels \cup {NoChannel}
  PROVE  LET q == [p EXCEPT !.channels[d] = x]
         IN  /\ q \in Pollers
             /\ q.channels = [p.channels EXCEPT ![d] = x]
             /\ q.chan = p.chan /\ q.interest = p.interest /\ q.failed = p.failed
<1>1. [p.channels EXCEPT ![d] = x] \in [Fds -> Channels \cup {NoChannel}]
  BY DEF Pollers
<1> QED
  BY <1>1 DEF Pollers

(***************************************************************************)
(* The operations of a sound poller                                        *)
(***************************************************************************)

(* update does as it should for a channel that is in epoll, or that now wants
   something and whose descriptor is its own or nobody's. *)
LEMMA WatchRight ==
  ASSUME NEW p, Sound(p), NEW c \in Channels, NEW E \in SUBSET Events,
         \/ p.chan[c].index = "kAdded"
         \/ p.chan[c].index = "kNew" /\ E # {} /\ p.channels[p.chan[c].fd] = NoChannel
  PROVE  IsWatching(Watch(p, c, E), p, c, E)
<1> DEFINE d == p.chan[c].fd
           o == Registered(p.chan[c], E, p.chan[c].index, TRUE)
<1>1. /\ p \in Pollers /\ p.failed = "none"
      /\ p.chan[c] \in Objects /\ d \in Fds
      /\ p.channels \in [Fds -> Channels \cup {NoChannel}]
      /\ p.interest \in [Fds -> [chan : Channels \cup {NoChannel}, events : SUBSET Events]]
      /\ p.chan \in [Channels -> Objects]
      /\ ChannelOK(p, c) /\ FdOK(p, d)
  BY Parts DEF Sound
<1>2. o \in Objects
  BY <1>1, Parts, RegisteredType
<1> HIDE DEF o
<1> DEFINE q == [p EXCEPT !.chan[c] = o]
<1>3. /\ q \in Pollers /\ q.failed = "none"
      /\ q.chan = [p.chan EXCEPT ![c] = o]
      /\ q.channels = p.channels /\ q.interest = p.interest
  BY <1>1, <1>2, EventsSet
<1>4. q.chan[c] = o
  BY <1>1, <1>3
<1>5. q.chan[c].fd = d /\ q.chan[c].events = E /\ q.chan[c].index = p.chan[c].index
  BY <1>4 DEF Registered, o
<1>6. Watch(p, c, E) = UpdateChannel(q, c)
  BY DEF Watch, o
<1> HIDE DEF q
<1>7. CASE p.chan[c].index = "kNew"
  <2> DEFINE r0 == [q EXCEPT !.channels[d] = c]
             r  == [r0 EXCEPT !.chan[c].index = "kAdded"]
             w  == [chan |-> c, events |-> E]
             s  == [r EXCEPT !.interest[d] = w]
  <2>1. p.channels[d] = NoChannel /\ E # {} /\ p.interest[d] = Unwatched
    BY <1>1, <1>7 DEF FdOK, Wanted
  <2>2. UpdateChannel(q, c) = EpollCtl(r, "ADD", c)
    BY <1>3, <1>5, <1>7, <2>1 DEF UpdateChannel, Fails
  <2>3. /\ r0 \in Pollers /\ r0.failed = "none" /\ r0.channels = [p.channels EXCEPT ![d] = c]
        /\ r0.chan = q.chan /\ r0.interest = p.interest
    BY <1>1, <1>3, ChannelsSet
  <2> HIDE DEF r0
  <2>4. /\ r \in Pollers /\ r.failed = "none" /\ r.channels = r0.channels
        /\ r.chan = [r0.chan EXCEPT ![c] = Registered(r0.chan[c], r0.chan[c].events, "kAdded", r0.chan[c].added)]
        /\ r.interest = r0.interest
    BY <2>3, IndexSet
  <2> HIDE DEF r
  <2>5. r.chan = [p.chan EXCEPT ![c] = Registered(p.chan[c], E, "kAdded", TRUE)]
    <3>1. Registered(o, o.events, "kAdded", o.added) = Registered(p.chan[c], E, "kAdded", TRUE)
      BY DEF Registered, o
    <3>2. r.chan = [q.chan EXCEPT ![c] = Registered(o, o.events, "kAdded", o.added)]
      BY <1>4, <2>3, <2>4
    <3> QED
      BY <1>1, <1>3, <3>1, <3>2
  <2>6. r.chan[c].fd = d /\ r.chan[c].events = E
    BY <1>1, <2>5 DEF Registered
  <2>7. EpollCtl(r, "ADD", c) = s
    BY <2>1, <2>3, <2>4, <2>6 DEF EpollCtl
  <2>8. w \in [chan : Channels \cup {NoChannel}, events : SUBSET Events]
    OBVIOUS
  <2> HIDE DEF w
  <2>9. /\ s \in Pollers /\ s.failed = "none" /\ s.channels = [p.channels EXCEPT ![d] = c]
        /\ s.chan = r.chan /\ s.interest = [p.interest EXCEPT ![d] = w]
    BY <1>1, <2>3, <2>4, <2>8, InterestSet
  <2> HIDE DEF s
  <2> QED
    BY <1>6, <2>1, <2>2, <2>5, <2>7, <2>9 DEF IsWatching, Is, w
<1>8. CASE p.chan[c].index = "kAdded" /\ E = {}
  <2> DEFINE r == [q EXCEPT !.interest[d] = Unwatched]
             s == [r EXCEPT !.chan[c].index = "kDeleted"]
  <2>1. p.channels[d] = c
    BY <1>1, <1>8 DEF ChannelOK
  <2>2. EpollCtl(q, "DEL", c) = r
    BY <1>5 DEF EpollCtl
  <2>3. /\ r \in Pollers /\ r.failed = "none" /\ r.channels = p.channels
        /\ r.chan = q.chan /\ r.interest = [p.interest EXCEPT ![d] = Unwatched]
    BY <1>1, <1>3, UnwatchedType, InterestSet
  <2> HIDE DEF r
  <2>4. UpdateChannel(q, c) = s
    BY <1>3, <1>5, <1>8, <2>1, <2>2 DEF UpdateChannel, Fails
  <2>5. /\ s \in Pollers /\ s.failed = "none" /\ s.channels = r.channels
        /\ s.chan = [r.chan EXCEPT ![c] = Registered(r.chan[c], r.chan[c].events, "kDeleted", r.chan[c].added)]
        /\ s.interest = r.interest
    BY <2>3, IndexSet
  <2> HIDE DEF s
  <2>6. s.chan = [p.chan EXCEPT ![c] = Registered(p.chan[c], E, "kDeleted", TRUE)]
    BY <1>1, <1>3, <1>4, <2>3, <2>5 DEF Registered, o
  <2>7. p.channels = [p.channels EXCEPT ![d] = c]
    BY <1>1, <2>1
  <2> QED
    BY <1>6, <1>8, <2>3, <2>4, <2>5, <2>6, <2>7 DEF IsWatching, Is
<1>9. CASE p.chan[c].index = "kAdded" /\ E # {}
  <2> DEFINE w == [chan |-> c, events |-> E]
             s == [q EXCEPT !.interest[d] = w]
  <2>1. p.channels[d] = c /\ p.chan[c].events # {}
    BY <1>1, <1>9 DEF ChannelOK
  <2>2. p.interest[d] # Unwatched
    BY <1>1, <2>1, FixedAssumption DEF FdOK, Wanted, Unwatched
  <2>3. w \in [chan : Channels \cup {NoChannel}, events : SUBSET Events]
    OBVIOUS
  <2>4. EpollCtl(q, "MOD", c) = s
    BY <1>3, <1>5, <2>2 DEF EpollCtl
  <2> HIDE DEF w
  <2>5. /\ s \in Pollers /\ s.failed = "none" /\ s.channels = p.channels
        /\ s.chan = q.chan /\ s.interest = [p.interest EXCEPT ![d] = w]
    BY <1>1, <1>3, <2>3, InterestSet
  <2> HIDE DEF s
  <2>6. UpdateChannel(q, c) = s
    BY <1>3, <1>5, <1>9, <2>1, <2>4 DEF UpdateChannel, Fails
  <2>7. q.chan = [p.chan EXCEPT ![c] = Registered(p.chan[c], E, "kAdded", TRUE)]
    BY <1>3, <1>9 DEF o
  <2>8. p.channels = [p.channels EXCEPT ![d] = c]
    BY <1>1, <2>1
  <2> QED
    BY <1>6, <1>9, <2>5, <2>6, <2>7, <2>8 DEF IsWatching, Is, w
<1> QED
  BY <1>7, <1>8, <1>9

(* removeChannel does as it should for a channel that wants nothing. *)
LEMMA RemoveRight ==
  ASSUME NEW p, Sound(p), NEW c \in Channels, p.chan[c].index = "kDeleted", MayRemove(c)
  PROVE  IsRemoved(Remove(p, c), p, c)
<1> DEFINE d == p.chan[c].fd
           o == Registered(p.chan[c], {}, "kNew", FALSE)
<1>1. /\ p \in Pollers /\ p.failed = "none"
      /\ p.chan[c] \in Objects /\ d \in Fds
      /\ p.channels \in [Fds -> Channels \cup {NoChannel}]
      /\ p.interest \in [Fds -> [chan : Channels \cup {NoChannel}, events : SUBSET Events]]
      /\ ChannelOK(p, c) /\ FdOK(p, d)
  BY Parts DEF Sound
<1>2. p.chan[c].events = {} /\ p.channels[d] = c /\ p.interest[d] = Unwatched
  BY <1>1 DEF ChannelOK, FdOK, Wanted
<1>3. o \in Objects
  BY <1>1, RegisteredType
<1> HIDE DEF o
<1> DEFINE q == [p EXCEPT !.channels[d] = NoChannel]
           r == [q EXCEPT !.chan[c] = o]
<1>4. /\ q \in Pollers /\ q.failed = "none" /\ q.channels = [p.channels EXCEPT ![d] = NoChannel]
      /\ q.chan = p.chan /\ q.interest = p.interest
  <2>1. [p.channels EXCEPT ![d] = NoChannel] \in [Fds -> Channels \cup {NoChannel}]
    BY <1>1
  <2> QED
    BY <1>1, <2>1 DEF Pollers
<1>5. o = Registered(q.chan[c], q.chan[c].events, "kNew", FALSE)
  BY <1>2, <1>4 DEF o
<1>6. Remove(p, c) = r
  BY <1>1, <1>2, <1>5 DEF Remove, Fails
<1> HIDE DEF q
<1>7. /\ r \in Pollers /\ r.failed = "none" /\ r.channels = q.channels
      /\ r.chan = [p.chan EXCEPT ![c] = o] /\ r.interest = p.interest
  BY <1>3, <1>4, EventsSet
<1> HIDE DEF r
<1>8. p.interest = [p.interest EXCEPT ![d] = Unwatched]
  BY <1>1, <1>2
<1> QED
  BY <1>4, <1>6, <1>7, <1>8 DEF IsRemoved, Is, o

(* ~Channel and a new Channel touch nothing but the object. *)
LEMMA DestroyRight ==
  ASSUME NEW p, Sound(p), NEW c \in Channels, p.chan[c].index = "kNew", phase # "handle"
  PROVE  IsReplaced(Destroy(p, c), p, c, NoObject)
<1>1. p \in Pollers /\ p.failed = "none" /\ ChannelOK(p, c)
  BY DEF Sound
<1>2. ~p.chan[c].added /\ p.channels[p.chan[c].fd] # c
  BY <1>1 DEF ChannelOK
<1>3. Destroy(p, c) = [p EXCEPT !.chan[c] = NoObject]
  BY <1>2 DEF Destroy, Fails
<1>4. NoObject \in Objects
  BY FixedAssumption, ObjectType DEF NoObject
<1> QED
  BY <1>1, <1>3, <1>4, EventsSet DEF IsReplaced, Is

LEMMA ConstructRight ==
  ASSUME NEW p, Sound(p), NEW c \in Channels, NEW d \in Fds,
         NEW use \in {"none", "wakeup", "listener", "connection", "connector"}
  PROVE  IsReplaced(Construct(p, c, use, d), p, c, Object(use, d))
  BY ObjectType, EventsSet DEF IsReplaced, Is, Construct, Sound

(* close: the kernel has nothing to forget of a descriptor without a channel. *)
LEMMA CloseRight ==
  ASSUME NEW p, Sound(p), NEW d \in Fds, p.channels[d] = NoChannel
  PROVE  Is(CloseFd(p, d), p.chan, p.channels, p.interest)
<1>1. /\ p \in Pollers /\ p.failed = "none" /\ p.interest[d] = Unwatched
      /\ p.interest \in [Fds -> [chan : Channels \cup {NoChannel}, events : SUBSET Events]]
  BY DEF Sound, FdOK, Wanted, Pollers
<1>2. p.interest = [p.interest EXCEPT ![d] = Unwatched]
  BY <1>1
<1>3. LET q == CloseFd(p, d)
      IN  /\ q \in Pollers /\ q.failed = "none" /\ q.chan = p.chan /\ q.channels = p.channels
          /\ q.interest = [p.interest EXCEPT ![d] = Unwatched]
  BY <1>1, UnwatchedType, InterestSet DEF CloseFd
<1> QED
  BY <1>2, <1>3 DEF Is

(***************************************************************************)
(* What they make of a sound poller is sound.                              *)
(***************************************************************************)

LEMMA SoundSame ==
  ASSUME NEW p, Sound(p), NEW q, Is(q, p.chan, p.channels, p.interest)
  PROVE  Sound(q)
  BY DEF Sound, Is, ChannelOK, FdOK, Wanted

LEMMA WatchSound ==
  ASSUME NEW p, Sound(p), NEW q, NEW c \in Channels, NEW E \in SUBSET Events,
         p.channels[p.chan[c].fd] \in {c, NoChannel}, IsWatching(q, p, c, E)
  PROVE  Sound(q)
<1> DEFINE d == p.chan[c].fd
<1>1. /\ p \in Pollers /\ d \in Fds /\ p.chan \in [Channels -> Objects]
      /\ p.channels \in [Fds -> Channels \cup {NoChannel}]
      /\ p.interest \in [Fds -> [chan : Channels \cup {NoChannel}, events : SUBSET Events]]
  BY Parts DEF Sound
<1>2. /\ q.chan[c].fd = d /\ q.chan[c].events = E /\ q.chan[c].added
      /\ q.chan[c].index = IF E = {} THEN "kDeleted" ELSE "kAdded"
      /\ q.channels[d] = c
      /\ q.interest[d] = IF E = {} THEN Unwatched ELSE [chan |-> c, events |-> E]
  BY <1>1 DEF IsWatching, Is, Registered
<1>3. \A b \in Channels \ {c} : q.chan[b] = p.chan[b]
  BY <1>1 DEF IsWatching, Is
<1>4. \A e \in Fds \ {d} : q.channels[e] = p.channels[e] /\ q.interest[e] = p.interest[e]
  BY <1>1 DEF IsWatching, Is
<1>5. ASSUME NEW b \in Channels PROVE ChannelOK(q, b)
  <2>1. CASE b = c
    BY <1>2, <2>1 DEF ChannelOK
  <2>2. CASE b # c /\ p.chan[b].fd # d
    BY <1>1, <1>3, <1>4, <2>2, Parts DEF ChannelOK, Sound
  <2>3. CASE b # c /\ p.chan[b].fd = d
    BY <1>2, <1>3, <2>3, FixedAssumption DEF ChannelOK, Sound
  <2> QED
    BY <2>1, <2>2, <2>3
<1>6. ASSUME NEW e \in Fds PROVE FdOK(q, e)
  <2>1. CASE e = d
    BY <1>2, <2>1, FixedAssumption DEF FdOK, Wanted
  <2>2. CASE e # d
    <3>1. p.channels[e] # c
      BY <2>2, FixedAssumption DEF Sound, FdOK
    <3>2. FdOK(p, e) /\ q.channels[e] = p.channels[e] /\ q.interest[e] = p.interest[e]
      BY <1>4, <2>2 DEF Sound
    <3>3. p.channels[e] # NoChannel => q.chan[p.channels[e]] = p.chan[p.channels[e]]
      BY <1>1, <1>3, <3>1
    <3> QED
      BY <3>2, <3>3 DEF FdOK, Wanted
  <2> QED
    BY <2>1, <2>2
<1> QED
  BY <1>5, <1>6 DEF Sound, IsWatching, Is

LEMMA RemoveSound ==
  ASSUME NEW p, Sound(p), NEW q, NEW c \in Channels,
         p.channels[p.chan[c].fd] = c, IsRemoved(q, p, c)
  PROVE  Sound(q)
<1> DEFINE d == p.chan[c].fd
<1>1. /\ p \in Pollers /\ d \in Fds /\ p.chan \in [Channels -> Objects]
      /\ p.channels \in [Fds -> Channels \cup {NoChannel}]
      /\ p.interest \in [Fds -> [chan : Channels \cup {NoChannel}, events : SUBSET Events]]
  BY Parts DEF Sound
<1>2. /\ q.chan[c].fd = d /\ q.chan[c].events = {} /\ ~q.chan[c].added /\ q.chan[c].index = "kNew"
      /\ q.channels[d] = NoChannel /\ q.interest[d] = Unwatched
  BY <1>1 DEF IsRemoved, Is, Registered
<1>3. \A b \in Channels \ {c} : q.chan[b] = p.chan[b]
  BY <1>1 DEF IsRemoved, Is
<1>4. \A e \in Fds \ {d} : q.channels[e] = p.channels[e] /\ q.interest[e] = p.interest[e]
  BY <1>1 DEF IsRemoved, Is
<1>5. ASSUME NEW b \in Channels PROVE ChannelOK(q, b)
  <2>1. CASE b = c
    BY <1>2, <2>1, FixedAssumption DEF ChannelOK
  <2>2. CASE b # c /\ p.chan[b].fd # d
    BY <1>1, <1>3, <1>4, <2>2, Parts DEF ChannelOK, Sound
  <2>3. CASE b # c /\ p.chan[b].fd = d
    BY <1>2, <1>3, <2>3, FixedAssumption DEF ChannelOK, Sound
  <2> QED
    BY <2>1, <2>2, <2>3
<1>6. ASSUME NEW e \in Fds PROVE FdOK(q, e)
  <2>1. CASE e = d
    BY <1>2, <2>1 DEF FdOK, Wanted
  <2>2. CASE e # d
    <3>1. p.channels[e] # c
      BY <2>2, FixedAssumption DEF Sound, FdOK
    <3>2. FdOK(p, e) /\ q.channels[e] = p.channels[e] /\ q.interest[e] = p.interest[e]
      BY <1>4, <2>2 DEF Sound
    <3>3. p.channels[e] # NoChannel => q.chan[p.channels[e]] = p.chan[p.channels[e]]
      BY <1>1, <1>3, <3>1
    <3> QED
      BY <3>2, <3>3 DEF FdOK, Wanted
  <2> QED
    BY <2>1, <2>2
<1> QED
  BY <1>5, <1>6 DEF Sound, IsRemoved, Is

LEMMA ReplaceSound ==
  ASSUME NEW p, Sound(p), NEW q, NEW c \in Channels, p.chan[c].index = "kNew",
         NEW use, NEW d \in Fds, IsReplaced(q, p, c, Object(use, d))
  PROVE  Sound(q)
<1>1. /\ p \in Pollers /\ p.chan \in [Channels -> Objects] /\ ChannelOK(p, c)
      /\ p.channels \in [Fds -> Channels \cup {NoChannel}]
  BY Parts DEF Sound
<1>2. /\ q.chan[c].fd = d /\ q.chan[c].events = {} /\ ~q.chan[c].added /\ q.chan[c].index = "kNew"
      /\ q.channels = p.channels /\ q.interest = p.interest
  BY <1>1 DEF IsReplaced, Is, Object
<1>3. \A b \in Channels \ {c} : q.chan[b] = p.chan[b]
  BY <1>1 DEF IsReplaced, Is
<1>4. \A e \in Fds : p.channels[e] # c
  BY <1>1, FixedAssumption DEF Sound, FdOK, ChannelOK
<1>5. ASSUME NEW b \in Channels PROVE ChannelOK(q, b)
  BY <1>2, <1>3, <1>4 DEF ChannelOK, Sound
<1>6. ASSUME NEW e \in Fds PROVE FdOK(q, e)
  <2>1. p.channels[e] # NoChannel => q.chan[p.channels[e]] = p.chan[p.channels[e]]
    BY <1>1, <1>3, <1>4
  <2> QED
    BY <1>2, <2>1 DEF FdOK, Wanted, Sound
<1> QED
  BY <1>5, <1>6 DEF Sound, IsReplaced, Is

(***************************************************************************)
(* What the owners keep of their channels, and what they do with them.     *)
(***************************************************************************)

UseOK(p, c) ==
  /\ p.chan[c].use = "none" => p.chan[c].index = "kNew"
  /\ p.chan[c].use \in {"wakeup", "listener", "connection"} => p.chan[c].index # "kNew"
  /\ p.chan[c].use = "connection" => p.chan[c].events = {} \/ "in" \in p.chan[c].events
  /\ p.chan[c].use = "connector" => p.chan[c].index # "kDeleted"

Fine(p) == Sound(p) /\ \A c \in Channels : UseOK(p, c)

(* q is fine, and is p with a new channel c on descriptor d that watches for E, ... *)
IsStarted(q, p, c, use, d, E) ==
  /\ Fine(q)
  /\ q.chan = [p.chan EXCEPT ![c] = Registered(Object(use, d), E, "kAdded", TRUE)]
  /\ q.channels = [p.channels EXCEPT ![d] = c]

(* ... with channel c watching for E, ... *)
IsUpdated(q, p, c, E) ==
  /\ Fine(q)
  /\ q.chan = [p.chan EXCEPT ![c] =
                 Registered(p.chan[c], E, IF E = {} THEN "kDeleted" ELSE "kAdded", TRUE)]
  /\ q.channels = p.channels

(* ... with channel c out of use, ... *)
IsReset(q, p, c) ==
  /\ Fine(q)
  /\ q.chan = [p.chan EXCEPT ![c] = Registered(p.chan[c], {}, "kNew", FALSE)]
  /\ q.channels = [p.channels EXCEPT ![p.chan[c].fd] = NoChannel]

(* ... or without it. *)
IsEnded(q, p, c) ==
  /\ Fine(q)
  /\ q.chan = [p.chan EXCEPT ![c] = NoObject]
  /\ q.channels = [p.channels EXCEPT ![p.chan[c].fd] = NoChannel]

LEMMA StartFine ==
  ASSUME NEW p, Fine(p), NEW c \in Channels, p.chan[c].use = "none",
         NEW use \in {"wakeup", "listener", "connection", "connector"},
         NEW d \in Fds, p.channels[d] = NoChannel,
         NEW E \in SUBSET Events, E # {}, use = "connection" => "in" \in E,
         NEW q, q = Watch(Construct(p, c, use, d), c, E)
  PROVE  IsStarted(q, p, c, use, d, E)
<1> DEFINE r == Construct(p, c, use, d)
<1>1. Sound(p) /\ p.chan[c].index = "kNew" /\ p.chan \in [Channels -> Objects]
  BY DEF Fine, UseOK, Sound, Pollers
<1>2. IsReplaced(r, p, c, Object(use, d))
  BY <1>1, ConstructRight
<1>0. q = Watch(r, c, E)
  OBVIOUS
<1> HIDE DEF r
<1>3. Sound(r)
  BY <1>1, <1>2, ReplaceSound
<1>4. r.chan[c] = Object(use, d) /\ r.channels = p.channels /\ r.chan = [p.chan EXCEPT ![c] = Object(use, d)]
  BY <1>1, <1>2 DEF IsReplaced, Is
<1>5. r.chan[c].fd = d /\ r.chan[c].index = "kNew"
  BY <1>4 DEF Object
<1>6. IsWatching(q, r, c, E)
  <2>1. IsWatching(Watch(r, c, E), r, c, E)
    BY <1>3, <1>4, <1>5, WatchRight
  <2> QED
    BY <1>0, <2>1
<1>7. Sound(q)
  BY <1>3, <1>4, <1>5, <1>6, WatchSound
<1>8. q.chan = [p.chan EXCEPT ![c] = Registered(Object(use, d), E, "kAdded", TRUE)]
  BY <1>1, <1>4, <1>6 DEF IsWatching, Is
<1>9. q.channels = [p.channels EXCEPT ![d] = c]
  BY <1>4, <1>5, <1>6 DEF IsWatching, Is
<1>10. ASSUME NEW b \in Channels PROVE UseOK(q, b)
  <2>1. CASE b = c
    <3>1. q.chan[c].use = use /\ q.chan[c].index = "kAdded" /\ q.chan[c].events = E
      BY <1>1, <1>8 DEF Registered, Object
    <3> QED
      BY <2>1, <3>1 DEF UseOK
  <2>2. CASE b # c
    BY <1>1, <1>8, <2>2 DEF UseOK, Fine
  <2> QED
    BY <2>1, <2>2
<1> QED
  BY <1>7, <1>8, <1>9, <1>10 DEF Fine, IsStarted

LEMMA WatchFine ==
  ASSUME NEW p, Fine(p), NEW c \in Channels, p.chan[c].index = "kAdded", NEW E \in SUBSET Events,
         p.chan[c].use = "connection" => E = {} \/ "in" \in E,
         p.chan[c].use = "connector" => E # {},
         NEW q, q = Watch(p, c, E)
  PROVE  IsUpdated(q, p, c, E)
<1>1. /\ Sound(p) /\ p.chan \in [Channels -> Objects] /\ p.chan[c].fd \in Fds
      /\ p.channels \in [Fds -> Channels \cup {NoChannel}]
  BY DEF Fine, Sound, Pollers, Objects
<1>2. p.channels[p.chan[c].fd] = c
  BY <1>1 DEF Sound, ChannelOK
<1>3. IsWatching(q, p, c, E)
  BY <1>1, WatchRight
<1>4. Sound(q)
  BY <1>1, <1>2, <1>3, WatchSound
<1>5. q.chan = [p.chan EXCEPT ![c] =
                 Registered(p.chan[c], E, IF E = {} THEN "kDeleted" ELSE "kAdded", TRUE)]
  BY <1>3 DEF IsWatching, Is
<1>6. q.channels = p.channels
  BY <1>1, <1>2, <1>3 DEF IsWatching, Is
<1>7. ASSUME NEW b \in Channels PROVE UseOK(q, b)
  <2>1. CASE b = c
    <3>1. /\ q.chan[c].use = p.chan[c].use /\ q.chan[c].events = E
          /\ q.chan[c].index = IF E = {} THEN "kDeleted" ELSE "kAdded"
      BY <1>1, <1>5 DEF Registered
    <3> QED
      BY <2>1, <3>1 DEF UseOK, Fine
  <2>2. CASE b # c
    BY <1>1, <1>5, <2>2 DEF UseOK, Fine
  <2> QED
    BY <2>1, <2>2
<1> QED
  BY <1>4, <1>5, <1>6, <1>7 DEF Fine, IsUpdated

(* removeAndResetChannel, for an attempt that is still watched. *)
LEMMA ResetFine ==
  ASSUME NEW p, Fine(p), NEW c \in Channels, p.chan[c].use = "connector",
         p.chan[c].index = "kAdded", MayRemove(c),
         NEW q, q = RemoveAndResetChannel(p, c)
  PROVE  IsReset(q, p, c)
<1> DEFINE d == p.chan[c].fd
           r == Watch(p, c, {})
<1>1. /\ Sound(p) /\ p.chan \in [Channels -> Objects] /\ d \in Fds
      /\ p.channels \in [Fds -> Channels \cup {NoChannel}] /\ p.channels[d] = c
  BY DEF Fine, Sound, Pollers, Objects, ChannelOK
<1>2. IsWatching(r, p, c, {})
  BY <1>1, WatchRight
<1>3. q = Remove(r, c)
  BY DEF RemoveAndResetChannel, DisableAll
<1> HIDE DEF r
<1>4. Sound(r)
  BY <1>1, <1>2, WatchSound
<1>5. /\ r.chan = [p.chan EXCEPT ![c] = Registered(p.chan[c], {}, "kDeleted", TRUE)]
      /\ r.channels = p.channels
  BY <1>1, <1>2 DEF IsWatching, Is
<1>6. r.chan[c].index = "kDeleted" /\ r.chan[c].fd = d
  BY <1>1, <1>5 DEF Registered
<1>7. IsRemoved(q, r, c)
  BY <1>3, <1>4, <1>6, RemoveRight
<1>8. Sound(q)
  BY <1>1, <1>4, <1>5, <1>6, <1>7, RemoveSound
<1>9. q.chan = [p.chan EXCEPT ![c] = Registered(p.chan[c], {}, "kNew", FALSE)]
  <2>1. Registered(r.chan[c], {}, "kNew", FALSE) = Registered(p.chan[c], {}, "kNew", FALSE)
    <3>1. r.chan[c] = Registered(p.chan[c], {}, "kDeleted", TRUE)
      BY <1>1, <1>5
    <3> QED
      BY <3>1 DEF Registered
  <2> QED
    BY <1>1, <1>5, <1>7, <2>1 DEF IsRemoved, Is
<1>10. q.channels = [p.channels EXCEPT ![d] = NoChannel]
  BY <1>5, <1>6, <1>7 DEF IsRemoved, Is
<1>11. ASSUME NEW b \in Channels PROVE UseOK(q, b)
  <2>1. CASE b = c
    <3>1. q.chan[c].use = "connector" /\ q.chan[c].index = "kNew"
      BY <1>1, <1>9 DEF Registered
    <3> QED
      BY <2>1, <3>1 DEF UseOK
  <2>2. CASE b # c
    BY <1>1, <1>9, <2>2 DEF UseOK, Fine
  <2> QED
    BY <2>1, <2>2
<1> QED
  BY <1>8, <1>9, <1>10, <1>11 DEF Fine, IsReset

(* The reset of the channel, when nothing is being handled. *)
LEMMA DestroyFine ==
  ASSUME NEW p, Fine(p), NEW c \in Channels, p.chan[c].index = "kNew", phase # "handle",
         NEW q, q = Destroy(p, c)
  PROVE  /\ Fine(q)
         /\ q.chan = [p.chan EXCEPT ![c] = NoObject] /\ q.channels = p.channels
<1>1. Sound(p) /\ p.chan \in [Channels -> Objects]
  BY DEF Fine, Sound, Pollers
<1>2. IsReplaced(q, p, c, NoObject)
  BY <1>1, DestroyRight
<1>3. Sound(q)
  BY <1>1, <1>2, FixedAssumption, ReplaceSound DEF NoObject
<1>4. q.chan = [p.chan EXCEPT ![c] = NoObject] /\ q.channels = p.channels
  BY <1>2 DEF IsReplaced, Is
<1>5. ASSUME NEW b \in Channels PROVE UseOK(q, b)
  BY <1>1, <1>4 DEF UseOK, Fine, NoObject, Object
<1> QED
  BY <1>3, <1>4, <1>5 DEF Fine

LEMMA CloseFine ==
  ASSUME NEW p, Fine(p), NEW d \in Fds, p.channels[d] = NoChannel,
         NEW q, q = CloseFd(p, d)
  PROVE  Fine(q) /\ q.chan = p.chan /\ q.channels = p.channels
<1>1. Is(q, p.chan, p.channels, p.interest)
  BY CloseRight DEF Fine
<1>2. Sound(q)
  BY <1>1, SoundSame DEF Fine
<1> QED
  BY <1>1, <1>2 DEF Fine, UseOK, Is

(* connectDestroyed and the end of the connection. *)
LEMMA EndFine ==
  ASSUME NEW p, Fine(p), NEW c \in Channels, p.chan[c].use = "connection",
         p.chan[c].events = {}, phase # "handle",
         NEW q, q = CloseFd(Destroy(Remove(p, c), c), p.chan[c].fd)
  PROVE  IsEnded(q, p, c)
<1> DEFINE d == p.chan[c].fd
           r == Remove(p, c)
           s == Destroy(r, c)
<1>0. q = CloseFd(s, d)
  OBVIOUS
<1>1. /\ Sound(p) /\ p.chan \in [Channels -> Objects] /\ p.chan[c] \in Objects /\ d \in Fds
      /\ p.channels \in [Fds -> Channels \cup {NoChannel}]
  BY DEF Fine, Sound, Pollers, Objects
<1>2. p.chan[c].index = "kDeleted" /\ p.channels[d] = c
  BY <1>1 DEF Fine, UseOK, Sound, ChannelOK, Objects
<1>3. MayRemove(c)
  BY DEF MayRemove
<1>4. IsRemoved(r, p, c)
  BY <1>1, <1>2, <1>3, RemoveRight
<1> HIDE DEF r
<1>5. Sound(r)
  BY <1>1, <1>2, <1>4, RemoveSound
<1>6. /\ r.chan = [p.chan EXCEPT ![c] = Registered(p.chan[c], {}, "kNew", FALSE)]
      /\ r.channels = [p.channels EXCEPT ![d] = NoChannel]
  BY <1>4 DEF IsRemoved, Is
<1>7. r.chan[c].index = "kNew" /\ r.channels[d] = NoChannel
  BY <1>1, <1>6 DEF Registered
<1>8. IsReplaced(s, r, c, NoObject)
  BY <1>5, <1>7, DestroyRight
<1> HIDE DEF s
<1>9. Sound(s)
  BY <1>5, <1>7, <1>8, FixedAssumption, ReplaceSound DEF NoObject
<1>10. s.chan = [p.chan EXCEPT ![c] = NoObject] /\ s.channels = r.channels
  BY <1>1, <1>6, <1>8 DEF IsReplaced, Is
<1>11. Is(q, s.chan, s.channels, s.interest)
  BY <1>1, <1>7, <1>9, <1>0, <1>10, CloseRight
<1>12. Sound(q)
  BY <1>9, <1>11, SoundSame
<1>13. q.chan = [p.chan EXCEPT ![c] = NoObject] /\ q.channels = [p.channels EXCEPT ![d] = NoChannel]
  BY <1>6, <1>10, <1>11 DEF Is
<1>14. ASSUME NEW b \in Channels PROVE UseOK(q, b)
  BY <1>1, <1>13 DEF UseOK, Fine, NoObject, Object
<1> QED
  BY <1>12, <1>13, <1>14 DEF Fine, IsEnded

(***************************************************************************)
(* The inductive invariant                                                 *)
(***************************************************************************)

(* The handler of an active channel finds what it asserts. *)
HandledOK(p, a) ==
  /\ p.chan[a.chan].use # "none"
  /\ p.chan[a.chan].use = "connection" /\ a.revents \cap {"hup", "in"} # {}
       => p.chan[a.chan].events # {}
  /\ p.chan[a.chan].use = "connector" /\ "err" \in a.revents
       => p.chan[a.chan].index = "kAdded"

ActiveInv ==
  phase = "handle" =>
    /\ \A i, j \in DOMAIN active : active[i].chan = active[j].chan => i = j
    /\ \A i \in DOMAIN active : HandledOK(poller, active[i])

(* A descriptor that may be opened anew has no channel. *)
SocketInv == \A d \in Fds : socket[d] = "closed" => poller.channels[d] = NoChannel

IInv == TypeOK /\ Fine(poller) /\ SocketInv /\ ActiveInv

LEMMA FlagTaken ==
  ASSUME NEW x \in [chan : Channels, revents : SUBSET Events], NEW R \in SUBSET Events
  PROVE  [x EXCEPT !.revents = R] = [chan |-> x.chan, revents |-> R]
  OBVIOUS

(* What the turn of a flag leaves to show. *)
LEMMA TurnStep ==
  ASSUME IInv, NEW c \in Channels, NEW e \in Events, Turn(c, e),
         Fine(poller'),
         \A b \in Channels \ {c} : poller.chan[b].use # "none" => poller'.chan[b] = poller.chan[b],
         HandledOK(poller', [chan |-> c, revents |-> active[at].revents \ {e}]),
         socket' \in [Fds -> Sockets], ready' \in [Fds -> SUBSET Events],
         SocketInv'
  PROVE  IInv'
<1> DEFINE a == [chan |-> c, revents |-> active[at].revents \ {e}]
<1>1. /\ active \in Seq([chan : Channels, revents : SUBSET Events])
      /\ at \in 1 .. Len(active) /\ active[at].chan = c /\ phase = "handle" /\ phase' = "handle"
      /\ role' = role /\ size' = size
      /\ active' = [active EXCEPT ![at].revents = @ \ {e}]
      /\ at' = IF active[at].revents = {e} THEN at + 1 ELSE at
  BY DEF IInv, TypeOK, Turn
<1>2. active[at] \in [chan : Channels, revents : SUBSET Events]
  BY <1>1, ElementOfSeq
<1>3. a \in [chan : Channels, revents : SUBSET Events]
  BY <1>2
<1>4. [active[at] EXCEPT !.revents = @ \ {e}] = a
  BY <1>1, <1>2, FlagTaken
<1>5. active' = [active EXCEPT ![at] = a]
  BY <1>1, <1>4
<1> HIDE DEF a
<1>51. DOMAIN active = 1 .. Len(active) /\ Len(active) \in Nat
  BY <1>1
<1>6. /\ active' \in Seq([chan : Channels, revents : SUBSET Events])
      /\ Len(active') = Len(active) /\ DOMAIN active' = DOMAIN active /\ DOMAIN active = 1 .. Len(active)
  BY <1>1, <1>3, <1>5
<1>7. at' \in 1 .. Len(active') + 1
  BY <1>1, <1>6
<1>8. TypeOK'
  BY <1>1, <1>6, <1>7 DEF IInv, TypeOK, Fine, Sound
<1>9. active'[at] = a /\ a.chan = c
  BY <1>1, <1>51, <1>5 DEF a
<1>10. \A i \in DOMAIN active \ {at} : active'[i] = active[i] /\ active[i].chan \in Channels
  <2> SUFFICES ASSUME NEW i \in DOMAIN active \ {at}
               PROVE  active'[i] = active[i] /\ active[i].chan \in Channels
    OBVIOUS
  <2>1. active[i] \in [chan : Channels, revents : SUBSET Events]
    BY <1>1, <1>51, ElementOfSeq
  <2>2. active'[i] = active[i]
    BY <1>5
  <2> QED
    BY <2>1, <2>2
<1>11. \A i \in DOMAIN active : active'[i].chan = active[i].chan
  BY <1>1, <1>9, <1>10
<1>12. ASSUME NEW i \in DOMAIN active PROVE HandledOK(poller', active'[i])
  <2>1. CASE i = at
    BY <1>9, <2>1 DEF a
  <2>2. CASE i # at
    <3>1. active[i].chan # c /\ HandledOK(poller, active[i])
      BY <1>1, <1>6, <2>2 DEF IInv, ActiveInv
    <3>2. active'[i] = active[i] /\ active[i].chan \in Channels
      BY <1>10, <2>2
    <3>3. poller'.chan[active[i].chan] = poller.chan[active[i].chan]
      BY <3>1, <3>2 DEF HandledOK
    <3> QED
      BY <3>1, <3>2, <3>3 DEF HandledOK
  <2> QED
    BY <2>1, <2>2
<1>13. ActiveInv'
  <2>1. \A i, j \in DOMAIN active' : active'[i].chan = active'[j].chan => i = j
    BY <1>1, <1>6, <1>11 DEF IInv, ActiveInv
  <2> QED
    BY <1>6, <1>12, <2>1 DEF ActiveInv
<1> QED
  BY <1>8, <1>13 DEF IInv

(* What a step of a pending functor leaves to show. *)
LEMMA FunctorStep ==
  ASSUME IInv, InFunctors, Fine(poller'),
         socket' \in [Fds -> Sockets], ready' \in [Fds -> SUBSET Events], SocketInv'
  PROVE  IInv'
  BY DEF IInv, InFunctors, TypeOK, ActiveInv, Fine, Sound

(* A turn that leaves the poller, or only what c watches, leaves the descriptors. *)
LEMMA TurnSame ==
  ASSUME IInv, NEW c \in Channels, NEW e \in Events, Turn(c, e),
         UNCHANGED <<poller, socket>>, ready' \in [Fds -> SUBSET Events]
  PROVE  IInv'
<1>1. HandledOK(poller, active[at])
  BY DEF IInv, ActiveInv, Turn, TypeOK
<1>2. active[at].chan = c
  BY DEF Turn
<1>3. HandledOK(poller', [chan |-> c, revents |-> active[at].revents \ {e}])
  BY <1>1, <1>2 DEF HandledOK
<1> QED
  BY <1>3, TurnStep DEF IInv, TypeOK, SocketInv

LEMMA TurnWatch ==
  ASSUME IInv, NEW c \in Channels, NEW e \in Events, Turn(c, e),
         NEW E \in SUBSET Events, poller' = Watch(poller, c, E),
         poller.chan[c].use = "connection", poller.chan[c].events # {},
         E = {} \/ "in" \in E,
         E = {} => (active[at].revents \ {e}) \cap {"hup", "in"} = {},
         UNCHANGED socket, ready' \in [Fds -> SUBSET Events]
  PROVE  IInv'
<1>1. Fine(poller) /\ poller.chan \in [Channels -> Objects] /\ poller.chan[c].index = "kAdded"
  BY DEF IInv, Fine, Sound, Pollers, Objects, ChannelOK
<1>2. IsUpdated(poller', poller, c, E)
  BY <1>1, WatchFine
<1>3. poller'.chan[c].use = "connection" /\ poller'.chan[c].events = E
  BY <1>1, <1>2 DEF Registered, IsUpdated
<1>4. HandledOK(poller', [chan |-> c, revents |-> active[at].revents \ {e}])
  BY <1>3 DEF HandledOK
<1>5. \A b \in Channels \ {c} : poller'.chan[b] = poller.chan[b]
  BY <1>1, <1>2 DEF IsUpdated
<1> QED
  BY <1>2, <1>4, <1>5, TurnStep DEF IInv, TypeOK, SocketInv, IsUpdated

(***************************************************************************)
(* The initial state and the steps                                         *)
(***************************************************************************)

LEMMA BlankFine == Fine(Blank) /\ \A d \in Fds : Blank.channels[d] = NoChannel
<1>1. NoObject \in Objects
  BY FixedAssumption, ObjectType DEF NoObject
<1>2. Blank \in Pollers
  <2> DEFINE chan     == [c \in Channels |-> NoObject]
             channels == [d \in Fds |-> NoChannel]
             interest == [d \in Fds |-> Unwatched]
  <2>1. /\ chan \in [Channels -> Objects] /\ channels \in [Fds -> Channels \cup {NoChannel}]
        /\ interest \in [Fds -> [chan : Channels \cup {NoChannel}, events : SUBSET Events]]
    BY <1>1, UnwatchedType
  <2>2. Blank = [chan |-> chan, channels |-> channels, interest |-> interest, failed |-> "none"]
    BY DEF Blank
  <2> HIDE DEF chan, channels, interest
  <2>3. [chan |-> chan, channels |-> channels, interest |-> interest, failed |-> "none"] \in Pollers
    BY <2>1 DEF Pollers
  <2> QED
    BY <2>2, <2>3
<1>3. \A c \in Channels : Blank.chan[c] = NoObject
  BY DEF Blank
<1>4. \A d \in Fds : Blank.channels[d] = NoChannel /\ Blank.interest[d] = Unwatched
  BY DEF Blank
<1>5. ASSUME NEW c \in Channels PROVE ChannelOK(Blank, c) /\ UseOK(Blank, c)
  <2>1. /\ NoObject.index = "kNew" /\ NoObject.events = {} /\ ~NoObject.added
        /\ NoObject.use = "none" /\ NoObject.fd = WakeupFd
    BY DEF NoObject, Object
  <2> QED
    BY <1>3, <1>4, <2>1, FixedAssumption DEF ChannelOK, UseOK
<1>6. ASSUME NEW d \in Fds PROVE FdOK(Blank, d)
  BY <1>4 DEF FdOK, Wanted
<1>7. Blank.failed = "none"
  BY DEF Blank
<1> QED
  BY <1>2, <1>4, <1>5, <1>6, <1>7 DEF Fine, Sound

(* A new channel watches for what it is told, and for nothing else. *)
LEMMA NewWatches ==
  ASSUME NEW p, Fine(p), NEW c \in Channels, NEW d \in Fds,
         NEW use \in {"none", "wakeup", "listener", "connection", "connector"}
  PROVE  /\ EnableReading(Construct(p, c, use, d), c) = Watch(Construct(p, c, use, d), c, {"in"})
         /\ EnableWriting(Construct(p, c, use, d), c) = Watch(Construct(p, c, use, d), c, {"out"})
<1> DEFINE q == Construct(p, c, use, d)
<1>1. q.chan = [p.chan EXCEPT ![c] = Object(use, d)] /\ p.chan \in [Channels -> Objects]
  <2>1. Sound(p) /\ p.chan \in [Channels -> Objects]
    BY DEF Fine, Sound, Pollers
  <2>2. IsReplaced(q, p, c, Object(use, d))
    BY <2>1, ConstructRight
  <2> QED
    BY <2>1, <2>2 DEF IsReplaced, Is
<1> HIDE DEF q
<1>2. q.chan[c].events = {}
  BY <1>1 DEF Object
<1>3. EnableReading(q, c) = Watch(q, c, {"in"}) /\ EnableWriting(q, c) = Watch(q, c, {"out"})
  <2>1. q.chan[c].events \cup {"in"} = {"in"} /\ q.chan[c].events \cup {"out"} = {"out"}
    BY <1>2
  <2> QED
    BY <2>1 DEF EnableReading, EnableWriting
<1> QED
  BY <1>3 DEF q

LEMMA EnableFine ==
  ASSUME NEW p, Fine(p), NEW c \in Channels, p.chan[c].use = "none",
         NEW use \in {"wakeup", "listener", "connection"},
         NEW d \in Fds, p.channels[d] = NoChannel,
         NEW q, q = EnableReading(Construct(p, c, use, d), c)
  PROVE  IsStarted(q, p, c, use, d, {"in"})
<1>1. q = Watch(Construct(p, c, use, d), c, {"in"})
  BY NewWatches
<1>2. {"in"} \in SUBSET Events /\ {"in"} # {} /\ "in" \in {"in"}
  BY EventNames
<1> QED
  BY <1>1, <1>2, StartFine

LEMMA ConnectingFine ==
  ASSUME NEW p, Fine(p), NEW c \in Channels, p.chan[c].use = "none",
         NEW d \in Fds, p.channels[d] = NoChannel,
         NEW q, q = Connecting(p, c, d)
  PROVE  IsStarted(q, p, c, "connector", d, {"out"})
<1>1. q = Watch(Construct(p, c, "connector", d), c, {"out"})
  BY NewWatches DEF Connecting
<1>2. {"out"} \in SUBSET Events /\ {"out"} # {}
  BY EventNames
<1> QED
  BY <1>1, <1>2, StartFine

LEMMA InitIInv == Init => IInv
<1> SUFFICES ASSUME Init PROVE IInv
  OBVIOUS
<1> DEFINE p == EnableReading(Construct(Blank, Wakeup, "wakeup", WakeupFd), Wakeup)
<1>1. /\ Wakeup \in Channels /\ WakeupFd \in Fds /\ First \in Channels \ {Wakeup}
      /\ FirstFd \in Fds \ {WakeupFd}
  BY FixedAssumption
<1>2. Blank.chan[Wakeup].use = "none" /\ Blank.chan[First].use = "none" /\ Blank.chan \in [Channels -> Objects]
      /\ Blank.channels \in [Fds -> Channels \cup {NoChannel}]
      /\ \A d \in Fds : Blank.channels[d] = NoChannel
  BY <1>1, BlankFine DEF Blank, NoObject, Object, Fine, Sound, Pollers
<1>3. IsStarted(p, Blank, Wakeup, "wakeup", WakeupFd, {"in"})
  BY <1>1, <1>2, BlankFine, EnableFine
<1>4. poller = CASE role = "base"   -> EnableReading(Construct(p, First, "listener", FirstFd), First)
                 [] role = "client" -> Connecting(p, First, FirstFd)
                 [] OTHER           -> p
  BY DEF Init
<1> HIDE DEF p
<1>5. p.chan[First].use = "none" /\ p.channels[FirstFd] = NoChannel
      /\ \A d \in Fds \ {WakeupFd} : p.channels[d] = NoChannel
  BY <1>1, <1>2, <1>3 DEF IsStarted
<1>6. p.channels \in [Fds -> Channels \cup {NoChannel}]
  BY <1>3 DEF IsStarted, Fine, Sound, Pollers
<1>7. ASSUME role = "base" PROVE Fine(poller) /\ SocketInv
  <2>1. IsStarted(poller, p, First, "listener", FirstFd, {"in"})
    <3>1. Fine(p) /\ poller = EnableReading(Construct(p, First, "listener", FirstFd), First)
      BY <1>3, <1>4, <1>7 DEF IsStarted
    <3> QED
      BY <1>1, <1>5, <3>1, EnableFine
  <2>2. SocketInv
    BY <1>1, <1>5, <1>6, <1>7, <2>1 DEF SocketInv, Init, IsStarted
  <2> QED
    BY <2>1, <2>2 DEF IsStarted
<1>8. ASSUME role = "client" PROVE Fine(poller) /\ SocketInv
  <2>1. IsStarted(poller, p, First, "connector", FirstFd, {"out"})
    <3>1. Fine(p) /\ poller = Connecting(p, First, FirstFd)
      BY <1>3, <1>4, <1>8 DEF IsStarted
    <3> QED
      BY <1>1, <1>5, <3>1, ConnectingFine
  <2>2. SocketInv
    BY <1>1, <1>5, <1>6, <1>8, <2>1 DEF SocketInv, Init, IsStarted
  <2> QED
    BY <2>1, <2>2 DEF IsStarted
<1>9. ASSUME role = "pool" PROVE Fine(poller) /\ SocketInv
  BY <1>3, <1>4, <1>5, <1>9 DEF SocketInv, Init, IsStarted
<1>10. Fine(poller) /\ SocketInv /\ role \in {"base", "pool", "client"}
  BY <1>7, <1>8, <1>9 DEF Init
<1>11. TypeOK
  BY <1>10, InitSizeAssumption DEF Init, TypeOK, Fine, Sound, Sockets
<1> QED
  BY <1>10, <1>11 DEF IInv, ActiveInv, Init

(* The descriptors are ready for more, and the loop goes from phase to phase. *)
LEMMA EnvironmentStep ==
  ASSUME IInv, Environment
  PROVE  IInv'
<1>1. PICK d \in Fds : Arrives(d) \/ PeerEnds(d) \/ PeerResets(d) \/ Resolves(d)
  BY DEF Environment
<1>2. PICK kind \in Sockets \ {"closed"}, events \in SUBSET Events : Becomes(d, kind, events)
  <2>1. socket[d] \in Sockets /\ ready[d] \in SUBSET Events
    BY DEF IInv, TypeOK
  <2> QED
    BY <1>1, <2>1, EventNames DEF Arrives, PeerEnds, PeerResets, Resolves, Sockets
<1>3. TypeOK'
  BY <1>2 DEF Becomes, IInv, TypeOK
<1>4. SocketInv'
  BY <1>2 DEF Becomes, IInv, TypeOK, SocketInv
<1> QED
  BY <1>2, <1>3, <1>4 DEF Becomes, IInv, ActiveInv

LEMMA PhaseStep ==
  ASSUME IInv, EventsHandled \/ FunctorsDone
  PROVE  IInv'
<1>1. phase' # "handle" /\ phase' \in {"poll", "functors"}
      /\ UNCHANGED <<role, poller, socket, ready, size>>
  BY DEF EventsHandled, FunctorsDone
<1>2. /\ active' \in Seq([chan : Channels, revents : SUBSET Events])
      /\ at' \in 1 .. Len(active') + 1
  <2>1. CASE EventsHandled
    BY <2>1 DEF EventsHandled
  <2>2. CASE FunctorsDone
    BY <2>2 DEF FunctorsDone, IInv, TypeOK
  <2> QED
    BY <2>1, <2>2
<1>3. TypeOK'
  BY <1>1, <1>2 DEF IInv, TypeOK
<1> QED
  BY <1>1, <1>3 DEF IInv, SocketInv, ActiveInv

LEMMA FunctionIsSeq ==
  ASSUME NEW S, NEW n \in Nat, NEW f \in [1 .. n -> S]
  PROVE  f \in Seq(S) /\ DOMAIN f = 1 .. n /\ Len(f) = n
<1>1. f \in Seq(S)
  OBVIOUS
<1>2. DOMAIN f = 1 .. n /\ DOMAIN f = 1 .. Len(f) /\ Len(f) \in Nat
  BY <1>1, LenProperties
<1> QED
  BY <1>1, <1>2

(* What epoll_wait reports of a descriptor is for the channel that is in
   channels_ there, and that channel wants something. *)
LEMMA ReportedChannel ==
  ASSUME NEW p, Fine(p), NEW d \in Fds, p.interest[d] # Unwatched
  PROVE  LET c == p.interest[d].chan
         IN  /\ c \in Channels /\ p.channels[d] = c /\ p.chan[c].fd = d
             /\ p.chan[c].events # {} /\ p.chan[c].index = "kAdded" /\ p.chan[c].use # "none"
<1>1. /\ Sound(p) /\ FdOK(p, d) /\ p.channels[d] \in Channels \cup {NoChannel}
  BY DEF Fine, Sound, Pollers
<1>2. /\ p.channels[d] # NoChannel /\ p.interest[d].chan = p.channels[d]
      /\ p.chan[p.channels[d]].events # {}
  BY <1>1 DEF FdOK, Wanted
<1>3. p.channels[d] \in Channels /\ p.chan[p.channels[d]].fd = d
  BY <1>1, <1>2 DEF FdOK
<1>4. ChannelOK(p, p.channels[d]) /\ UseOK(p, p.channels[d])
      /\ p.chan[p.channels[d]].index \in {"kNew", "kAdded", "kDeleted"}
  BY <1>3, Parts DEF Fine, Sound
<1> QED
  BY <1>2, <1>3, <1>4 DEF ChannelOK, UseOK

LEMMA PollStep ==
  ASSUME IInv, Poll
  PROVE  IInv'
<1> DEFINE hits == {d \in Fds : Reported(d) # {}}
           n    == IF Cardinality(hits) < size THEN Cardinality(hits) ELSE size
<1>1. Cardinality(hits) \in Nat /\ size \in Nat \ {0}
  BY FixedAssumption, FS_Subset, FS_CardinalityType DEF IInv, TypeOK
<1>2. n \in Nat
  BY <1>1
<1>3. size' = Resized(n) /\ phase = "poll" /\ phase' = "handle" /\ at' = 1
      /\ UNCHANGED <<role, socket, ready>>
  BY DEF Poll
<1>4. PICK s \in Orders(n, hits) :
        /\ active' = [i \in 1 .. n |-> [chan    |-> poller.interest[s[i]].chan,
                                        revents |-> Reported(s[i])]]
        /\ poller' = Fails(poller,
                           \A i \in 1 .. n :
                             LET c == poller.interest[s[i]].chan
                             IN  poller.channels[poller.chan[c].fd] = c,
                           "fillActiveChannels")
  BY DEF Poll
<1> HIDE DEF n
<1>5. /\ s \in [1 .. n -> hits]
      /\ \A i, j \in 1 .. n : s[i] = s[j] => i = j
  BY <1>4 DEF Orders
<1>6. ASSUME NEW i \in 1 .. n
      PROVE  LET c == poller.interest[s[i]].chan
             IN  /\ c \in Channels /\ poller.channels[s[i]] = c /\ poller.chan[c].fd = s[i]
                 /\ poller.chan[c].events # {} /\ poller.chan[c].index = "kAdded"
                 /\ poller.chan[c].use # "none"
                 /\ Reported(s[i]) \in SUBSET Events
  <2>1. s[i] \in Fds /\ Reported(s[i]) # {}
    BY <1>5
  <2>2. poller.interest[s[i]] # Unwatched /\ Reported(s[i]) \in SUBSET Events
    BY <2>1 DEF Reported, IInv, TypeOK
  <2> QED
    BY <2>1, <2>2, ReportedChannel DEF IInv
<1>7. poller' = poller
  BY <1>4, <1>6 DEF Fails
<1>8. /\ active' \in Seq([chan : Channels, revents : SUBSET Events])
      /\ DOMAIN active' = 1 .. n /\ Len(active') = n
  <2>1. active' \in [1 .. n -> [chan : Channels, revents : SUBSET Events]]
    BY <1>4, <1>6
  <2> QED
    BY <1>2, <2>1, FunctionIsSeq
<1>9. TypeOK'
  <2>1. size' \in Nat \ {0}
    BY <1>1, <1>3 DEF Resized
  <2>2. at' \in 1 .. Len(active') + 1
    BY <1>2, <1>3, <1>8
  <2> QED
    BY <1>3, <1>7, <1>8, <2>1, <2>2 DEF IInv, TypeOK
<1>10. ActiveInv'
  <2>1. ASSUME NEW i \in 1 .. n, NEW j \in 1 .. n, active'[i].chan = active'[j].chan PROVE i = j
    <3>1. active'[i].chan = poller.interest[s[i]].chan /\ active'[j].chan = poller.interest[s[j]].chan
      BY <1>4
    <3>2. s[i] = s[j]
      BY <1>6, <2>1, <3>1
    <3> QED
      BY <1>5, <3>2
  <2>2. ASSUME NEW i \in 1 .. n PROVE HandledOK(poller', active'[i])
    BY <1>4, <1>6, <1>7 DEF HandledOK
  <2> QED
    BY <1>8, <2>1, <2>2 DEF ActiveInv
<1> QED
  BY <1>3, <1>7, <1>9, <1>10 DEF IInv, SocketInv

(***************************************************************************)
(* Handlers                                                                *)
(***************************************************************************)

(* What a turn starts from. *)
LEMMA TurnFacts ==
  ASSUME IInv, NEW c \in Channels, NEW e \in Events, Turn(c, e)
  PROVE  /\ Fine(poller) /\ SocketInv
         /\ poller.chan \in [Channels -> Objects] /\ poller.chan[c] \in Objects /\ Fd(c) \in Fds
         /\ poller.channels \in [Fds -> Channels \cup {NoChannel}]
         /\ socket \in [Fds -> Sockets] /\ ready \in [Fds -> SUBSET Events]
         /\ HandledOK(poller, [chan |-> c, revents |-> active[at].revents]) /\ MayRemove(c)
         /\ e \in active[at].revents
         /\ e = "in" => "hup" \notin active[at].revents
         /\ e = "out" => active[at].revents \cap {"hup", "err", "in"} = {}
<1>1. at \in DOMAIN active /\ active[at].chan = c /\ phase = "handle"
  BY DEF IInv, TypeOK, Turn
<1>2. HandledOK(poller, [chan |-> c, revents |-> active[at].revents]) /\ MayRemove(c)
  BY <1>1 DEF IInv, ActiveInv, HandledOK, MayRemove
<1>3. /\ e \in active[at].revents
      /\ e = "in" => "hup" \notin active[at].revents
      /\ e = "out" => active[at].revents \cap {"hup", "err", "in"} = {}
  <2>1. Rank["hup"] = 1 /\ Rank["err"] = 2 /\ Rank["in"] = 3 /\ Rank["out"] = 4
    BY DEF Rank
  <2>2. e \in active[at].revents /\ \A other \in active[at].revents : Rank[e] <= Rank[other]
    BY DEF Turn
  <2> QED
    BY <2>1, <2>2
<1> QED
  BY <1>2, <1>3 DEF IInv, Fine, Sound, Pollers, Objects, Fd, TypeOK

LEMMA CloseStep ==
  ASSUME IInv, NEW c \in Channels, CloseCallback(c)
  PROVE  IInv'
<1>1. "hup" \in Events /\ Turn(c, "hup") /\ UNCHANGED <<socket, ready>>
  BY EventNames DEF CloseCallback
<1>2. ready' \in [Fds -> SUBSET Events]
  BY <1>1, TurnFacts
<1>3. CASE Use(c) = "connection" /\ "in" \notin active[at].revents
  <2>1. poller.chan[c].use = "connection" /\ poller.chan[c].events # {}
    BY <1>1, <1>3, TurnFacts DEF HandledOK, Use
  <2>2. poller' = Watch(poller, c, {})
    BY <1>3, <2>1 DEF CloseCallback, HandleClose, DisableAll, Fails
  <2>3. (active[at].revents \ {"hup"}) \cap {"hup", "in"} = {}
    BY <1>3
  <2> QED
    BY <1>1, <1>2, <2>1, <2>2, <2>3, TurnWatch
<1>4. CASE ~(Use(c) = "connection" /\ "in" \notin active[at].revents)
  BY <1>1, <1>2, <1>4, TurnSame DEF CloseCallback
<1> QED
  BY <1>3, <1>4

LEMMA ErrorStep ==
  ASSUME IInv, NEW c \in Channels, ErrorCallback(c)
  PROVE  IInv'
<1>1. "err" \in Events /\ Turn(c, "err") /\ UNCHANGED <<poller, socket>>
  BY EventNames DEF ErrorCallback
<1>2. ready' \in [Fds -> SUBSET Events]
  BY <1>1, TurnFacts DEF ErrorCallback
<1> QED
  BY <1>1, <1>2, TurnSame

LEMMA WriteStep ==
  ASSUME IInv, NEW c \in Channels, WriteCallback(c)
  PROVE  IInv'
<1>1. "out" \in Events /\ Turn(c, "out") /\ UNCHANGED socket /\ poller.chan[c].use = "connection"
  BY EventNames DEF WriteCallback, Use
<1>2. ready' \in [Fds -> SUBSET Events]
  BY <1>1, TurnFacts DEF WriteCallback
<1>3. CASE UNCHANGED poller
  BY <1>1, <1>2, <1>3, TurnSame
<1>4. CASE "out" \in poller.chan[c].events /\ poller' = DisableWriting(poller, c)
  <2>1. PICK E \in SUBSET Events : E = poller.chan[c].events \ {"out"}
    BY <1>1, TurnFacts DEF Objects
  <2>2. "in" \in E /\ poller.chan[c].events # {}
    BY <1>1, <1>4, <2>1, TurnFacts DEF Fine, UseOK
  <2>3. poller' = Watch(poller, c, E)
    BY <1>4, <2>1 DEF DisableWriting
  <2> QED
    BY <1>1, <1>2, <2>2, <2>3, TurnWatch
<1> QED
  BY <1>3, <1>4 DEF WriteCallback

LEMMA ReadStep ==
  ASSUME IInv, NEW c \in Channels, ReadCallback(c)
  PROVE  IInv'
<1>1. /\ "in" \in Events /\ Turn(c, "in") /\ UNCHANGED socket
      /\ poller.chan[c].use = "connection"
  BY EventNames DEF ReadCallback, Use
<1>2. poller.chan[c].events # {} /\ "in" \in poller.chan[c].events
  BY <1>1, TurnFacts DEF HandledOK, Fine, UseOK
<1>3. (active[at].revents \ {"in"}) \cap {"hup", "in"} = {}
  BY <1>1, TurnFacts
<1>4. ready' \in [Fds -> SUBSET Events]
  BY <1>1, TurnFacts, EventNames DEF ReadCallback
<1>5. CASE UNCHANGED poller
  BY <1>1, <1>4, <1>5, TurnSame
<1>6. CASE poller' = EnableWriting(poller, c)
  <2>1. PICK E \in SUBSET Events : E = poller.chan[c].events \cup {"out"}
    BY <1>1, TurnFacts, EventNames DEF Objects
  <2>2. poller' = Watch(poller, c, E) /\ "in" \in E
    BY <1>2, <1>6, <2>1 DEF EnableWriting
  <2> QED
    BY <1>1, <1>2, <1>4, <2>2, TurnWatch
<1>7. CASE poller' = HandleClose(poller, c)
  <2>1. poller' = Watch(poller, c, {})
    BY <1>2, <1>7 DEF HandleClose, DisableAll, Fails
  <2> QED
    BY <1>1, <1>2, <1>3, <1>4, <2>1, TurnWatch
<1> QED
  BY <1>5, <1>6, <1>7 DEF ReadCallback

LEMMA WakeupStep ==
  ASSUME IInv, HandleWakeup
  PROVE  IInv'
<1>1. "in" \in Events /\ Wakeup \in Channels /\ Turn(Wakeup, "in") /\ UNCHANGED <<poller, socket>>
  BY EventNames, FixedAssumption DEF HandleWakeup
<1>2. ready' \in [Fds -> SUBSET Events]
  BY <1>1, TurnFacts, FixedAssumption DEF HandleWakeup
<1> QED
  BY <1>1, <1>2, TurnSame

LEMMA NewObjectFree ==
  ASSUME NEW p, FreeObjects(p) # {}
  PROVE  NewObject(p) \in Channels \ {Wakeup} /\ p.chan[NewObject(p)].use = "none"
<1>1. NewObject(p) \in FreeObjects(p)
  BY DEF NewObject
<1> QED
  BY <1>1 DEF FreeObjects

(* A new channel leaves the others and their descriptors alone. *)
LEMMA StartedElse ==
  ASSUME NEW p, Fine(p), NEW c \in Channels, p.chan[c].use = "none", NEW q, NEW use, NEW d \in Fds, NEW E,
         IsStarted(q, p, c, use, d, E)
  PROVE  /\ \A b \in Channels : p.chan[b].use # "none" => q.chan[b] = p.chan[b]
         /\ \A e \in Fds \ {d} : q.channels[e] = p.channels[e]
         /\ q.channels[d] = c
  BY DEF IsStarted, Fine, Sound, Pollers

LEMMA AcceptStep ==
  ASSUME IInv, HandleAccept
  PROVE  IInv'
<1>1. /\ "in" \in Events /\ First \in Channels /\ FirstFd \in Fds /\ Turn(First, "in")
      /\ poller.chan[First].use = "listener"
  BY EventNames, FixedAssumption DEF HandleAccept, Use
<1>2. Fine(poller) /\ SocketInv /\ socket \in [Fds -> Sockets] /\ ready \in [Fds -> SUBSET Events]
  BY <1>1, TurnFacts
<1>3. ready' \in [Fds -> SUBSET Events]
  BY <1>2, EventNames DEF HandleAccept
<1>4. CASE UNCHANGED <<poller, socket>>
  BY <1>1, <1>3, <1>4, TurnSame
<1>5. CASE \E d \in LowestFd :
             /\ FreeObjects(poller) # {}
             /\ poller' = NewConnection(poller, NewObject(poller), d)
             /\ socket' = [socket EXCEPT ![d] = "up"]
  <2>1. PICK d \in LowestFd :
             /\ FreeObjects(poller) # {}
             /\ poller' = NewConnection(poller, NewObject(poller), d)
             /\ socket' = [socket EXCEPT ![d] = "up"]
    BY <1>5
  <2> DEFINE n == NewObject(poller)
  <2>2. d \in Fds /\ socket[d] = "closed"
    BY DEF LowestFd, FreeFds
  <2>3. poller.channels[d] = NoChannel
    BY <1>2, <2>2 DEF SocketInv
  <2>4. n \in Channels /\ poller.chan[n].use = "none"
    BY <2>1, NewObjectFree
  <2>5. poller' = EnableReading(Construct(poller, n, "connection", d), n)
    BY <2>1 DEF NewConnection
  <2> HIDE DEF n
  <2>6. IsStarted(poller', poller, n, "connection", d, {"in"})
    BY <1>2, <2>2, <2>3, <2>4, <2>5, EnableFine
  <2>7. /\ \A b \in Channels : poller.chan[b].use # "none" => poller'.chan[b] = poller.chan[b]
        /\ \A e \in Fds \ {d} : poller'.channels[e] = poller.channels[e]
    BY <1>2, <2>2, <2>4, <2>6, StartedElse
  <2>8. HandledOK(poller', [chan |-> First, revents |-> active[at].revents \ {"in"}])
    BY <1>1, <2>7 DEF HandledOK
  <2>9. socket' \in [Fds -> Sockets] /\ SocketInv'
    BY <1>2, <2>1, <2>2, <2>7 DEF Sockets, SocketInv
  <2> QED
    BY <1>1, <1>3, <2>6, <2>7, <2>8, <2>9, TurnStep DEF IsStarted
<1> QED
  BY <1>4, <1>5 DEF HandleAccept

(* The attempt of channel c has failed. *)
LEMMA RetryStep ==
  ASSUME IInv, NEW c \in Channels, NEW e \in {"err", "out"}, Turn(c, e),
         poller.chan[c].use = "connector", poller.chan[c].index = "kAdded", Retry(c)
  PROVE  IInv'
<1>1. e \in Events
  BY EventNames
<1>2. /\ Fine(poller) /\ SocketInv /\ socket \in [Fds -> Sockets] /\ ready \in [Fds -> SUBSET Events]
      /\ MayRemove(c) /\ Fd(c) \in Fds /\ poller.chan \in [Channels -> Objects]
      /\ poller.channels \in [Fds -> Channels \cup {NoChannel}]
      /\ "err" \notin active[at].revents \ {e}
  BY <1>1, TurnFacts
<1> DEFINE q == RemoveAndResetChannel(poller, c)
<1>3. poller' = CloseFd(q, Fd(c)) /\ socket' = [socket EXCEPT ![Fd(c)] = "closed"]
      /\ ready' = [ready EXCEPT ![Fd(c)] = {}]
  BY DEF Retry
<1>4. IsReset(q, poller, c)
  BY <1>2, ResetFine
<1> HIDE DEF q
<1>5. /\ Fine(q) /\ q.channels[Fd(c)] = NoChannel /\ q.chan[c].use = "connector"
      /\ \A b \in Channels \ {c} : q.chan[b] = poller.chan[b]
      /\ \A d \in Fds \ {Fd(c)} : q.channels[d] = poller.channels[d]
  BY <1>2, <1>4 DEF IsReset, Registered, Fd
<1>6. Fine(poller') /\ poller'.chan = q.chan /\ poller'.channels = q.channels
  BY <1>2, <1>3, <1>5, CloseFine
<1>7. HandledOK(poller', [chan |-> c, revents |-> active[at].revents \ {e}])
  BY <1>2, <1>5, <1>6 DEF HandledOK
<1>8. socket' \in [Fds -> Sockets] /\ ready' \in [Fds -> SUBSET Events]
  BY <1>2, <1>3 DEF Sockets
<1>9. SocketInv'
  <2> SUFFICES ASSUME NEW d \in Fds, socket'[d] = "closed" PROVE poller'.channels[d] = NoChannel
    BY DEF SocketInv
  <2>1. CASE d = Fd(c)
    BY <1>5, <1>6, <2>1
  <2>2. CASE d # Fd(c)
    <3>1. socket[d] = "closed"
      BY <1>2, <1>3, <2>2
    <3>2. poller.channels[d] = NoChannel
      BY <1>2, <3>1 DEF SocketInv
    <3> QED
      BY <1>5, <1>6, <2>2, <3>2
  <2> QED
    BY <2>1, <2>2
<1> QED
  BY <1>1, <1>5, <1>6, <1>7, <1>8, <1>9, TurnStep

LEMMA ConnectorErrorStep ==
  ASSUME IInv, NEW c \in Channels, ConnectorError(c)
  PROVE  IInv'
<1>1. "err" \in Events /\ Turn(c, "err") /\ poller.chan[c].use = "connector" /\ Retry(c)
  BY EventNames DEF ConnectorError, Use
<1>2. poller.chan[c].index = "kAdded"
  BY <1>1, TurnFacts DEF HandledOK
<1> QED
  BY <1>1, <1>2, RetryStep

(* The channel of the attempt makes room for the connection's on the same descriptor. *)
LEMMA EstablishedFine ==
  ASSUME Fine(poller), NEW c \in Channels,
         poller.chan[c].use = "connector", poller.chan[c].index = "kAdded",
         MayRemove(c), FreeObjects(poller) # {}, NEW r, r = Established(poller, c)
  PROVE  /\ Fine(r) /\ r.chan[c].use = "connector"
         /\ \A b \in Channels \ {c} : poller.chan[b].use # "none" => r.chan[b] = poller.chan[b]
         /\ \A e \in Fds \ {poller.chan[c].fd} : r.channels[e] = poller.channels[e]
<1> DEFINE q == RemoveAndResetChannel(poller, c)
           d == poller.chan[c].fd
<1>1. d \in Fds /\ poller.chan \in [Channels -> Objects] /\ poller.channels \in [Fds -> Channels \cup {NoChannel}]
  BY DEF Fine, Sound, Pollers, Objects
<1>2. IsReset(q, poller, c)
  BY ResetFine
<1>3. r = NewConnection(q, NewObject(q), d)
  BY DEF Established, Fd
<1> HIDE DEF q
<1>4. /\ Fine(q) /\ q.channels[d] = NoChannel /\ q.chan[c].use = "connector"
      /\ \A b \in Channels \ {c} : q.chan[b] = poller.chan[b]
      /\ \A e \in Fds \ {d} : q.channels[e] = poller.channels[e]
  BY <1>1, <1>2 DEF IsReset, Registered
<1>5. FreeObjects(q) # {}
  BY <1>4 DEF FreeObjects
<1> DEFINE n == NewObject(q)
<1>6. n \in Channels /\ q.chan[n].use = "none"
  BY <1>5, NewObjectFree
<1>7. r = EnableReading(Construct(q, n, "connection", d), n)
  BY <1>3 DEF NewConnection
<1> HIDE DEF n
<1>8. IsStarted(r, q, n, "connection", d, {"in"})
  BY <1>1, <1>4, <1>6, <1>7, EnableFine
<1>9. /\ \A b \in Channels : q.chan[b].use # "none" => r.chan[b] = q.chan[b]
      /\ \A e \in Fds \ {d} : r.channels[e] = q.channels[e]
  BY <1>1, <1>4, <1>6, <1>8 DEF IsStarted, Fine, Sound, Pollers
<1>10. r.chan[c].use = "connector"
  BY <1>4, <1>9
<1>11. \A b \in Channels \ {c} : poller.chan[b].use # "none" => r.chan[b] = poller.chan[b]
  BY <1>4, <1>9
<1> QED
  BY <1>4, <1>8, <1>9, <1>10, <1>11 DEF IsStarted

LEMMA ConnectorWriteStep ==
  ASSUME IInv, NEW c \in Channels, ConnectorWrite(c)
  PROVE  IInv'
<1>1. "out" \in Events /\ Turn(c, "out") /\ poller.chan[c].use = "connector"
  BY EventNames DEF ConnectorWrite, Use
<1>2. /\ Fine(poller) /\ SocketInv /\ socket \in [Fds -> Sockets] /\ ready \in [Fds -> SUBSET Events]
      /\ MayRemove(c) /\ Fd(c) \in Fds
      /\ poller.chan[c] \in Objects
      /\ active[at].revents \cap {"hup", "err", "in"} = {}
  BY <1>1, TurnFacts
<1>3. poller.chan[c].added => poller.chan[c].index = "kAdded" /\ poller.channels[Fd(c)] = c
  BY <1>1, <1>2 DEF Fine, Sound, UseOK, ChannelOK, Objects, Fd
<1>4. CASE UNCHANGED <<poller, socket, ready>>
  BY <1>1, <1>2, <1>4, TurnSame
<1>5. CASE poller.chan[c].added /\ Retry(c)
  BY <1>1, <1>3, <1>5, RetryStep
<1>6. CASE /\ poller.chan[c].added /\ FreeObjects(poller) # {}
           /\ poller' = Established(poller, c)
           /\ UNCHANGED <<socket, ready>>
  <2>1. /\ Fine(poller') /\ poller'.chan[c].use = "connector"
        /\ \A b \in Channels \ {c} : poller.chan[b].use # "none" => poller'.chan[b] = poller.chan[b]
        /\ \A e \in Fds \ {Fd(c)} : poller'.channels[e] = poller.channels[e]
    BY <1>1, <1>2, <1>3, <1>6, EstablishedFine DEF Fd
  <2>2. HandledOK(poller', [chan |-> c, revents |-> active[at].revents \ {"out"}])
    BY <1>2, <2>1 DEF HandledOK
  <2>3. SocketInv'
    BY <1>2, <1>3, <1>6, <2>1, FixedAssumption DEF SocketInv
  <2> QED
    BY <1>1, <1>2, <1>6, <2>1, <2>2, <2>3, TurnStep
<1>7. CASE /\ poller.chan[c].added
           /\ LET p == Established(poller, c)
              IN  /\ FreeObjects(poller) # {} /\ FreeObjects(p) # {}
                  /\ \E d \in LowestFd :
                       /\ poller' = Connecting(p, NewObject(p), d)
                       /\ socket' = [socket EXCEPT ![d] = "connecting"]
                  /\ UNCHANGED ready
  <2> DEFINE p == Established(poller, c)
             n == NewObject(p)
  <2>1. PICK d \in LowestFd :
             /\ poller' = Connecting(p, n, d)
             /\ socket' = [socket EXCEPT ![d] = "connecting"]
    BY <1>7
  <2>2. d \in Fds /\ socket[d] = "closed"
    BY DEF LowestFd, FreeFds
  <2>3. n \in Channels /\ p.chan[n].use = "none"
    BY <1>7, NewObjectFree
  <2> HIDE DEF n
  <2>4. /\ Fine(p) /\ p.chan[c].use = "connector"
        /\ \A b \in Channels \ {c} : poller.chan[b].use # "none" => p.chan[b] = poller.chan[b]
        /\ \A e \in Fds \ {Fd(c)} : p.channels[e] = poller.channels[e]
    BY <1>1, <1>2, <1>3, <1>7, EstablishedFine DEF Fd
  <2> HIDE DEF p
  <2>5. poller.channels[d] = NoChannel /\ d # Fd(c)
    BY <1>2, <1>3, <1>7, <2>2, FixedAssumption DEF SocketInv
  <2>6. p.channels[d] = NoChannel
    BY <2>2, <2>4, <2>5
  <2>7. IsStarted(poller', p, n, "connector", d, {"out"})
    BY <2>1, <2>2, <2>3, <2>4, <2>6, ConnectingFine
  <2>8. /\ Fine(poller')
        /\ \A b \in Channels : p.chan[b].use # "none" => poller'.chan[b] = p.chan[b]
        /\ \A e \in Fds \ {d} : poller'.channels[e] = p.channels[e]
    BY <2>2, <2>3, <2>4, <2>7 DEF IsStarted, Fine, Sound, Pollers
  <2>9. HandledOK(poller', [chan |-> c, revents |-> active[at].revents \ {"out"}])
    BY <1>2, <2>4, <2>8 DEF HandledOK
  <2>10. \A b \in Channels \ {c} : poller.chan[b].use # "none" => poller'.chan[b] = poller.chan[b]
    BY <2>4, <2>8
  <2>11. socket' \in [Fds -> Sockets] /\ ready' \in [Fds -> SUBSET Events]
    BY <1>2, <1>7, <2>1 DEF Sockets
  <2>12. SocketInv'
    <3> SUFFICES ASSUME NEW e \in Fds, socket'[e] = "closed" PROVE poller'.channels[e] = NoChannel
      BY DEF SocketInv
    <3>1. e # d /\ socket[e] = "closed"
      BY <1>2, <2>1, <2>2
    <3>2. poller.channels[e] = NoChannel /\ e # Fd(c)
      BY <1>2, <1>3, <1>7, <3>1, FixedAssumption DEF SocketInv
    <3> QED
      BY <2>4, <2>8, <3>1, <3>2
  <2> QED
    BY <1>1, <2>8, <2>9, <2>10, <2>11, <2>12, TurnStep
<1> QED
  BY <1>4, <1>5, <1>6, <1>7 DEF ConnectorWrite

(***************************************************************************)
(* Functors                                                                *)
(***************************************************************************)

LEMMA ConnectEstablishedStep ==
  ASSUME IInv, ConnectEstablished
  PROVE  IInv'
<1> DEFINE n == NewObject(poller)
<1>1. /\ Fine(poller) /\ SocketInv /\ socket \in [Fds -> Sockets] /\ ready \in [Fds -> SUBSET Events]
      /\ n \in Channels /\ poller.chan[n].use = "none" /\ InFunctors
  BY NewObjectFree DEF IInv, TypeOK, ConnectEstablished
<1>2. PICK d \in LowestFd :
        /\ poller' = NewConnection(poller, n, d)
        /\ socket' = [socket EXCEPT ![d] = "up"]
        /\ ready' = [ready EXCEPT ![d] = {"out"}]
  BY DEF ConnectEstablished
<1>3. d \in Fds /\ socket[d] = "closed" /\ poller.channels[d] = NoChannel
  BY <1>1 DEF LowestFd, FreeFds, SocketInv
<1>4. poller' = EnableReading(Construct(poller, n, "connection", d), n)
  BY <1>2 DEF NewConnection
<1> HIDE DEF n
<1>5. IsStarted(poller', poller, n, "connection", d, {"in"})
  BY <1>1, <1>3, <1>4, EnableFine
<1>6. Fine(poller') /\ \A e \in Fds \ {d} : poller'.channels[e] = poller.channels[e]
  BY <1>1, <1>3, <1>5, StartedElse DEF IsStarted
<1>7. /\ socket' \in [Fds -> Sockets] /\ ready' \in [Fds -> SUBSET Events] /\ SocketInv'
  BY <1>1, <1>2, <1>3, <1>6, EventNames DEF SocketInv, Sockets
<1> QED
  BY <1>1, <1>6, <1>7, FunctorStep

LEMMA ConnectDestroyedStep ==
  ASSUME IInv, NEW c \in Channels, ConnectDestroyed(c)
  PROVE  IInv'
<1>1. /\ Fine(poller) /\ SocketInv /\ socket \in [Fds -> Sockets] /\ ready \in [Fds -> SUBSET Events]
      /\ InFunctors /\ phase # "handle" /\ Fd(c) \in Fds
      /\ poller.channels \in [Fds -> Channels \cup {NoChannel}]
  BY DEF IInv, TypeOK, ConnectDestroyed, InFunctors, Fd, Pollers, Objects
<1>2. /\ poller.chan[c].use = "connection" /\ poller.chan[c].events = {}
      /\ poller' = CloseFd(Destroy(Remove(poller, c), c), Fd(c))
      /\ socket' = [socket EXCEPT ![Fd(c)] = "closed"] /\ ready' = [ready EXCEPT ![Fd(c)] = {}]
  BY DEF ConnectDestroyed, Use
<1>3. IsEnded(poller', poller, c)
  BY <1>1, <1>2, EndFine DEF Fd
<1>4. Fine(poller') /\ poller'.channels = [poller.channels EXCEPT ![Fd(c)] = NoChannel]
  BY <1>3 DEF IsEnded, Fd
<1>5. socket' \in [Fds -> Sockets] /\ ready' \in [Fds -> SUBSET Events] /\ SocketInv'
  BY <1>1, <1>2, <1>4 DEF SocketInv, Sockets
<1> QED
  BY <1>1, <1>4, <1>5, FunctorStep

LEMMA ResetChannelStep ==
  ASSUME IInv, NEW c \in Channels, ResetChannel(c)
  PROVE  IInv'
<1>1. /\ Fine(poller) /\ SocketInv /\ InFunctors /\ phase # "handle" /\ UNCHANGED <<socket, ready>>
      /\ poller' = Destroy(poller, c) /\ ~poller.chan[c].added /\ poller.chan[c] \in Objects
  BY DEF IInv, TypeOK, ResetChannel, InFunctors, Pollers
<1>2. poller.chan[c].index = "kNew"
  BY <1>1 DEF Fine, Sound, ChannelOK, Objects
<1>3. Fine(poller') /\ poller'.channels = poller.channels
  BY <1>1, <1>2, DestroyFine
<1>4. SocketInv' /\ socket' \in [Fds -> Sockets] /\ ready' \in [Fds -> SUBSET Events]
  BY <1>1, <1>3 DEF SocketInv, IInv, TypeOK
<1> QED
  BY <1>1, <1>3, <1>4, FunctorStep

(***************************************************************************)
(* The theorems                                                            *)
(***************************************************************************)

LEMMA StepIInv == IInv /\ [Next]_vars => IInv'
<1> SUFFICES ASSUME IInv, [Next]_vars PROVE IInv'
  OBVIOUS
<1>1. CASE UNCHANGED vars
  BY <1>1 DEF vars, IInv, TypeOK, SocketInv, ActiveInv
<1>2. CASE Environment
  BY <1>2, EnvironmentStep
<1>3. CASE Loop
  <2>1. CASE Poll
    BY <2>1, PollStep
  <2>2. CASE EventsHandled \/ FunctorsDone
    BY <2>2, PhaseStep
  <2>3. CASE HandleWakeup
    BY <2>3, WakeupStep
  <2>4. CASE HandleAccept
    BY <2>4, AcceptStep
  <2>5. ASSUME NEW c \in Channels, Callback(c) PROVE IInv'
    BY <2>5, CloseStep, ErrorStep, ReadStep, WriteStep, ConnectorErrorStep, ConnectorWriteStep
       DEF Callback
  <2> QED
    BY <1>3, <2>1, <2>2, <2>3, <2>4, <2>5 DEF Loop
<1>4. CASE RunFunctor
  BY <1>4, ConnectEstablishedStep, ConnectDestroyedStep, ResetChannelStep DEF RunFunctor
<1> QED
  BY <1>1, <1>2, <1>3, <1>4 DEF Next

LEMMA InvariantHolds == Spec => []IInv
  BY InitIInv, StepIInv, PTL DEF Spec

(* The state of a loop's poller has its types: a channel's events, index_ and
   descriptor, epoll's list, and the position in activeChannels_. *)
THEOREM TypeCorrect == Spec => []TypeOK
<1>1. IInv => TypeOK
  BY DEF IInv
<1> QED
  BY <1>1, InvariantHolds, PTL

(* No assertion of Channel, EPollPoller, EventLoop::removeChannel, ~Channel and
   TcpConnection::handleClose fails, whatever the number of channels, the size of
   events_, the order epoll reports in and the events still to be handled. *)
THEOREM AssertionsHold == Spec => []NoAssertionFails
<1>1. IInv => NoAssertionFails
  BY DEF IInv, Fine, Sound, NoAssertionFails
<1> QED
  BY <1>1, InvariantHolds, PTL

(* epoll watches exactly what the registered channels want, after any sequence of
   enable, disable, remove, close and reuse of a descriptor. *)
THEOREM EpollWatchesWhatIsWanted == Spec => []EpollAgrees
<1>1. IInv => EpollAgrees
  BY DEF IInv, Fine, Sound, FdOK, Wanted, EpollAgrees
<1> QED
  BY <1>1, InvariantHolds, PTL
=============================================================================
