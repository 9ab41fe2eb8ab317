------------------------ MODULE SharedMemoryProofs ------------------------
(***************************************************************************)
(* The two structures that the goroutines of squishy share in memory.      *)
(*                                                                         *)
(*   - The event bus, for any number of publishers, clients and events,    *)
(*     and every capacity of channels and replay: no publisher sends on a  *)
(*     closed channel, and a client's stream has no gap.                   *)
(*   - The connection cache, for any number of workers, jobs, migrations   *)
(*     and instances: what the cache and the handlers use is open, and the *)
(*     connections lost to races are bounded.                              *)
(***************************************************************************)
EXTENDS EventBus, ConnCache, FiniteSetTheorems, TLAPS

-----------------------------------------------------------------------------
(* The event bus.                                                          *)

Events == Nat \ {NoEvent}
Conns == {"off", "subscribed", "streaming", "leaving", "gone"}

BusTypeOK ==
    /\ published \in Nat
    /\ stored \in Seq(Events)
    /\ event \in [Publishers -> Nat]
    /\ offers \in [Publishers -> SUBSET Viewers]
    /\ conn \in [Viewers -> Conns]
    /\ chan \in [Viewers -> Seq(Events)]
    /\ stream \in [Viewers -> Seq(Events)]
    /\ dropped \in [Viewers -> SUBSET Events]
    /\ aged \in [Viewers -> SUBSET Events]
    /\ unread \in [Viewers -> SUBSET Events]

\* The map Bus.subs is what the requests are at; a channel is closed only when
\* it is out of the map, and a publisher that reads the map offers only to
\* channels in it: whoever changes the map waits for the write lock.
MapInv ==
    /\ subs = {c \in Viewers : conn[c] \in {"subscribed", "streaming"}}
    /\ closed \subseteq {c \in Viewers : conn[c] = "gone"}
    /\ \A p \in Publishers : offers[p] \subseteq subs

\* A publisher in the fan-out has an event.
FanOutHasEvent == \A p \in Publishers : offers[p] # NoOffers => event[p] # NoEvent

\* The event is still to be offered to the client.
Coming(e, c) ==
    \E p \in Publishers : event[p] = e /\ (offers[p] = NoOffers \/ c \in offers[p])

Arrived(e, c) == e \in ToSet(stream[c]) \cup ToSet(chan[c]) \cup dropped[c] \cup aged[c] \cup unread[c]

\* Per client, not only per event: an event leaves Coming for this client in
\* the very step in which it is offered to this client.
GapInv ==
    \A c \in Viewers : conn[c] = "streaming" =>
        \A e \in ToSet(stored) : Coming(e, c) \/ Arrived(e, c)

BusInv == BusTypeOK /\ MapInv /\ FanOutHasEvent /\ GapInv

-----------------------------------------------------------------------------
(* What the operations on sequences keep of their members.                 *)

\* The members of a sequence of events, by index.
LEMMA Members ==
    ASSUME NEW s \in Seq(Events)
    PROVE  \A x : x \in ToSet(s) <=> \E i \in 1..Len(s) : s[i] = x
<1>1. DOMAIN s = 1..Len(s)
  OBVIOUS
<1> QED
  BY <1>1 DEF ToSet

\* A send adds its event, at the end.
LEMMA AppendMembers ==
    ASSUME NEW s \in Seq(Events), NEW e \in Events
    PROVE  Append(s, e) \in Seq(Events) /\ ToSet(Append(s, e)) = ToSet(s) \cup {e}
<1> DEFINE t == Append(s, e)
<1>1. /\ t \in Seq(Events) /\ Len(t) = Len(s) + 1 /\ t[Len(s) + 1] = e /\ Len(s) \in Nat
      /\ \A i \in 1..Len(s) : t[i] = s[i]
  OBVIOUS
<1> HIDE DEF t
<1>2. \A x : x \in ToSet(t) <=> x \in ToSet(s) \/ x = e
  <2>1. \A x : x \in ToSet(t) <=> \E i \in 1..(Len(s) + 1) : t[i] = x
    BY <1>1, Members
  <2>2. \A x : x \in ToSet(s) <=> \E i \in 1..Len(s) : s[i] = x
    BY Members
  <2> QED
    BY <1>1, <2>1, <2>2
<1> QED
  BY <1>1, <1>2 DEF t

\* A receive takes the first event away, and no other.
LEMMA TailMembers ==
    ASSUME NEW s \in Seq(Events), s # <<>>
    PROVE  ToSet(s) = {Head(s)} \cup ToSet(Tail(s))
<1> DEFINE t == Tail(s)
<1>1. /\ t \in Seq(Events) /\ Len(t) = Len(s) - 1 /\ Head(s) = s[1] /\ Len(s) \in Nat \ {0}
      /\ \A i \in 1..(Len(s) - 1) : t[i] = s[i + 1]
  OBVIOUS
<1> HIDE DEF t
<1>2. \A i \in 2..Len(s) : i - 1 \in 1..(Len(s) - 1) /\ t[i - 1] = s[i]
  BY <1>1
<1>3. \A x : x \in ToSet(s) <=> x \in ToSet(t) \/ x = Head(s)
  <2>1. \A x : x \in ToSet(t) <=> \E i \in 1..(Len(s) - 1) : t[i] = x
    BY <1>1, Members
  <2>2. \A x : x \in ToSet(s) <=> \E i \in 1..Len(s) : s[i] = x
    BY Members
  <2>3. ASSUME NEW x, x \in ToSet(s) PROVE x \in ToSet(t) \/ x = Head(s)
    <3>1. PICK i \in 1..Len(s) : s[i] = x
      BY <2>2, <2>3
    <3>2. i = 1 \/ i \in 2..Len(s)
      BY <1>1
    <3> QED
      BY <1>1, <1>2, <2>1, <3>1, <3>2
  <2>4. ASSUME NEW x, x \in ToSet(t) PROVE x \in ToSet(s)
    <3>1. PICK i \in 1..(Len(s) - 1) : t[i] = x
      BY <2>1, <2>4
    <3>2. i + 1 \in 1..Len(s) /\ s[i + 1] = x
      BY <1>1, <3>1
    <3> QED
      BY <2>2, <3>2
  <2>5. Head(s) \in ToSet(s)
    BY <1>1, <2>2
  <2> QED
    BY <2>3, <2>4, <2>5
<1> QED
  BY <1>3 DEF t

\* A replay adds the events it selected.
LEMMA ConcatMembers ==
    ASSUME NEW s \in Seq(Events), NEW t \in Seq(Events)
    PROVE  ToSet(s \o t) = ToSet(s) \cup ToSet(t)
<1> DEFINE u == s \o t
<1>1. /\ u \in Seq(Events) /\ Len(u) = Len(s) + Len(t) /\ Len(s) \in Nat /\ Len(t) \in Nat
      /\ \A i \in 1..Len(s) : u[i] = s[i]
      /\ \A i \in 1..Len(t) : u[Len(s) + i] = t[i]
  OBVIOUS
<1> HIDE DEF u
<1>2. \A i \in 1..Len(t) : Len(s) + i \in 1..(Len(s) + Len(t))
  BY <1>1
<1>3. ASSUME NEW i \in 1..(Len(s) + Len(t))
      PROVE  \/ i \in 1..Len(s) /\ u[i] = s[i]
             \/ i - Len(s) \in 1..Len(t) /\ u[i] = t[i - Len(s)]
  <2>1. CASE i <= Len(s)
    BY <1>1, <2>1
  <2>2. CASE i > Len(s)
    <3>1. i - Len(s) \in 1..Len(t) /\ Len(s) + (i - Len(s)) = i
      BY <1>1, <2>2
    <3> QED
      BY <1>1, <3>1
  <2> QED
    BY <1>1, <2>1, <2>2
<1>4. \A x : x \in ToSet(u) <=> x \in ToSet(s) \/ x \in ToSet(t)
  <2>1. \A x : x \in ToSet(u) <=> \E i \in 1..Len(u) : u[i] = x
    BY <1>1, Members
  <2>2. /\ \A x : x \in ToSet(s) <=> \E i \in 1..Len(s) : s[i] = x
        /\ \A x : x \in ToSet(t) <=> \E i \in 1..Len(t) : t[i] = x
    BY Members
  <2>3. \A i \in 1..Len(s) : i \in 1..Len(u)
    BY <1>1
  <2>4. \A x : x \in ToSet(u) => x \in ToSet(s) \/ x \in ToSet(t)
    BY <1>1, <1>3, <2>1, <2>2
  <2>5. \A x : x \in ToSet(s) => x \in ToSet(u)
    BY <1>1, <2>1, <2>2, <2>3
  <2>6. \A x : x \in ToSet(t) => x \in ToSet(u)
    BY <1>1, <1>2, <2>1, <2>2
  <2> QED
    BY <2>4, <2>5, <2>6
<1> QED
  BY <1>4 DEF u

\* Any number of rows read gives a sequence of events.
LEMMA RecentType ==
    ASSUME stored \in Seq(Events), NEW n \in Nat
    PROVE  Recent(n) \in Seq(Events)
<1> DEFINE a == IF Len(stored) < n THEN 1 ELSE Len(stored) - n + 1
<1>1. a \in 1..(Len(stored) + 1) /\ Len(stored) \in Nat
  OBVIOUS
<1>2. Recent(n) = SubSeq(stored, a, Len(stored))
  BY DEF Recent
<1> HIDE DEF a
<1> QED
  BY <1>1, <1>2

\* The loop of replayRecent has read some number of rows when it ends.
LEMMA SomeReplay ==
    ASSUME NEW c \in Viewers, ReplayRecent(c) \/ ReplayCutShort(c)
    PROVE  \E n \in Nat : Replay(c, n)
  BY ReplayLimitAssumption DEF ReplayRecent, ReplayCutShort

\* What is stored is among the last ReplayLimit events or before them.
LEMMA RecentMembers ==
    ASSUME stored \in Seq(Events)
    PROVE  /\ Recent(ReplayLimit) \in Seq(Events)
           /\ ToSet(stored) \subseteq
                 ToSet(Recent(ReplayLimit)) \cup {stored[i] : i \in 1..(Len(stored) - ReplayLimit)}
<1> DEFINE a == IF Len(stored) < ReplayLimit THEN 1 ELSE Len(stored) - ReplayLimit + 1
           t == Recent(ReplayLimit)
<1>1. a \in 1..(Len(stored) + 1) /\ Len(stored) \in Nat /\ a \in Nat \ {0}
  BY ReplayLimitAssumption
<1>2. t = SubSeq(stored, a, Len(stored))
  BY DEF Recent
<1> HIDE DEF t
<1>3. /\ t \in Seq(Events) /\ Len(t) = Len(stored) - a + 1
      /\ \A i \in 1..(Len(stored) - a + 1) : t[i] = stored[a + i - 1]
  <2> HIDE DEF a
  <2> QED
    BY <1>1, <1>2
<1>4. \A i \in 1..Len(stored) :
         \/ i \in 1..(Len(stored) - ReplayLimit)
         \/ i - a + 1 \in 1..Len(t) /\ t[i - a + 1] = stored[i]
  <2> SUFFICES ASSUME NEW i \in 1..Len(stored), i \notin 1..(Len(stored) - ReplayLimit)
               PROVE  i - a + 1 \in 1..Len(t) /\ t[i - a + 1] = stored[i]
    OBVIOUS
  <2>1. i - a + 1 \in 1..(Len(stored) - a + 1)
    BY <1>1, ReplayLimitAssumption
  <2> HIDE DEF a
  <2>2. a + (i - a + 1) - 1 = i
    BY <1>1
  <2> QED
    BY <1>3, <2>1, <2>2
<1>5. /\ \A x : x \in ToSet(stored) <=> \E i \in 1..Len(stored) : stored[i] = x
      /\ \A x : x \in ToSet(t) <=> \E i \in 1..Len(t) : t[i] = x
  BY <1>3, Members
<1> QED
  BY <1>3, <1>4, <1>5 DEF t

-----------------------------------------------------------------------------
\* A bus without subscribers.
LEMMA BusInitInv == BusInit => BusInv
  BY DEF BusInit, BusInv, BusTypeOK, MapInv, FanOutHasEvent, GapInv, Conns, NoEvent, NoOffers

\* Every statement keeps the types.
LEMMA BusTypes == ASSUME BusInv, [BusNext]_busVars PROVE BusTypeOK'
<1> USE DEF BusInv, BusTypeOK
<1>1. ASSUME NEW p \in Publishers, Persist(p) PROVE BusTypeOK'
  <2>1. published + 1 \in Events
    BY DEF Events, NoEvent
  <2>2. stored' \in Seq(Events)
    <3>1. stored \in Seq(Events) /\ (stored' = stored \/ stored' = Append(stored, published + 1))
      BY <1>1 DEF Persist
    <3> QED
      BY ONLY <2>1, <3>1, AppendMembers
  <2>3. published' \in Nat /\ event' \in [Publishers -> Nat]
    BY <1>1 DEF Persist
  <2> QED
    BY <1>1, <2>2, <2>3 DEF Persist
<1>2. ASSUME NEW p \in Publishers, BeginFanOut(p) PROVE BusTypeOK'
  <2>1. event' \in [Publishers -> Nat]
    <3>1. /\ event \in [Publishers -> Nat] /\ NoEvent \in Nat
          /\ event' = event \/ event' = [event EXCEPT ![p] = NoEvent]
      BY <1>2 DEF BeginFanOut, NoEvent
    <3> QED
      BY ONLY <3>1
  <2>2. offers' \in [Publishers -> SUBSET Viewers]
    <3>1. /\ offers \in [Publishers -> SUBSET Viewers] /\ subs \in SUBSET Viewers
          /\ offers' = offers \/ offers' = [offers EXCEPT ![p] = subs]
      BY <1>2 DEF BeginFanOut, MapInv
    <3> QED
      BY ONLY <3>1
  <2> QED
    BY <1>2, <2>1, <2>2 DEF BeginFanOut
<1>3. ASSUME NEW p \in Publishers, NEW c \in Viewers, Offer(p, c) PROVE BusTypeOK'
  <2>0. event[p] \in Events
    BY <1>3 DEF Offer, FanOutHasEvent, Events, NoOffers
  <2>1. chan' \in [Viewers -> Seq(Events)] /\ dropped' \in [Viewers -> SUBSET Events]
    <3>1. /\ chan \in [Viewers -> Seq(Events)] /\ dropped \in [Viewers -> SUBSET Events]
          /\ chan' = chan \/ chan' = [chan EXCEPT ![c] = Append(@, event[p])]
          /\ dropped' = dropped \/ dropped' = [dropped EXCEPT ![c] = @ \cup {event[p]}]
      BY <1>3 DEF Offer
    <3>2. Append(chan[c], event[p]) \in Seq(Events)
      BY ONLY <2>0, <3>1, AppendMembers, c \in Viewers
    <3> QED
      BY ONLY <2>0, <3>1, <3>2, c \in Viewers
  <2>2. event' \in [Publishers -> Nat] /\ offers' \in [Publishers -> SUBSET Viewers]
    BY <1>3 DEF Offer, NoEvent
  <2> QED
    BY <1>3, <2>1, <2>2 DEF Offer
<1>4. ASSUME NEW c \in Viewers, ReplayRecent(c) \/ ReplayCutShort(c) PROVE BusTypeOK'
  <2>0. PICK n \in Nat : Replay(c, n)
    BY <1>4, SomeReplay
  <2>1. Recent(n) \in Seq(Events) /\ Recent(ReplayLimit) \in Seq(Events)
    BY RecentMembers, RecentType
  <2>2. stream' \in [Viewers -> Seq(Events)]
    BY <2>0, <2>1 DEF Replay
  <2>3. /\ {stored[i] : i \in 1..(Len(stored) - ReplayLimit)} \subseteq Events
        /\ ToSet(Recent(ReplayLimit)) \ ToSet(Recent(n)) \subseteq Events
    <3>1. {stored[i] : i \in 1..(Len(stored) - ReplayLimit)} \subseteq Events
      BY ReplayLimitAssumption
    <3>2. PICK t : t = Recent(ReplayLimit)
      OBVIOUS
    <3>3. \A x \in ToSet(t) : x \in Events
      BY ONLY <2>1, <3>2, Members
    <3> QED
      BY <3>1, <3>2, <3>3
  <2>4. aged' \in [Viewers -> SUBSET Events] /\ unread' \in [Viewers -> SUBSET Events]
    BY <2>0, <2>3 DEF Replay
  <2> QED
    BY <2>0, <2>2, <2>4 DEF Replay, Conns
<1>5. ASSUME NEW c \in Viewers, Deliver(c) PROVE BusTypeOK'
  BY <1>5 DEF Deliver
<1>6. ASSUME NEW c \in Viewers, Subscribe(c) \/ Unsubscribe(c) \/ CloseChan(c) PROVE BusTypeOK'
  BY <1>6 DEF Subscribe, Unsubscribe, CloseChan, Conns
<1>7. CASE UNCHANGED busVars
  BY <1>7 DEF busVars
<1> QED
  BY <1>1, <1>2, <1>3, <1>4, <1>5, <1>6, <1>7 DEF BusNext

\* Every statement keeps the map of subscribers and the fan-outs under way
\* consistent.
LEMMA MapStays == ASSUME BusInv, [BusNext]_busVars PROVE MapInv' /\ FanOutHasEvent'
<1> USE DEF BusInv, BusTypeOK, NoEvent, NoOffers
<1>1. ASSUME NEW p \in Publishers, Persist(p) PROVE MapInv' /\ FanOutHasEvent'
  BY <1>1 DEF Persist, MapInv, FanOutHasEvent
<1>2. ASSUME NEW p \in Publishers, BeginFanOut(p) PROVE MapInv' /\ FanOutHasEvent'
  <2>1. CASE subs = {}
    <3>1. offers[p] = {} /\ UNCHANGED <<subs, closed, conn, offers>>
          /\ \A q \in Publishers \ {p} : event'[q] = event[q]
      BY <1>2, <2>1 DEF BeginFanOut
    <3> QED
      BY <3>1 DEF MapInv, FanOutHasEvent
  <2>2. CASE subs # {}
    <3>1. /\ event[p] # 0 /\ UNCHANGED <<subs, closed, conn, event>> /\ offers'[p] = subs
          /\ \A q \in Publishers \ {p} : offers'[q] = offers[q]
      BY <1>2, <2>2 DEF BeginFanOut
    <3> QED
      BY <3>1 DEF MapInv, FanOutHasEvent
  <2> QED
    BY <2>1, <2>2
<1>3. ASSUME NEW p \in Publishers, NEW c \in Viewers, Offer(p, c)
      PROVE  MapInv' /\ FanOutHasEvent'
  <2>1. /\ UNCHANGED <<subs, closed, conn>>
        /\ \A q \in Publishers \ {p} : offers'[q] = offers[q] /\ event'[q] = event[q]
        /\ offers'[p] = offers[p] \ {c}
        /\ event'[p] = IF offers[p] = {c} THEN 0 ELSE event[p]
    BY <1>3 DEF Offer
  <2>2. offers[p] # {} /\ event[p] # 0
    BY <1>3 DEF Offer, FanOutHasEvent
  <2>3. MapInv'
    BY <2>1 DEF MapInv
  <2>4. FanOutHasEvent'
    BY <2>1, <2>2 DEF FanOutHasEvent
  <2> QED
    BY <2>3, <2>4
<1>4. ASSUME NEW c \in Viewers, ReplayRecent(c) \/ ReplayCutShort(c) \/ Deliver(c)
      PROVE  MapInv' /\ FanOutHasEvent'
  <2>1. UNCHANGED <<event, offers, subs, closed>> /\ \A d \in Viewers :
           conn'[d] = conn[d] \/ (conn[d] = "subscribed" /\ conn'[d] = "streaming")
    BY <1>4, SomeReplay DEF Replay, Deliver
  <2> QED
    BY <2>1 DEF MapInv, FanOutHasEvent
<1>5. ASSUME NEW c \in Viewers, Subscribe(c) \/ Unsubscribe(c) PROVE MapInv' /\ FanOutHasEvent'
  <2>1. UNCHANGED <<event, offers, closed>> /\ \A p \in Publishers : offers[p] = {}
    BY <1>5 DEF Subscribe, Unsubscribe, WriteLock
  <2>2. CASE Subscribe(c)
    BY <2>1, <2>2 DEF Subscribe, MapInv, FanOutHasEvent
  <2>3. CASE Unsubscribe(c)
    BY <2>1, <2>3 DEF Unsubscribe, MapInv, FanOutHasEvent
  <2> QED
    BY <1>5, <2>2, <2>3
<1>6. ASSUME NEW c \in Viewers, CloseChan(c) PROVE MapInv' /\ FanOutHasEvent'
  BY <1>6 DEF CloseChan, MapInv, FanOutHasEvent
<1>7. CASE UNCHANGED busVars
  BY <1>7 DEF busVars, MapInv, FanOutHasEvent
<1> QED
  BY <1>1, <1>2, <1>3, <1>4, <1>5, <1>6, <1>7 DEF BusNext

\* Every statement accounts for the events it takes from a client.
LEMMA GapStays == ASSUME BusInv, [BusNext]_busVars PROVE GapInv'
<1> USE DEF BusInv, BusTypeOK, NoEvent, NoOffers
<1>1. ASSUME NEW p \in Publishers, Persist(p) PROVE GapInv'
  <2>1. /\ offers[p] = {} /\ UNCHANGED <<offers, conn, chan, stream, dropped, aged, unread>>
        /\ event[p] = 0
        /\ event'[p] = published + 1
        /\ \A q \in Publishers \ {p} : event'[q] = event[q]
        /\ stored' = stored \/ stored' = Append(stored, published + 1)
    BY <1>1 DEF Persist, FanOutHasEvent
  <2>2. ToSet(stored') \subseteq ToSet(stored) \cup {published + 1}
    <3>1. published + 1 \in Events
      BY DEF Events
    <3> QED
      BY <2>1, <3>1, AppendMembers
  <2>3. \A e : e = published + 1 => \A c \in Viewers : Coming(e, c)'
    BY <2>1 DEF Coming
  <2>4. \A e \in ToSet(stored) : e # 0
    BY Members DEF Events
  <2>5. \A c \in Viewers : \A e \in ToSet(stored) : Coming(e, c) => Coming(e, c)'
    BY <2>1, <2>4 DEF Coming
  <2>6. \A c \in Viewers : \A e : Arrived(e, c) => Arrived(e, c)'
    BY <2>1 DEF Arrived
  <2> QED
    BY <2>1, <2>2, <2>3, <2>5, <2>6 DEF GapInv
<1>2. ASSUME NEW p \in Publishers, BeginFanOut(p) PROVE GapInv'
  <2> SUFFICES ASSUME NEW c \in Viewers, conn[c] = "streaming", NEW e \in ToSet(stored), Coming(e, c)
               PROVE  Coming(e, c)'
    BY <1>2 DEF BeginFanOut, GapInv, Arrived
  <2>1. c \in subs
    BY DEF MapInv
  <2>2. event' = event /\ offers' = [offers EXCEPT ![p] = subs]
    BY <1>2, <2>1 DEF BeginFanOut
  <2> QED
    BY <2>1, <2>2 DEF Coming
<1>3. ASSUME NEW p \in Publishers, NEW d \in Viewers, Offer(p, d) PROVE GapInv'
  <2>1. /\ UNCHANGED <<stored, conn, stream, aged, unread>>
        /\ \A q \in Publishers \ {p} : offers'[q] = offers[q] /\ event'[q] = event[q]
        /\ d \in offers[p] /\ offers'[p] = offers[p] \ {d}
        /\ event'[p] = IF offers[p] = {d} THEN 0 ELSE event[p]
    BY <1>3 DEF Offer
  <2>2. event[p] \in Events
    BY <2>1 DEF FanOutHasEvent, Events
  <2>3. /\ \A c \in Viewers : ToSet(chan[c]) \subseteq ToSet(chan'[c]) /\ dropped[c] \subseteq dropped'[c]
        /\ event[p] \in ToSet(chan'[d]) \cup dropped'[d]
    <3>1. CASE Len(chan[d]) < ChanCap
      <4>1. chan' = [chan EXCEPT ![d] = Append(@, event[p])] /\ dropped' = dropped
        BY <1>3, <3>1 DEF Offer
      <4>2. ToSet(chan'[d]) = ToSet(chan[d]) \cup {event[p]}
        BY <2>2, <4>1, AppendMembers
      <4> QED
        BY <4>1, <4>2
    <3>2. CASE ~(Len(chan[d]) < ChanCap)
      BY <1>3, <3>2 DEF Offer
    <3> QED
      BY <3>1, <3>2
  <2>4. \A c \in Viewers : \A e : Arrived(e, c) => Arrived(e, c)'
    BY <2>1, <2>3 DEF Arrived
  <2>5. ASSUME NEW c \in Viewers, NEW e, Coming(e, c) PROVE Coming(e, c)' \/ Arrived(e, c)'
    <3>1. PICK q \in Publishers : event[q] = e /\ (offers[q] = {} \/ c \in offers[q])
      BY <2>5 DEF Coming
    <3>2. CASE q # p
      BY <2>1, <3>1, <3>2 DEF Coming
    <3>3. CASE q = p /\ c = d
      BY <2>3, <3>1, <3>3 DEF Arrived
    <3>4. CASE q = p /\ c # d
      <4>1. c \in offers'[p] /\ event'[p] = e
        BY <2>1, <3>1, <3>4
      <4> QED
        BY <4>1 DEF Coming
    <3> QED
      BY <3>2, <3>3, <3>4
  <2> QED
    BY <2>1, <2>4, <2>5 DEF GapInv
<1>4. ASSUME NEW d \in Viewers, ReplayRecent(d) \/ ReplayCutShort(d) PROVE GapInv'
  <2>0. PICK n \in Nat : Replay(d, n)
    BY <1>4, SomeReplay
  <2>1. /\ UNCHANGED <<stored, event, offers, chan, dropped>>
        /\ stream'[d] = stream[d] \o Recent(n)
        /\ aged'[d] = {stored[i] : i \in 1..(Len(stored) - ReplayLimit)}
        /\ unread'[d] = ToSet(Recent(ReplayLimit)) \ ToSet(Recent(n))
        /\ \A c \in Viewers \ {d} : /\ conn'[c] = conn[c] /\ stream'[c] = stream[c]
                                    /\ aged'[c] = aged[c] /\ unread'[c] = unread[c]
    BY <2>0 DEF Replay
  <2>2. ToSet(Recent(n)) \subseteq ToSet(stream'[d])
    BY <2>1, RecentType, ConcatMembers
  <2>3. \A e \in ToSet(stored) : Arrived(e, d)'
    BY <2>1, <2>2, RecentMembers DEF Arrived
  <2>4. \A c \in Viewers \ {d} : \A e :
           (Arrived(e, c) => Arrived(e, c)') /\ (Coming(e, c) => Coming(e, c)')
    BY <2>1 DEF Arrived, Coming
  <2> QED
    BY <2>1, <2>3, <2>4 DEF GapInv
<1>5. ASSUME NEW d \in Viewers, Deliver(d) PROVE GapInv'
  <2>1. /\ UNCHANGED <<stored, event, offers, conn, dropped, aged, unread>> /\ chan[d] # <<>>
        /\ chan'[d] = Tail(chan[d]) /\ stream'[d] = Append(stream[d], Head(chan[d]))
        /\ \A c \in Viewers \ {d} : chan'[c] = chan[c] /\ stream'[c] = stream[c]
    BY <1>5 DEF Deliver
  <2>2. ToSet(chan[d]) = {Head(chan[d])} \cup ToSet(chan'[d])
    BY <2>1, TailMembers
  <2>3. ToSet(stream'[d]) = ToSet(stream[d]) \cup {Head(chan[d])}
    <3>1. Head(chan[d]) \in Events
      BY <2>1
    <3> QED
      BY <2>1, <3>1, AppendMembers
  <2>4. \A c \in Viewers : \A e :
           (Arrived(e, c) => Arrived(e, c)') /\ (Coming(e, c) => Coming(e, c)')
    BY <2>1, <2>2, <2>3 DEF Arrived, Coming
  <2> QED
    BY <2>1, <2>4 DEF GapInv
<1>6. CASE (\E c \in Viewers : Subscribe(c) \/ Unsubscribe(c) \/ CloseChan(c)) \/ UNCHANGED busVars
  <2>1. /\ UNCHANGED <<stored, event, offers, chan, stream, dropped, aged, unread>>
        /\ \A c \in Viewers : conn'[c] = "streaming" => conn[c] = "streaming"
    BY <1>6 DEF Subscribe, Unsubscribe, CloseChan, busVars
  <2> QED
    BY <2>1 DEF GapInv, Coming, Arrived
<1> QED
  BY <1>1, <1>2, <1>3, <1>4, <1>5, <1>6 DEF BusNext

\* The invariant holds in every reachable state.
LEMMA BusInvariant == BusSpec => []BusInv
<1>1. BusInv /\ [BusNext]_busVars => BusInv'
  BY BusTypes, MapStays, GapStays DEF BusInv
<1> QED
  BY <1>1, BusInitInv, PTL DEF BusSpec

\* cancel closes the channel after it gave the write lock back, yet no publisher
\* can still have the channel before it: nobody panics on a closed channel.
THEOREM SendsAreSafe == BusSpec => []NoSendOnClosed
<1>1. BusInv => NoSendOnClosed
  BY DEF BusInv, MapInv, NoSendOnClosed
<1> QED
  BY <1>1, BusInvariant, PTL

\* Subscribing before replaying: between the two, and in the middle of a
\* fan-out, no stored event gets past a client, but those a full channel, the
\* replay's limit or a read error in the replay kept from it.
THEOREM NoGap == BusSpec => []StreamHasNoGap
<1>1. BusInv => StreamHasNoGap
  BY DEF BusInv, GapInv, Coming, Arrived, StreamHasNoGap
<1> QED
  BY <1>1, BusInvariant, PTL

-----------------------------------------------------------------------------
(* The connection cache.                                                   *)

\* Between a miss in byMig and the store: the worker owns a source pool from
\* openSource on.
Opening == {"openSource", "lookupAdmin", "openAdmin", "storeAdmin", "storeMig"}
HasSource == Opening \ {"openSource"}
HasEntry == {"target", "execute"}
Labels == {"free", "lookup"} \cup Opening \cup HasEntry

Mine == [src : Nat, admin : Nat, mc : Nat]
Entries == [mig : Migs, src : Nat, admin : Nat, tgt : Nat]

ConnTypes ==
    /\ at \in [Workers -> Labels]
    /\ job = [w \in Workers |-> job[w]]
    /\ \A w \in Workers : at[w] # "free" => job[w] \in [mig : Migs, kind : {"create", "other"}]
    /\ mine \in [Workers -> Mine]
    /\ byMig \in [Migs -> Nat]
    /\ byProject \in [Instances -> Nat]
    /\ conns \in Seq(Entries)
    /\ opened \in Nat
    /\ openPools \subseteq 1..opened

EntriesOf(g) == {c \in 1..Len(conns) : conns[c].mig = g}
Missing(g) == {w \in Workers : at[w] \in Opening /\ Mig(w) = g}

\* Pools that an entry or the cache refers to.
Shared(x) ==
    \/ \E i \in Instances : byProject[i] = x
    \/ \E c \in 1..Len(conns) : x \in {conns[c].src, conns[c].admin, conns[c].tgt}

\* Pools that only one worker knows of: what it may close.
OwnedBy(w, x) ==
    \/ at[w] \in HasSource /\ mine[w].src = x
    \/ at[w] = "storeAdmin" /\ mine[w].admin = x

OwnedAreOpen ==
    \A w \in Workers : \A x \in Nat : OwnedBy(w, x) =>
        /\ x \in openPools /\ ~Shared(x)
        /\ \A v \in Workers : OwnedBy(v, x) => v = w

TwoPools == \A w \in Workers : at[w] = "storeAdmin" => mine[w].src # mine[w].admin

SharedAreOpen == \A x \in Nat \ {NoPool} : Shared(x) => x \in openPools

\* An entry has the admin pool of its instance, and so will the one a worker
\* is about to store.
OneAdmin ==
    /\ \A c \in 1..Len(conns) :
          /\ conns[c].src # NoPool /\ conns[c].admin # NoPool
          /\ conns[c].admin = byProject[InstanceOf[conns[c].mig]]
    /\ \A w \in Workers : at[w] = "storeMig" =>
          mine[w].admin = byProject[Inst(w)] /\ mine[w].admin # NoPool

\* Each entry of a migration is due to a worker that missed before the first
\* was stored, and that worker never misses again.
MissesBounded ==
    \A g \in Migs :
        /\ byMig[g] = 0 => EntriesOf(g) = {}
        /\ Cardinality(EntriesOf(g)) + Cardinality(Missing(g)) <= Cardinality(Workers)

\* What a handler is given.
EntriesFound ==
    /\ \A g \in Migs : byMig[g] # 0 => byMig[g] \in EntriesOf(g)
    /\ \A w \in Workers : at[w] \in HasEntry => mine[w].mc \in EntriesOf(Mig(w))
    /\ \A w \in Workers : at[w] = "execute" /\ job[w].kind # "create" =>
          conns[mine[w].mc].tgt # NoPool
    /\ \A c \in 1..Len(conns) : conns[c].tgt # NoPool => conns[c].mig \in targetExists

ConnInv ==
    /\ ConnTypes /\ OwnedAreOpen /\ TwoPools /\ SharedAreOpen /\ OneAdmin
    /\ MissesBounded /\ EntriesFound

-----------------------------------------------------------------------------
\* An empty cache.
LEMMA ConnInitInv == ConnInit => ConnInv
<1> SUFFICES ASSUME ConnInit PROVE ConnInv
  OBVIOUS
<1>1. /\ Len(conns) = 0 /\ conns \in Seq(Entries) /\ openPools = {} /\ opened = 0
      /\ at = [w \in Workers |-> "free"]
      /\ \A g \in Migs : byMig[g] = 0
      /\ \A i \in Instances : byProject[i] = NoPool
  BY DEF ConnInit
<1>2. ConnTypes
  <2>1. mine \in [Workers -> Mine]
    BY DEF ConnInit, Mine, Nothing, NoPool
  <2>2. at \in [Workers -> Labels] /\ job = [w \in Workers |-> job[w]]
    BY DEF ConnInit, Labels
  <2>3. byMig \in [Migs -> Nat] /\ byProject \in [Instances -> Nat]
    BY DEF ConnInit, NoPool
  <2> QED
    BY <1>1, <2>1, <2>2, <2>3 DEF ConnTypes
<1>3. OwnedAreOpen /\ TwoPools /\ SharedAreOpen /\ OneAdmin
  BY <1>1 DEF OwnedAreOpen, OwnedBy, HasSource, Opening, TwoPools, SharedAreOpen, Shared, OneAdmin
<1>4. \A g \in Migs : EntriesOf(g) = {} /\ Missing(g) = {}
  BY <1>1 DEF EntriesOf, Missing, Opening
<1>5. MissesBounded
  <2>1. \A S : S = {} => Cardinality(S) = 0
    BY FS_EmptySet
  <2>2. Cardinality(Workers) \in Nat
    BY FS_CardinalityType, WorkersAssumption
  <2>3. \A g \in Migs : Cardinality(EntriesOf(g)) = 0 /\ Cardinality(Missing(g)) = 0
    BY <1>4, <2>1
  <2> QED
    BY <1>4, <2>2, <2>3 DEF MissesBounded
<1>6. EntriesFound
  BY <1>1 DEF EntriesFound, HasEntry
<1> QED
  BY <1>2, <1>3, <1>5, <1>6 DEF ConnInv

\* The sets that the bound on entries compares are finite.
LEMMA FiniteHere ==
    ASSUME NEW g, ConnTypes
    PROVE  /\ IsFiniteSet(EntriesOf(g)) /\ Cardinality(EntriesOf(g)) \in Nat
           /\ IsFiniteSet(Missing(g)) /\ Cardinality(Missing(g)) \in Nat
           /\ Cardinality(Missing(g)) <= Cardinality(Workers)
           /\ Cardinality(Workers) \in Nat
<1>1. Len(conns) \in Nat
  BY DEF ConnTypes
<1>2. IsFiniteSet(1..Len(conns))
  BY <1>1, FS_Interval
<1>3. EntriesOf(g) \subseteq 1..Len(conns) /\ Missing(g) \subseteq Workers
  BY DEF EntriesOf, Missing
<1> QED
  BY <1>2, <1>3, FS_Subset, FS_CardinalityType, WorkersAssumption

\* A worker's own step: the cache stays as it is, and of the pools only what
\* this worker alone knew of is closed.
LEMMA LocalStep ==
    ASSUME ConnInv, ConnTypes', NEW w \in Workers, UNCHANGED <<byMig, byProject, conns>>,
           \A v \in Workers \ {w} : at'[v] = at[v] /\ mine'[v] = mine[v] /\ job'[v] = job[v],
           targetExists \subseteq targetExists',
           \A x \in openPools : x \in openPools' \/ (OwnedBy(w, x) /\ ~OwnedBy(w, x)'),
           \A x \in Nat : OwnedBy(w, x)' =>
              OwnedBy(w, x) \/ (x \in openPools' /\ x = opened + 1),
           at'[w] = "storeAdmin" => mine'[w].src # mine'[w].admin,
           at'[w] = "storeMig" =>
              mine'[w].admin = byProject[InstanceOf[job'[w].mig]] /\ mine'[w].admin # NoPool,
           at'[w] \in Opening =>
              \/ at[w] \in Opening /\ job'[w] = job[w]
              \/ byMig[job'[w].mig] = 0,
           at'[w] \in HasEntry => mine'[w].mc \in EntriesOf(job'[w].mig),
           at'[w] = "execute" /\ job'[w].kind # "create" => conns[mine'[w].mc].tgt # NoPool
    PROVE  ConnInv'
<1>1. \A x : Shared(x)' <=> Shared(x)
  BY DEF Shared
<1>2. \A v \in Workers \ {w} : \A x : OwnedBy(v, x)' <=> OwnedBy(v, x)
  BY DEF OwnedBy
<1>3. opened \in Nat /\ openPools \subseteq 1..opened /\ opened + 1 \notin openPools
      /\ opened + 1 \in Nat \ {NoPool}
  BY DEF ConnInv, ConnTypes, NoPool
<1>4. ~Shared(opened + 1) /\ \A v \in Workers : ~OwnedBy(v, opened + 1)
  BY <1>3 DEF ConnInv, SharedAreOpen, OwnedAreOpen
<1>5. OwnedAreOpen'
  <2> SUFFICES ASSUME NEW u \in Workers, NEW x \in Nat, OwnedBy(u, x)'
               PROVE  /\ x \in openPools' /\ ~Shared(x)
                      /\ \A v \in Workers : OwnedBy(v, x)' => v = u
    BY <1>1 DEF OwnedAreOpen
  <2>1. CASE u # w
    <3>1. OwnedBy(u, x) /\ x \in openPools /\ ~Shared(x) /\ ~OwnedBy(w, x) /\ x # opened + 1
      BY <1>2, <1>3, <2>1 DEF ConnInv, OwnedAreOpen
    <3>2. ~OwnedBy(w, x)' /\ x \in openPools'
      BY <3>1
    <3>3. \A v \in Workers : OwnedBy(v, x) => v = u
      BY <3>1 DEF ConnInv, OwnedAreOpen
    <3> QED
      BY <1>2, <3>1, <3>2, <3>3
  <2>2. CASE u = w /\ OwnedBy(w, x)
    <3>1. x \in openPools /\ ~Shared(x) /\ \A v \in Workers : OwnedBy(v, x) => v = w
      BY <2>2 DEF ConnInv, OwnedAreOpen
    <3> QED
      BY <1>2, <2>2, <3>1
  <2>3. CASE u = w /\ x = opened + 1
    BY <1>2, <1>3, <1>4, <2>3
  <2> QED
    BY <2>1, <2>2, <2>3
<1>6. SharedAreOpen'
  <2> SUFFICES ASSUME NEW x \in Nat \ {NoPool}, Shared(x) PROVE x \in openPools'
    BY <1>1 DEF SharedAreOpen
  <2>1. x \in openPools /\ ~OwnedBy(w, x)
    BY DEF ConnInv, SharedAreOpen, OwnedAreOpen
  <2> QED
    BY <2>1
<1>7. TwoPools' /\ OneAdmin'
  BY DEF ConnInv, TwoPools, OneAdmin, Inst
<1>8. MissesBounded'
  <2> SUFFICES ASSUME NEW g \in Migs
               PROVE  /\ byMig[g] = 0 => EntriesOf(g) = {}
                      /\ Cardinality(EntriesOf(g)) + Cardinality(Missing(g)') <= Cardinality(Workers)
    BY DEF MissesBounded, EntriesOf
  <2>1. /\ byMig[g] = 0 => EntriesOf(g) = {}
        /\ Cardinality(EntriesOf(g)) + Cardinality(Missing(g)) <= Cardinality(Workers)
    BY DEF ConnInv, MissesBounded
  <2>2. CASE byMig[g] = 0
    <3>1. Cardinality(EntriesOf(g)) = 0
      BY <2>1, <2>2, FS_EmptySet
    <3>2. Cardinality(Missing(g)') <= Cardinality(Workers) /\ Cardinality(Missing(g)') \in Nat
          /\ Cardinality(Workers) \in Nat
      <4>1. Missing(g)' \subseteq Workers
        BY DEF Missing
      <4> QED
        BY <4>1, FS_Subset, FS_CardinalityType, WorkersAssumption
    <3> QED
      BY <2>1, <3>1, <3>2
  <2>3. CASE byMig[g] # 0
    <3>1. Missing(g)' \subseteq Missing(g)
      BY <2>3 DEF Missing, Mig
    <3>2. /\ IsFiniteSet(Missing(g)) /\ Cardinality(Missing(g)) \in Nat
          /\ Cardinality(EntriesOf(g)) \in Nat /\ Cardinality(Workers) \in Nat
      BY FiniteHere DEF ConnInv
    <3>3. Cardinality(Missing(g)') <= Cardinality(Missing(g)) /\ Cardinality(Missing(g)') \in Nat
      BY <3>1, <3>2, FS_Subset, FS_CardinalityType
    <3> QED
      BY <2>1, <3>2, <3>3
  <2> QED
    BY <2>2, <2>3
<1>9. EntriesFound'
  BY DEF ConnInv, EntriesFound, EntriesOf, Mig
<1> QED
  BY <1>5, <1>6, <1>7, <1>8, <1>9 DEF ConnInv

\* Types: a step of a worker on a job.
LEMMA MineTypes ==
    ASSUME NEW m \in [Workers -> Mine], NEW w \in Workers, NEW n \in Nat, NEW m2,
           \/ m2 = m \/ m2 = [m EXCEPT ![w] = Nothing]
           \/ m2 = [m EXCEPT ![w].src = n]
           \/ m2 = [m EXCEPT ![w].admin = n]
           \/ m2 = [m EXCEPT ![w].mc = n]
    PROVE  m2 \in [Workers -> Mine]
<1>1. \A r \in Mine :
         /\ [r EXCEPT !.src = n] \in Mine /\ [r EXCEPT !.admin = n] \in Mine
         /\ [r EXCEPT !.mc = n] \in Mine
  BY DEF Mine
<1>2. Nothing \in Mine
  BY DEF Mine, Nothing, NoPool
<1>3. \E r \in Mine : m2 = [m EXCEPT ![w] = r]
  <2>1. m[w] \in Mine /\ m = [m EXCEPT ![w] = m[w]]
    OBVIOUS
  <2> QED
    BY <1>1, <1>2, <2>1
<1> QED
  BY <1>3

\* A worker that has a job keeps it from label to label.
LEMMA JobTypes ==
    ASSUME ConnTypes, NEW w \in Workers, NEW l \in Labels, at' = [at EXCEPT ![w] = l], at[w] # "free",
           job' = job
    PROVE  /\ at' \in [Workers -> Labels] /\ job' = [v \in Workers |-> job'[v]]
           /\ \A v \in Workers : at'[v] # "free" => job'[v] \in [mig : Migs, kind : {"create", "other"}]
<1>1. /\ at \in [Workers -> Labels] /\ job = [v \in Workers |-> job[v]]
      /\ \A v \in Workers : at[v] # "free" => job[v] \in [mig : Migs, kind : {"create", "other"}]
  BY DEF ConnTypes
<1>2. \A v \in Workers : at'[v] # "free" => at[v] # "free"
  BY <1>1
<1> QED
  BY <1>1, <1>2

\* A pool that is opened is a new one.
LEMMA NewPool ==
    ASSUME ConnTypes
    PROVE  /\ opened + 1 \in Nat /\ openPools \cup {opened + 1} \subseteq 1..(opened + 1)
           /\ opened + 1 \notin openPools /\ opened + 1 # NoPool
  BY DEF ConnTypes, NoPool

\* Every statement of forRun keeps the types.
LEMMA ConnTypesStep == ASSUME ConnInv, [ConnNext]_connVars PROVE ConnTypes'
<1>0. /\ ConnTypes /\ mine \in [Workers -> Mine] /\ byMig \in [Migs -> Nat]
      /\ byProject \in [Instances -> Nat] /\ conns \in Seq(Entries) /\ opened \in Nat
      /\ openPools \subseteq 1..opened
  BY DEF ConnInv, ConnTypes
<1>a. /\ {"lookup", "openSource", "lookupAdmin", "openAdmin", "storeAdmin", "storeMig", "target",
           "execute", "free"} \subseteq Labels
  BY DEF Labels, Opening, HasEntry
<1>b. \A w \in Workers : at[w] # "free" => Mig(w) \in Migs /\ Inst(w) \in Instances
  BY <1>0 DEF ConnTypes, Mig, Inst, Instances
<1>c. \A w \in Workers : mine[w].src \in Nat /\ mine[w].admin \in Nat
  BY <1>0 DEF Mine
<1>1. ASSUME NEW w \in Workers, NEW g \in Migs, NEW k \in {"create", "other"}, TakeJob(w, g, k)
      PROVE  ConnTypes'
  <2>1. /\ at' = [at EXCEPT ![w] = "lookup"] /\ job' = [job EXCEPT ![w] = [mig |-> g, kind |-> k]]
        /\ UNCHANGED <<mine, byMig, byProject, conns, opened, openPools>>
    BY <1>1 DEF TakeJob, Goto
  <2>2. at' \in [Workers -> Labels] /\ job' = [v \in Workers |-> job'[v]]
    BY <1>0, <1>a, <2>1 DEF ConnTypes
  <2>3. \A v \in Workers : at'[v] # "free" => job'[v] \in [mig : Migs, kind : {"create", "other"}]
    BY <1>0, <2>1 DEF ConnTypes
  <2> QED
    BY <1>0, <2>1, <2>2, <2>3 DEF ConnTypes
<1>2. ASSUME NEW w \in Workers, LookupMig(w) PROVE ConnTypes'
  <2>1. /\ at[w] # "free" /\ UNCHANGED <<job, byMig, byProject, conns, opened, openPools>>
        /\ \E l \in Labels : at' = [at EXCEPT ![w] = l]
        /\ mine' = mine \/ mine' = [mine EXCEPT ![w].mc = byMig[Mig(w)]]
    BY <1>2, <1>a DEF LookupMig, Goto
  <2>2. mine' \in [Workers -> Mine]
    <3>1. byMig[Mig(w)] \in Nat
      BY <1>0, <1>b, <2>1
    <3> QED
      BY <1>0, <2>1, <3>1, MineTypes
  <2> QED
    BY <1>0, <2>1, <2>2, JobTypes DEF ConnTypes
<1>3. ASSUME NEW w \in Workers, OpenSource(w) \/ OpenAdmin(w) PROVE ConnTypes'
  <2>1. /\ at[w] # "free" /\ UNCHANGED <<job, byMig, byProject, conns>>
        /\ \E l \in Labels : at' = [at EXCEPT ![w] = l]
        /\ \/ /\ opened' = opened + 1 /\ openPools' = openPools \cup {opened + 1}
              /\ \/ mine' = [mine EXCEPT ![w].src = opened + 1]
                 \/ mine' = [mine EXCEPT ![w].admin = opened + 1]
           \/ /\ opened' = opened /\ openPools' \subseteq openPools
              /\ mine' = [mine EXCEPT ![w] = Nothing]
    BY <1>3, <1>a DEF OpenSource, OpenAdmin, GiveUp, Goto
  <2>2. mine' \in [Workers -> Mine]
    BY <1>0, <2>1, NewPool, MineTypes
  <2>3. opened' \in Nat /\ openPools' \subseteq 1..opened'
    BY <1>0, <2>1, NewPool
  <2> QED
    BY <1>0, <2>1, <2>2, <2>3, JobTypes DEF ConnTypes
<1>4. ASSUME NEW w \in Workers, LookupAdmin(w) PROVE ConnTypes'
  <2>1. /\ at[w] # "free" /\ UNCHANGED <<job, byMig, byProject, conns, opened, openPools>>
        /\ \E l \in Labels : at' = [at EXCEPT ![w] = l]
        /\ mine' = mine \/ mine' = [mine EXCEPT ![w].admin = byProject[Inst(w)]]
    BY <1>4, <1>a DEF LookupAdmin, Goto
  <2>2. mine' \in [Workers -> Mine]
    <3>1. byProject[Inst(w)] \in Nat
      BY <1>0, <1>b, <2>1
    <3> QED
      BY <1>0, <2>1, <3>1, MineTypes
  <2> QED
    BY <1>0, <2>1, <2>2, JobTypes DEF ConnTypes
<1>5. ASSUME NEW w \in Workers, StoreAdmin(w) PROVE ConnTypes'
  <2>1. /\ at[w] # "free" /\ UNCHANGED <<job, byMig, conns, opened>>
        /\ at' = [at EXCEPT ![w] = "storeMig"] /\ openPools' \subseteq openPools
        /\ mine' = mine \/ mine' = [mine EXCEPT ![w].admin = byProject[Inst(w)]]
        /\ byProject' = byProject \/ byProject' = [byProject EXCEPT ![Inst(w)] = mine[w].admin]
    BY <1>5 DEF StoreAdmin, Goto
  <2>2. mine' \in [Workers -> Mine] /\ byProject' \in [Instances -> Nat]
    <3>1. byProject[Inst(w)] \in Nat
      BY <1>0, <1>b, <2>1
    <3>2. mine' \in [Workers -> Mine]
      BY <1>0, <2>1, <3>1, MineTypes
    <3> QED
      BY <1>0, <1>b, <1>c, <2>1, <3>2
  <2> QED
    BY <1>0, <1>a, <2>1, <2>2, JobTypes DEF ConnTypes
<1>6. ASSUME NEW w \in Workers, StoreMig(w) PROVE ConnTypes'
  <2>1. /\ at[w] # "free" /\ UNCHANGED <<job, byProject, opened, openPools>>
        /\ at' = [at EXCEPT ![w] = "target"] /\ mine' = [mine EXCEPT ![w].mc = Len(conns) + 1]
        /\ byMig' = [byMig EXCEPT ![Mig(w)] = Len(conns) + 1]
        /\ conns' = Append(conns, [mig |-> Mig(w), src |-> mine[w].src, admin |-> mine[w].admin,
                                   tgt |-> NoPool])
    BY <1>6 DEF StoreMig, Goto
  <2>2. [mig |-> Mig(w), src |-> mine[w].src, admin |-> mine[w].admin, tgt |-> NoPool] \in Entries
    BY <1>b, <1>c, <2>1 DEF Entries, NoPool
  <2>3. conns' \in Seq(Entries) /\ Len(conns) + 1 \in Nat
    BY <1>0, <2>1, <2>2
  <2>4. mine' \in [Workers -> Mine] /\ byMig' \in [Migs -> Nat]
    BY <1>0, <2>1, <2>3, MineTypes
  <2> QED
    BY <1>0, <1>a, <2>1, <2>3, <2>4, JobTypes DEF ConnTypes
<1>7. ASSUME NEW w \in Workers, OpenTarget(w) PROVE ConnTypes'
  <2>1. /\ at[w] = "target" /\ UNCHANGED <<job, byMig, byProject>>
        /\ \E l \in Labels : at' = [at EXCEPT ![w] = l]
        /\ mine' = mine \/ mine' = [mine EXCEPT ![w] = Nothing]
        /\ \/ UNCHANGED <<opened, openPools, conns>>
           \/ /\ opened' = opened + 1 /\ openPools' = openPools \cup {opened + 1}
              /\ conns' = [conns EXCEPT ![mine[w].mc].tgt = opened + 1]
    BY <1>7, <1>a DEF OpenTarget, Goto, GiveUp
  <2>2. conns' \in Seq(Entries)
    <3>1. mine[w].mc \in 1..Len(conns)
      BY <2>1 DEF ConnInv, EntriesFound, EntriesOf, HasEntry
    <3>2. conns[mine[w].mc] \in Entries
      BY <1>0, <3>1
    <3>3. [conns[mine[w].mc] EXCEPT !.tgt = opened + 1] \in Entries
      <4>1. \A e \in Entries, n \in Nat : [e EXCEPT !.tgt = n] \in Entries
        BY DEF Entries
      <4> QED
        BY <1>0, <3>2, <4>1, NewPool
    <3>4. \A e \in Entries : [conns EXCEPT ![mine[w].mc] = e] \in Seq(Entries)
      BY <1>0, <3>1
    <3> QED
      BY <1>0, <2>1, <3>3, <3>4
  <2>3. opened' \in Nat /\ openPools' \subseteq 1..opened'
    BY <1>0, <2>1, NewPool
  <2>4. mine' \in [Workers -> Mine]
    BY <1>0, <2>1, MineTypes
  <2> QED
    BY <1>0, <2>1, <2>2, <2>3, <2>4, JobTypes DEF ConnTypes
<1>8. ASSUME NEW w \in Workers, SkipTarget(w) \/ Execute(w) PROVE ConnTypes'
  <2>1. /\ at[w] # "free" /\ UNCHANGED <<job, byMig, byProject, conns, opened, openPools>>
        /\ \E l \in Labels : at' = [at EXCEPT ![w] = l]
        /\ mine' = mine \/ mine' = [mine EXCEPT ![w] = Nothing]
    BY <1>8, <1>a DEF SkipTarget, Execute, Goto, GiveUp
  <2>2. mine' \in [Workers -> Mine]
    BY <1>0, <2>1, MineTypes
  <2> QED
    BY <1>0, <2>1, <2>2, JobTypes DEF ConnTypes
<1>9. CASE UNCHANGED connVars
  BY <1>0, <1>9 DEF connVars, ConnTypes
<1> QED
  BY <1>1, <1>2, <1>3, <1>4, <1>5, <1>6, <1>7, <1>8, <1>9 DEF ConnNext

\* The steps that leave the cache alone.
LEMMA LookupsKeep ==
    ASSUME ConnInv, ConnTypes', NEW w \in Workers,
           \/ \E g \in Migs, k \in {"create", "other"} : TakeJob(w, g, k)
           \/ LookupMig(w) \/ OpenSource(w) \/ LookupAdmin(w) \/ OpenAdmin(w)
           \/ SkipTarget(w) \/ Execute(w)
    PROVE  ConnInv'
<1> USE DEF ConnTypes, OwnedBy, HasSource, Opening, HasEntry
<1>0. /\ at \in [Workers -> Labels] /\ mine \in [Workers -> Mine] /\ opened \in Nat
      /\ at[w] # "free" => Mig(w) \in Migs /\ Inst(w) \in Instances
  BY DEF ConnInv, Mig, Inst, Instances
<1>1. ASSUME NEW g \in Migs, NEW k \in {"create", "other"}, TakeJob(w, g, k) PROVE ConnInv'
  <2>1. /\ UNCHANGED <<byMig, byProject, conns, openPools, targetExists, mine>> /\ at'[w] = "lookup"
        /\ \A v \in Workers \ {w} : at'[v] = at[v] /\ job'[v] = job[v]
    BY <1>0, <1>1 DEF TakeJob, Goto, ConnInv
  <2> QED
    BY <2>1, LocalStep
<1>2. CASE LookupMig(w)
  <2>1. /\ UNCHANGED <<byMig, byProject, conns, openPools, targetExists, job>> /\ at[w] = "lookup"
        /\ \A v \in Workers \ {w} : at'[v] = at[v] /\ mine'[v] = mine[v]
        /\ \/ /\ byMig[Mig(w)] # 0 /\ at'[w] = "target" /\ mine'[w].mc = byMig[Mig(w)]
           \/ byMig[Mig(w)] = 0 /\ at'[w] = "openSource"
    <3>1. CASE byMig[Mig(w)] # 0
      BY <1>0, <1>2, <3>1 DEF LookupMig, Goto, Mine
    <3>2. CASE byMig[Mig(w)] = 0
      BY <1>0, <1>2, <3>2 DEF LookupMig, Goto
    <3> QED
      BY <3>1, <3>2
  <2>2. byMig[Mig(w)] # 0 => byMig[Mig(w)] \in EntriesOf(Mig(w))
    BY <1>0, <2>1 DEF ConnInv, EntriesFound
  <2> QED
    BY <2>1, <2>2, LocalStep DEF Mig
<1>3. CASE OpenSource(w)
  <2>1. /\ UNCHANGED <<byMig, byProject, conns, targetExists, job>> /\ at[w] = "openSource"
        /\ \A v \in Workers \ {w} : at'[v] = at[v] /\ mine'[v] = mine[v]
        /\ openPools \subseteq openPools'
        /\ \/ at'[w] = "lookupAdmin" /\ mine'[w].src = opened + 1 /\ opened + 1 \in openPools'
           \/ at'[w] = "free"
    BY <1>0, <1>3 DEF OpenSource, Goto, GiveUp, Mine
  <2>2. CASE at'[w] = "free"
    BY <2>1, <2>2, LocalStep
  <2>3. CASE at'[w] = "lookupAdmin"
    <3>1. \A x : OwnedBy(w, x)' => x = opened + 1 /\ x \in openPools'
      BY <2>1, <2>3
    <3> QED
      BY <2>1, <2>3, <3>1, LocalStep
  <2> QED
    BY <2>1, <2>2, <2>3
<1>4. CASE LookupAdmin(w)
  <2>1. /\ UNCHANGED <<byMig, byProject, conns, openPools, targetExists, job>>
        /\ at[w] = "lookupAdmin"
        /\ \A v \in Workers \ {w} : at'[v] = at[v] /\ mine'[v] = mine[v]
        /\ mine'[w].src = mine[w].src
        /\ \/ /\ byProject[Inst(w)] # NoPool /\ at'[w] = "storeMig"
              /\ mine'[w].admin = byProject[Inst(w)]
           \/ at'[w] = "openAdmin"
    BY <1>0, <1>4 DEF LookupAdmin, Goto, Mine
  <2> QED
    BY <2>1, LocalStep DEF Inst
<1>5. CASE OpenAdmin(w)
  <2>1. /\ UNCHANGED <<byMig, byProject, conns, targetExists, job>> /\ at[w] = "openAdmin"
        /\ \A v \in Workers \ {w} : at'[v] = at[v] /\ mine'[v] = mine[v]
        /\ \/ /\ at'[w] = "storeAdmin" /\ mine'[w].admin = opened + 1 /\ mine'[w].src = mine[w].src
              /\ openPools' = openPools \cup {opened + 1}
           \/ at'[w] = "free" /\ openPools' = openPools \ {mine[w].src}
    <3>1. /\ UNCHANGED <<byMig, byProject, conns, targetExists, job>> /\ at[w] = "openAdmin"
          /\ w \in Workers /\ at \in [Workers -> Labels] /\ mine \in [Workers -> Mine]
      BY <1>0, <1>5 DEF OpenAdmin
    <3>2. ASSUME Goto(w, "storeAdmin"), mine' = [mine EXCEPT ![w].admin = opened + 1]
          PROVE  /\ at'[w] = "storeAdmin" /\ mine'[w].admin = opened + 1
                 /\ mine'[w].src = mine[w].src
                 /\ \A v \in Workers \ {w} : at'[v] = at[v] /\ mine'[v] = mine[v]
      BY <3>1, <3>2 DEF Goto, Mine
    <3> QED
      BY <1>5, <3>1, <3>2 DEF OpenAdmin, Goto, GiveUp
  <2>2. OwnedBy(w, mine[w].src) /\ mine[w].src \in Nat
    BY <1>0, <2>1 DEF Mine
  <2>3. mine[w].src # opened + 1
    BY <2>2, NewPool DEF ConnInv, OwnedAreOpen
  <2>4. CASE at'[w] = "free"
    BY <2>1, <2>2, <2>4, LocalStep
  <2>5. CASE at'[w] = "storeAdmin"
    BY <2>1, <2>3, <2>5, LocalStep
  <2> QED
    BY <2>1, <2>4, <2>5
<1>6. CASE SkipTarget(w)
  <2>1. /\ UNCHANGED <<byMig, byProject, conns, openPools, targetExists, job, mine>>
        /\ at[w] = "target" /\ job[w].kind = "create" /\ at'[w] = "execute"
        /\ \A v \in Workers \ {w} : at'[v] = at[v]
    BY <1>0, <1>6 DEF SkipTarget, Goto
  <2>2. mine[w].mc \in EntriesOf(Mig(w))
    BY <2>1 DEF ConnInv, EntriesFound
  <2> QED
    BY <2>1, <2>2, LocalStep DEF Mig
<1>7. CASE Execute(w)
  <2>1. /\ UNCHANGED <<byMig, byProject, conns, openPools, job>> /\ at'[w] = "free"
        /\ \A v \in Workers \ {w} : at'[v] = at[v] /\ mine'[v] = mine[v]
        /\ targetExists \subseteq targetExists'
    BY <1>0, <1>7 DEF Execute, Goto, GiveUp
  <2> QED
    BY <2>1, LocalStep
<1> QED
  BY <1>1, <1>2, <1>3, <1>4, <1>5, <1>6, <1>7

\* The second look under mu: whoever was first wins, the other closes its own.
LEMMA StoreAdminKeeps ==
    ASSUME ConnInv, ConnTypes', NEW w \in Workers, StoreAdmin(w) PROVE ConnInv'
<1> DEFINE i == Inst(w)
           a == mine[w].admin
<1>0. /\ at \in [Workers -> Labels] /\ mine \in [Workers -> Mine] /\ byProject \in [Instances -> Nat]
      /\ at[w] = "storeAdmin" /\ i \in Instances /\ a \in Nat /\ mine[w].src \in Nat
  BY DEF StoreAdmin, ConnInv, ConnTypes, Inst, Instances, Mine
<1>1. /\ OwnedBy(w, a) /\ a \in openPools /\ ~Shared(a) /\ a # NoPool
      /\ \A v \in Workers \ {w} : ~OwnedBy(v, a)
      /\ mine[w].src # a
  <2>1. OwnedBy(w, a)
    BY <1>0 DEF OwnedBy
  <2>2. a \in openPools /\ ~Shared(a) /\ \A v \in Workers \ {w} : ~OwnedBy(v, a)
    BY <1>0, <2>1 DEF ConnInv, OwnedAreOpen
  <2>3. a # NoPool /\ mine[w].src # a
    BY <1>0, <2>2 DEF ConnInv, ConnTypes, NoPool, TwoPools
  <2> QED
    BY <2>1, <2>2, <2>3
<1>2. CASE byProject[i] # NoPool
  <2>1. /\ UNCHANGED <<byMig, byProject, conns, targetExists, job>> /\ at'[w] = "storeMig"
        /\ \A v \in Workers \ {w} : at'[v] = at[v] /\ mine'[v] = mine[v]
        /\ mine'[w].admin = byProject[i] /\ mine'[w].src = mine[w].src
        /\ openPools' = openPools \ {a}
    BY <1>0, <1>2 DEF StoreAdmin, Goto, Mine
  <2>2. \A x : OwnedBy(w, x)' <=> x = mine[w].src
    BY <2>1 DEF OwnedBy, HasSource, Opening
  <2>3. \A x \in Nat : OwnedBy(w, x)' => OwnedBy(w, x)
    BY <1>0, <2>2 DEF OwnedBy, HasSource, Opening
  <2> HIDE DEF i, a
  <2> QED
    BY <1>0, <1>1, <1>2, <2>1, <2>2, <2>3, LocalStep DEF i, Opening, HasEntry, Inst
<1>3. CASE byProject[i] = NoPool
  <2>1. /\ UNCHANGED <<byMig, conns, targetExists, job, mine, openPools, opened>>
        /\ at'[w] = "storeMig" /\ at' = [at EXCEPT ![w] = "storeMig"]
        /\ \A v \in Workers \ {w} : at'[v] = at[v]
        /\ byProject'[i] = a /\ \A k \in Instances \ {i} : byProject'[k] = byProject[k]
    BY <1>0, <1>3 DEF StoreAdmin, Goto
  <2>2. \A c \in 1..Len(conns) : InstanceOf[conns[c].mig] # i /\ conns[c].mig \in Migs
    <3>1. ASSUME NEW c \in 1..Len(conns) PROVE conns[c].mig \in Migs
      <4>1. conns \in Seq(Entries)
        BY DEF ConnInv, ConnTypes
      <4>2. conns[c] \in Entries
        BY <4>1
      <4> QED
        BY <4>2 DEF Entries
    <3> HIDE DEF i
    <3> QED
      BY <1>3, <3>1 DEF ConnInv, OneAdmin
  <2>3. \A v \in Workers : at[v] = "storeMig" => Inst(v) # i /\ Inst(v) \in Instances
    BY <1>3 DEF ConnInv, OneAdmin, ConnTypes, Inst, Instances
  <2>4. \A x \in Nat \ {NoPool} : Shared(x)' => Shared(x) \/ x = a
    BY <2>1 DEF Shared
  <2>5. \A v \in Workers : \A x : OwnedBy(v, x)' => OwnedBy(v, x) /\ x # a
    <3>1. \A x : OwnedBy(w, x)' => OwnedBy(w, x) /\ x # a
      BY <1>0, <1>1, <2>1 DEF OwnedBy, HasSource, Opening
    <3>2. \A v \in Workers \ {w} : \A x : OwnedBy(v, x)' => OwnedBy(v, x)
      BY <2>1 DEF OwnedBy
    <3> QED
      BY <1>1, <3>1, <3>2
  <2>6. OwnedAreOpen'
    <3>1. \A x \in openPools : x # NoPool /\ x \in Nat
      BY DEF ConnInv, ConnTypes, NoPool
    <3> QED
      BY <2>1, <2>4, <2>5, <3>1 DEF ConnInv, OwnedAreOpen
  <2>7. SharedAreOpen' /\ TwoPools'
    BY <1>1, <2>1, <2>4 DEF ConnInv, SharedAreOpen, TwoPools
  <2>8. OneAdmin'
    <3>1. \A c \in 1..Len(conns) : InstanceOf[conns[c].mig] \in Instances
      BY <2>2 DEF Instances
    <3>2. \A c \in 1..Len(conns') :
             /\ conns'[c].src # NoPool /\ conns'[c].admin # NoPool
             /\ conns'[c].admin = byProject'[InstanceOf[conns'[c].mig]]
      BY <2>1, <2>2, <3>1 DEF ConnInv, OneAdmin
    <3>3. \A v \in Workers : at'[v] = "storeMig" =>
             mine'[v].admin = byProject'[Inst(v)'] /\ mine'[v].admin # NoPool
      BY <1>1, <2>1, <2>3 DEF ConnInv, OneAdmin, Inst
    <3> QED
      BY <3>2, <3>3 DEF OneAdmin
  <2>9. MissesBounded'
    <3>1. \A g : Missing(g)' = Missing(g) /\ EntriesOf(g)' = EntriesOf(g)
      BY <1>0, <2>1 DEF Missing, EntriesOf, Opening, Mig
    <3> QED
      BY <2>1, <3>1 DEF ConnInv, MissesBounded
  <2>10. EntriesFound'
    BY <2>1 DEF ConnInv, EntriesFound, EntriesOf, HasEntry, Mig
  <2> QED
    BY <2>6, <2>7, <2>8, <2>9, <2>10 DEF ConnInv
<1> QED
  BY <1>2, <1>3

\* A new entry: its pools were the worker's own and the instance's.
LEMMA StoreMigKeeps ==
    ASSUME ConnInv, ConnTypes', NEW w \in Workers, StoreMig(w) PROVE ConnInv'
<1>0. PICK n, h, e :
         /\ n = Len(conns) /\ h = Mig(w)
         /\ e = [mig |-> h, src |-> mine[w].src, admin |-> mine[w].admin, tgt |-> NoPool]
  OBVIOUS
<1>1. /\ at[w] = "storeMig" /\ UNCHANGED <<job, byProject, openPools, opened, targetExists>>
      /\ at' = [at EXCEPT ![w] = "target"] /\ mine' = [mine EXCEPT ![w].mc = n + 1]
      /\ byMig' = [byMig EXCEPT ![h] = n + 1] /\ conns' = Append(conns, e)
  BY <1>0 DEF StoreMig, Goto
<1>2. /\ at \in [Workers -> Labels] /\ mine \in [Workers -> Mine] /\ byMig \in [Migs -> Nat]
      /\ conns \in Seq(Entries) /\ h \in Migs /\ n \in Nat
      /\ mine[w].src \in Nat /\ mine[w].admin \in Nat
  BY <1>0, <1>1 DEF ConnInv, ConnTypes, Mig, Mine
<1>3. /\ Len(conns') = n + 1 /\ conns'[n + 1] = e /\ \A c \in 1..n : conns'[c] = conns[c]
      /\ 1..(n + 1) = (1..n) \cup {n + 1}
      /\ n + 1 \notin 1..n /\ n + 1 # 0
  <2>1. e \in Entries
    BY <1>0, <1>2 DEF Entries, NoPool
  <2> QED
    BY <1>0, <1>1, <1>2, <2>1
<1>4. /\ at'[w] = "target" /\ mine'[w].mc = n + 1 /\ Mig(w)' = h /\ Inst(w)' = Inst(w)
      /\ \A v \in Workers \ {w} : at'[v] = at[v] /\ mine'[v] = mine[v]
      /\ \A v \in Workers : Mig(v)' = Mig(v) /\ Inst(v)' = Inst(v)
      /\ byMig'[h] = n + 1 /\ \A g \in Migs \ {h} : byMig'[g] = byMig[g]
  BY <1>0, <1>1, <1>2 DEF Mine, Mig, Inst
<1>5. /\ e.mig = h /\ e.src = mine[w].src /\ e.admin = mine[w].admin /\ e.tgt = NoPool
      /\ mine[w].admin = byProject[Inst(w)] /\ mine[w].admin # NoPool
      /\ Inst(w) = InstanceOf[h] /\ Inst(w) \in Instances
      /\ OwnedBy(w, mine[w].src)
  BY <1>0, <1>1, <1>2
     DEF ConnInv, OneAdmin, Inst, Mig, Instances, OwnedBy, HasSource, Opening
<1>6. mine[w].src \in openPools /\ mine[w].src # NoPool
  BY <1>2, <1>5 DEF ConnInv, OwnedAreOpen, ConnTypes, NoPool
<1>7. \A x \in Nat \ {NoPool} : Shared(x)' => Shared(x) \/ x = mine[w].src
  <2> SUFFICES ASSUME NEW x \in Nat \ {NoPool}, Shared(x)' PROVE Shared(x) \/ x = mine[w].src
    OBVIOUS
  <2>1. CASE \E i \in Instances : byProject'[i] = x
    BY <1>1, <2>1 DEF Shared
  <2>2. ASSUME NEW c \in 1..(n + 1), x \in {conns'[c].src, conns'[c].admin, conns'[c].tgt}
        PROVE  Shared(x) \/ x = mine[w].src
    <3>1. CASE c \in 1..n
      BY <1>0, <1>3, <2>2, <3>1 DEF Shared
    <3>2. CASE c = n + 1
      BY <1>3, <1>5, <2>2, <3>2 DEF Shared
    <3> QED
      BY <1>3, <3>1, <3>2
  <2> QED
    BY <1>3, <2>1, <2>2 DEF Shared
<1>8. \A v \in Workers : \A x : OwnedBy(v, x)' => OwnedBy(v, x) /\ v # w
  BY <1>4 DEF OwnedBy, HasSource, Opening
<1>9. OwnedAreOpen'
  <2>1. \A x \in openPools : x \in Nat \ {NoPool}
    BY DEF ConnInv, ConnTypes, NoPool
  <2>2. \A v \in Workers : \A x \in Nat : OwnedBy(v, x)' =>
           x \in openPools /\ ~Shared(x) /\ x # mine[w].src
    BY <1>2, <1>5, <1>8 DEF ConnInv, OwnedAreOpen
  <2>3. \A v, u \in Workers : \A x \in Nat : OwnedBy(v, x)' /\ OwnedBy(u, x)' => u = v
    BY <1>8 DEF ConnInv, OwnedAreOpen
  <2> QED
    BY <1>1, <1>7, <2>1, <2>2, <2>3 DEF OwnedAreOpen
<1>10. SharedAreOpen' /\ TwoPools'
  BY <1>1, <1>4, <1>6, <1>7 DEF ConnInv, SharedAreOpen, TwoPools
<1>11. OneAdmin'
  <2>1. \A c \in 1..(n + 1) :
           /\ conns'[c].src # NoPool /\ conns'[c].admin # NoPool
           /\ conns'[c].admin = byProject[InstanceOf[conns'[c].mig]]
    BY <1>0, <1>3, <1>5, <1>6 DEF ConnInv, OneAdmin
  <2>2. \A v \in Workers : at'[v] = "storeMig" =>
           mine'[v].admin = byProject[Inst(v)] /\ mine'[v].admin # NoPool
    BY <1>4 DEF ConnInv, OneAdmin
  <2> QED
    BY <1>1, <1>3, <1>4, <2>1, <2>2 DEF OneAdmin
<1>12. /\ \A g \in Migs \ {h} : EntriesOf(g)' = EntriesOf(g) /\ Missing(g)' = Missing(g)
       /\ EntriesOf(h)' = EntriesOf(h) \cup {n + 1} /\ n + 1 \notin EntriesOf(h)
       /\ Missing(h)' = Missing(h) \ {w} /\ w \in Missing(h)
  <2>1. \A g \in Migs : EntriesOf(g)' = {c \in 1..(n + 1) : conns'[c].mig = g}
    BY <1>3 DEF EntriesOf
  <2>2. /\ \A g \in Migs \ {h} : EntriesOf(g)' = EntriesOf(g)
        /\ EntriesOf(h)' = EntriesOf(h) \cup {n + 1} /\ n + 1 \notin EntriesOf(h)
    BY <1>0, <1>2, <1>3, <1>5, <2>1 DEF EntriesOf
  <2>3. /\ \A g \in Migs \ {h} : Missing(g)' = Missing(g)
        /\ Missing(h)' = Missing(h) \ {w} /\ w \in Missing(h)
    BY <1>0, <1>1, <1>4 DEF Missing, Opening
  <2> QED
    BY <2>2, <2>3
<1>13. MissesBounded'
  <2>1. /\ IsFiniteSet(EntriesOf(h)) /\ Cardinality(EntriesOf(h)) \in Nat
        /\ IsFiniteSet(Missing(h)) /\ Cardinality(Missing(h)) \in Nat
        /\ Cardinality(Workers) \in Nat
    BY FiniteHere DEF ConnInv
  <2>2. Cardinality(EntriesOf(h)') = Cardinality(EntriesOf(h)) + 1
    BY <1>12, <2>1, FS_AddElement
  <2>3. Cardinality(Missing(h)') = Cardinality(Missing(h)) - 1
    BY <1>12, <2>1, FS_RemoveElement
  <2>4. Cardinality(EntriesOf(h)') + Cardinality(Missing(h)') <= Cardinality(Workers)
    BY <1>2, <2>1, <2>2, <2>3 DEF ConnInv, MissesBounded
  <2> QED
    BY <1>3, <1>4, <1>12, <2>4 DEF ConnInv, MissesBounded
<1>14. EntriesFound'
  <2>1. \A g \in Migs : EntriesOf(g) \subseteq EntriesOf(g)' /\ EntriesOf(g) \subseteq 1..n
    BY <1>0, <1>12 DEF EntriesOf
  <2>2. \A g \in Migs : byMig'[g] # 0 => byMig'[g] \in EntriesOf(g)'
    BY <1>4, <1>12, <2>1 DEF ConnInv, EntriesFound
  <2>3. \A v \in Workers : at[v] \in HasEntry => Mig(v) \in Migs
    BY DEF ConnInv, ConnTypes, Mig, HasEntry
  <2>4. \A v \in Workers : at'[v] \in HasEntry => mine'[v].mc \in EntriesOf(Mig(v))'
    BY <1>0, <1>4, <1>12, <2>1, <2>3 DEF ConnInv, EntriesFound, EntriesOf
  <2>5. \A v \in Workers : at'[v] = "execute" /\ job'[v].kind # "create" =>
           conns'[mine'[v].mc].tgt # NoPool
    BY <1>1, <1>3, <1>4, <2>1, <2>3 DEF ConnInv, EntriesFound, HasEntry
  <2>6. \A c \in 1..(n + 1) : conns'[c].tgt # NoPool => conns'[c].mig \in targetExists
    BY <1>0, <1>3, <1>5 DEF ConnInv, EntriesFound
  <2> QED
    BY <1>1, <1>3, <2>2, <2>4, <2>5, <2>6 DEF EntriesFound
<1> QED
  BY <1>9, <1>10, <1>11, <1>13, <1>14 DEF ConnInv

\* migConns.target: an entry gets a pool that nobody else knows of yet.
LEMMA OpenTargetKeeps ==
    ASSUME ConnInv, ConnTypes', NEW w \in Workers, OpenTarget(w) PROVE ConnInv'
<1>0. PICK m, p : m = mine[w].mc /\ p = opened + 1
  OBVIOUS
<1>1. /\ at[w] = "target" /\ job[w].kind # "create" /\ UNCHANGED <<job, byMig, byProject, targetExists>>
      /\ at \in [Workers -> Labels] /\ mine \in [Workers -> Mine] /\ conns \in Seq(Entries)
  BY DEF OpenTarget, ConnInv, ConnTypes
<1>2. m \in EntriesOf(Mig(w)) /\ m \in 1..Len(conns) /\ conns[m].mig = Mig(w)
  BY <1>0, <1>1 DEF ConnInv, EntriesFound, HasEntry, EntriesOf
<1>3. CASE /\ conns[m].tgt # NoPool /\ at' = [at EXCEPT ![w] = "execute"]
           /\ UNCHANGED <<mine, conns, openPools, opened>>
  <2>1. at'[w] = "execute" /\ \A v \in Workers \ {w} : at'[v] = at[v]
    BY <1>1, <1>3
  <2>2. \A x : ~OwnedBy(w, x)'
    BY <2>1 DEF OwnedBy, HasSource, Opening
  <2> QED
    BY <1>0, <1>1, <1>2, <1>3, <2>1, <2>2, LocalStep DEF Opening, Mig
<1>4. CASE GiveUp(w) /\ UNCHANGED <<conns, openPools, opened>>
  <2>1. at'[w] = "free" /\ \A v \in Workers \ {w} : at'[v] = at[v] /\ mine'[v] = mine[v]
    BY <1>1, <1>4 DEF GiveUp, Goto
  <2>2. \A x : ~OwnedBy(w, x)'
    BY <2>1 DEF OwnedBy, HasSource, Opening
  <2> QED
    BY <1>1, <1>4, <2>1, <2>2, LocalStep DEF Opening, HasEntry
<1>5. CASE /\ conns[m].tgt = NoPool /\ Mig(w) \in targetExists
           /\ opened' = p /\ openPools' = openPools \cup {p}
           /\ conns' = [conns EXCEPT ![m].tgt = p]
           /\ at' = [at EXCEPT ![w] = "execute"] /\ mine' = mine
  <2>1. /\ Len(conns') = Len(conns)
        /\ \A c \in 1..Len(conns) :
              /\ conns'[c].mig = conns[c].mig /\ conns'[c].src = conns[c].src
              /\ conns'[c].admin = conns[c].admin
              /\ conns'[c].tgt = IF c = m THEN p ELSE conns[c].tgt
    <3>1. \A c \in 1..Len(conns) : conns[c] \in Entries
      BY <1>1
    <3>2. /\ Len(conns') = Len(conns)
          /\ \A c \in 1..Len(conns) :
                conns'[c] = IF c = m THEN [conns[m] EXCEPT !.tgt = p] ELSE conns[c]
      BY <1>1, <1>2, <1>5
    <3>3. \A e \in Entries : LET f == [e EXCEPT !.tgt = p] IN
             f.mig = e.mig /\ f.src = e.src /\ f.admin = e.admin /\ f.tgt = p
      BY DEF Entries
    <3>4. ASSUME NEW c \in 1..Len(conns), c # m PROVE conns'[c] = conns[c]
      BY ONLY <3>2, <3>4
    <3>5. /\ m \in 1..Len(conns) /\ conns'[m] = [conns[m] EXCEPT !.tgt = p]
      BY <1>2, <3>2
    <3>6. /\ conns'[m].mig = conns[m].mig /\ conns'[m].src = conns[m].src
          /\ conns'[m].admin = conns[m].admin /\ conns'[m].tgt = p
      BY ONLY <3>1, <3>3, <3>5
    <3> QED
      BY ONLY <3>2, <3>4, <3>6
  <2>2. at'[w] = "execute" /\ \A v \in Workers \ {w} : at'[v] = at[v]
    BY <1>1, <1>5
  <2>3. p \notin openPools /\ p # NoPool /\ p \in Nat
    BY <1>0, NewPool DEF ConnInv
  <2>4. \A x \in Nat \ {NoPool} : Shared(x)' => Shared(x) \/ x = p
    BY <1>1, <1>2, <2>1 DEF Shared
  <2>5. \A v \in Workers : \A x \in Nat : OwnedBy(v, x)' =>
           /\ OwnedBy(v, x) /\ x # p /\ x # NoPool
           /\ x \in openPools /\ ~Shared(x)
    <3>1. \A v \in Workers : \A x : OwnedBy(v, x)' => OwnedBy(v, x)
      BY <1>5, <2>2 DEF OwnedBy, HasSource, Opening
    <3>2. \A x \in openPools : x # NoPool
      BY DEF ConnInv, ConnTypes, NoPool
    <3> QED
      BY <2>3, <3>1, <3>2 DEF ConnInv, OwnedAreOpen
  <2>6. OwnedAreOpen'
    BY <1>5, <2>4, <2>5 DEF ConnInv, OwnedAreOpen
  <2>7. SharedAreOpen' /\ TwoPools'
    BY <1>5, <2>2, <2>4 DEF ConnInv, SharedAreOpen, TwoPools
  <2>8. OneAdmin'
    <3>1. \A v \in Workers : at'[v] = "storeMig" => at[v] = "storeMig" /\ Inst(v)' = Inst(v)
      BY <1>1, <2>2 DEF Inst
    <3> QED
      BY <1>1, <1>5, <2>1, <3>1 DEF ConnInv, OneAdmin
  <2>9. \A g : EntriesOf(g)' = EntriesOf(g) /\ Missing(g)' = Missing(g)
    BY <1>1, <2>1, <2>2 DEF EntriesOf, Missing, Opening, Mig
  <2>10. MissesBounded'
    BY <1>1, <2>9 DEF ConnInv, MissesBounded
  <2>11. EntriesFound'
    <3>1. \A v \in Workers : at'[v] \in HasEntry => at[v] \in HasEntry /\ Mig(v)' = Mig(v)
      BY <1>1, <2>2 DEF HasEntry, Mig
    <3>2. \A v \in Workers : at'[v] \in HasEntry => mine'[v].mc \in EntriesOf(Mig(v))'
      BY <1>5, <2>9, <3>1 DEF ConnInv, EntriesFound, EntriesOf
    <3>3. \A v \in Workers : at'[v] = "execute" /\ job'[v].kind # "create" =>
             conns'[mine'[v].mc].tgt # NoPool
      <4> SUFFICES ASSUME NEW v \in Workers, at'[v] = "execute", job[v].kind # "create"
                   PROVE  conns'[mine[v].mc].tgt # NoPool
        BY <1>1, <1>5
      <4>1. CASE v = w
        BY <1>0, <1>2, <2>1, <2>3, <4>1
      <4>2. CASE v # w
        <5>1. mine[v].mc \in 1..Len(conns) /\ conns[mine[v].mc].tgt # NoPool
          BY <2>2, <4>2 DEF ConnInv, EntriesFound, EntriesOf, HasEntry
        <5> QED
          BY <2>1, <2>3, <5>1
      <4> QED
        BY <4>1, <4>2
    <3>4. \A c \in 1..Len(conns') : conns'[c].tgt # NoPool => conns'[c].mig \in targetExists'
      BY <1>1, <1>2, <1>5, <2>1 DEF ConnInv, EntriesFound
    <3>5. \A g \in Migs : byMig'[g] # 0 => byMig'[g] \in EntriesOf(g)'
      BY <1>1, <2>9 DEF ConnInv, EntriesFound
    <3> QED
      BY <3>2, <3>3, <3>4, <3>5 DEF EntriesFound
  <2> QED
    BY <2>6, <2>7, <2>8, <2>10, <2>11 DEF ConnInv
<1> QED
  BY <1>0, <1>3, <1>4, <1>5 DEF OpenTarget, Goto

\* The invariant holds in every reachable state.
LEMMA ConnInvariant == ConnSpec => []ConnInv
<1>1. ConnInv /\ [ConnNext]_connVars => ConnInv'
  <2> SUFFICES ASSUME ConnInv, [ConnNext]_connVars PROVE ConnInv'
    OBVIOUS
  <2>1. ConnTypes'
    BY ConnTypesStep
  <2>2. CASE UNCHANGED connVars
    <3>1. /\ \A x : Shared(x)' <=> Shared(x)
          /\ \A w \in Workers : Mig(w)' = Mig(w) /\ Inst(w)' = Inst(w)
          /\ \A w \in Workers : \A x : OwnedBy(w, x)' <=> OwnedBy(w, x)
      BY <2>2 DEF connVars, Shared, OwnedBy, Mig, Inst
    <3>2. OwnedAreOpen' /\ TwoPools' /\ SharedAreOpen' /\ OneAdmin'
      BY <2>2, <3>1 DEF connVars, ConnInv, OwnedAreOpen, TwoPools, SharedAreOpen, OneAdmin
    <3>3. \A g : EntriesOf(g)' = EntriesOf(g) /\ Missing(g)' = Missing(g)
      BY <2>2, <3>1 DEF connVars, EntriesOf, Missing
    <3>4. MissesBounded'
      BY <2>2, <3>3 DEF connVars, ConnInv, MissesBounded
    <3>5. EntriesFound'
      BY <2>2, <3>3 DEF connVars, ConnInv, EntriesFound, EntriesOf, Mig
    <3> QED
      BY <2>1, <3>2, <3>4, <3>5 DEF ConnInv
  <2> QED
    BY <2>1, <2>2, LookupsKeep, StoreAdminKeeps, StoreMigKeeps, OpenTargetKeeps DEF ConnNext
<1> QED
  BY <1>1, ConnInitInv, PTL DEF ConnSpec

\* The races for the cache neither close a pool that is in use nor leave more
\* entries behind than there are workers.
THEOREM CacheIsSafe == ConnSpec => []PoolsUsable
<1>1. ConnInv => PoolsUsable
  <2> SUFFICES ASSUME ConnInv PROVE PoolsUsable
    OBVIOUS
  <2>1. DOMAIN conns = 1..Len(conns) /\ \A c \in 1..Len(conns) : conns[c] \in Entries
    BY DEF ConnInv, ConnTypes
  <2>2. ASSUME NEW c \in 1..Len(conns)
        PROVE  /\ conns[c].admin = byProject[InstanceOf[conns[c].mig]]
               /\ {conns[c].src, conns[c].admin} \subseteq openPools
               /\ conns[c].tgt \in openPools \cup {NoPool}
    <3>1. conns[c].src \in Nat /\ conns[c].admin \in Nat /\ conns[c].tgt \in Nat
      BY <2>1 DEF Entries
    <3>2. Shared(conns[c].src) /\ Shared(conns[c].admin) /\ Shared(conns[c].tgt)
      BY DEF Shared
    <3> QED
      BY <3>1, <3>2 DEF ConnInv, OneAdmin, SharedAreOpen
  <2>3. ASSUME NEW g \in Migs PROVE Cardinality(EntriesOf(g)) <= Cardinality(Workers)
    BY FiniteHere DEF ConnInv, MissesBounded
  <2>4. \A g \in Migs : {c \in DOMAIN conns : conns[c].mig = g} = EntriesOf(g)
    BY <2>1 DEF EntriesOf
  <2> QED
    BY <2>1, <2>2, <2>3, <2>4 DEF PoolsUsable
<1> QED
  BY <1>1, ConnInvariant, PTL

\* What a handler is given when it executes: the entry of its own migration
\* and, unless it is there to create the target database, an open pool on a
\* database that exists.
HandlersEquipped ==
    \A w \in Workers : at[w] = "execute" =>
        LET mc == mine[w].mc IN
        /\ mc \in DOMAIN conns /\ conns[mc].mig = Mig(w)
        /\ job[w].kind # "create" => conns[mc].tgt \in openPools /\ Mig(w) \in targetExists

\* forRun and target hand a job the pools of its own migration, whichever of
\* the entries that raced for it the job has.
THEOREM HandlersGetTheirPools == ConnSpec => []HandlersEquipped
<1>1. ConnInv => HandlersEquipped
  <2> SUFFICES ASSUME ConnInv, NEW w \in Workers, at[w] = "execute", NEW mc, mc = mine[w].mc
               PROVE  /\ mc \in DOMAIN conns /\ conns[mc].mig = Mig(w)
                      /\ job[w].kind # "create" =>
                            conns[mc].tgt \in openPools /\ Mig(w) \in targetExists
    BY DEF HandlersEquipped
  <2>1. mc \in 1..Len(conns) /\ conns[mc].mig = Mig(w)
    BY DEF ConnInv, EntriesFound, EntriesOf, HasEntry
  <2>2. DOMAIN conns = 1..Len(conns) /\ conns[mc] \in Entries
    BY <2>1 DEF ConnInv, ConnTypes
  <2>3. job[w].kind # "create" => conns[mc].tgt # NoPool /\ Mig(w) \in targetExists
    BY <2>1 DEF ConnInv, EntriesFound
  <2>4. conns[mc].tgt \in Nat /\ Shared(conns[mc].tgt)
    BY <2>1, <2>2 DEF Entries, Shared
  <2> QED
    BY <2>1, <2>2, <2>3, <2>4 DEF ConnInv, SharedAreOpen
<1> QED
  BY <1>1, ConnInvariant, PTL
============================================================================
