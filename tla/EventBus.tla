------------------------------ MODULE EventBus ------------------------------
(***************************************************************************)
(* The event bus of internal/events/bus.go: publishers (workers, watcher,  *)
(* API handlers) and the clients of the SSE stream of one run.             *)
(*                                                                         *)
(* Publish persists the event, takes the read lock and offers the event to *)
(* one channel after another without waiting; ServeSSE subscribes, replays *)
(* the recent events and then copies its channel to the client.  Each of   *)
(* these is a step of its own here.  offers[p] is not empty while p        *)
(* holds the read lock of Bus.mu, which Subscribe and cancel wait for.     *)
(*                                                                         *)
(* Runs are independent of each other (subs is keyed by run), so one run   *)
(* is modelled; an event is its number in the order of Publish calls.      *)
(***************************************************************************)
EXTENDS Naturals, Sequences, SequencesExt

CONSTANTS
    Publishers,    \* goroutines that publish
    Viewers,       \* HTTP requests on the stream
    MaxEvents,     \* bound: events published
    ChanCap,       \* capacity of a subscriber's channel, 64 in the program
    ReplayLimit    \* LIMIT of replayRecent, 200 in the program

ASSUME ChanCapAssumption == ChanCap \in Nat \ {0}
ASSUME ReplayLimitAssumption == ReplayLimit \in Nat \ {0}

VARIABLES
    published,     \* number of Publish calls so far
    stored,        \* step_events of the run, in id order
    event,         \* the event each publisher is publishing, 0 if none
    offers,        \* publishers in the fan-out: the channels still to be offered
    subs,          \* the clients whose channel is registered
    closed,        \* the clients whose channel is closed
    chan,          \* what is in each client's channel
    conn,          \* where each request is
    stream,        \* what was written to each client
    dropped,       \* history: events a client's channel had no room for
    aged,          \* history: events too old for the client's replay
    unread         \* history: events the client's replay missed by a read error

busVars == <<published, stored, event, offers, subs, closed, chan, conn, stream, dropped, aged, unread>>

NoEvent == 0
NoOffers == {}

BusInit ==
    /\ published = 0
    /\ stored = <<>>
    /\ event = [p \in Publishers |-> NoEvent]
    /\ offers = [p \in Publishers |-> NoOffers]
    /\ subs = {}
    /\ closed = {}
    /\ chan = [c \in Viewers |-> <<>>]
    /\ conn = [c \in Viewers |-> "off"]
    /\ stream = [c \in Viewers |-> <<>>]
    /\ dropped = [c \in Viewers |-> {}]
    /\ aged = [c \in Viewers |-> {}]
    /\ unread = [c \in Viewers |-> {}]

\* Publish: persist is best effort, an INSERT that fails is ignored.
Persist(p) ==
    /\ event[p] = NoEvent
    /\ published < MaxEvents
    /\ published' = published + 1
    /\ event' = [event EXCEPT ![p] = published + 1]
    /\ \/ stored' = Append(stored, published + 1)
       \/ UNCHANGED stored
    /\ UNCHANGED <<offers, subs, closed, chan, conn, stream, dropped, aged, unread>>

\* RLock and the range over the channels of the run.
BeginFanOut(p) ==
    /\ event[p] # NoEvent
    /\ offers[p] = NoOffers
    /\ IF subs = {}
         THEN event' = [event EXCEPT ![p] = NoEvent] /\ UNCHANGED offers
         ELSE offers' = [offers EXCEPT ![p] = subs] /\ UNCHANGED event
    /\ UNCHANGED <<published, stored, subs, closed, chan, conn, stream, dropped, aged, unread>>

\* select with default: into the channel if there is room, else dropped.
Offer(p, c) ==
    /\ c \in offers[p]
    /\ offers' = [offers EXCEPT ![p] = @ \ {c}]
    /\ event' = [event EXCEPT ![p] = IF offers[p] = {c} THEN NoEvent ELSE @]
    /\ IF Len(chan[c]) < ChanCap
         THEN /\ chan' = [chan EXCEPT ![c] = Append(@, event[p])]
              /\ UNCHANGED dropped
         ELSE /\ dropped' = [dropped EXCEPT ![c] = @ \cup {event[p]}]
              /\ UNCHANGED chan
    /\ UNCHANGED <<published, stored, subs, closed, conn, stream, aged, unread>>

\* Bus.mu cannot be taken for writing while a publisher reads the map.
WriteLock == \A p \in Publishers : offers[p] = NoOffers

\* ServeSSE: Subscribe.
Subscribe(c) ==
    /\ conn[c] = "off"
    /\ WriteLock
    /\ subs' = subs \cup {c}
    /\ conn' = [conn EXCEPT ![c] = "subscribed"]
    /\ UNCHANGED <<published, stored, event, offers, closed, chan, stream, dropped, aged, unread>>

BugOldest(n) == SubSeq(stored, 1, IF Len(stored) < n THEN Len(stored) ELSE n)

\* ORDER BY id DESC LIMIT n, turned round again.
Recent(n) == SubSeq(stored, IF Len(stored) < n THEN 1 ELSE Len(stored) - n + 1, Len(stored))

\* What replayRecent writes when its loop has read n rows, newest first: the
\* last n stored events in chronological order.
Replay(c, n) ==
    /\ conn[c] = "subscribed"
    /\ stream' = [stream EXCEPT ![c] = @ \o Recent(n)]
    /\ aged' = [aged EXCEPT ![c] = {stored[i] : i \in 1..(Len(stored) - ReplayLimit)}]
    /\ unread' = [unread EXCEPT ![c] = ToSet(Recent(ReplayLimit)) \ ToSet(Recent(n))]
    /\ conn' = [conn EXCEPT ![c] = "streaming"]
    /\ UNCHANGED <<published, stored, event, offers, subs, closed, chan, dropped>>

\* replayRecent: the loop reads every row of the query ...
ReplayRecent(c) == Replay(c, ReplayLimit)

\* ... or a read error ends it early.  rows.Err() is never asked, so the
\* replay goes on with the rows it has and reports success.
ReplayCutShort(c) == \E n \in 0..(ReplayLimit - 1) : n < Len(stored) /\ Replay(c, n)

\* One turn of ServeSSE's loop.
Deliver(c) ==
    /\ conn[c] = "streaming"
    /\ chan[c] # <<>>
    /\ stream' = [stream EXCEPT ![c] = Append(@, Head(chan[c]))]
    /\ chan' = [chan EXCEPT ![c] = Tail(@)]
    /\ UNCHANGED <<published, stored, event, offers, subs, closed, conn, dropped, aged, unread>>

BugNoWriteLock(c) ==
    /\ conn[c] \in {"subscribed", "streaming"}
    /\ subs' = subs \ {c}
    /\ conn' = [conn EXCEPT ![c] = "leaving"]
    /\ UNCHANGED <<published, stored, event, offers, closed, chan, stream, dropped, aged, unread>>

\* The client disconnects, or the replay fails: the deferred cancel removes
\* the channel from the map ...
Unsubscribe(c) ==
    /\ conn[c] \in {"subscribed", "streaming"}
    /\ WriteLock
    /\ subs' = subs \ {c}
    /\ conn' = [conn EXCEPT ![c] = "leaving"]
    /\ UNCHANGED <<published, stored, event, offers, closed, chan, stream, dropped, aged, unread>>

\* ... and closes it after the unlock.
CloseChan(c) ==
    /\ conn[c] = "leaving"
    /\ closed' = closed \cup {c}
    /\ conn' = [conn EXCEPT ![c] = "gone"]
    /\ UNCHANGED <<published, stored, event, offers, subs, chan, stream, dropped, aged, unread>>

BusNext ==
    \/ \E p \in Publishers : Persist(p) \/ BeginFanOut(p)
    \/ \E p \in Publishers, c \in Viewers : Offer(p, c)
    \/ \E c \in Viewers : \/ Subscribe(c) \/ ReplayRecent(c) \/ ReplayCutShort(c)
                          \/ Deliver(c) \/ Unsubscribe(c) \/ CloseChan(c)

BusSpec == BusInit /\ [][BusNext]_busVars

-----------------------------------------------------------------------------
\* A send on a closed channel panics and takes the whole process down: the
\* channel a publisher is about to offer an event to is never closed.
NoSendOnClosed == \A p \in Publishers : offers[p] \cap closed = {}

\* Subscribe before replayRecent leaves no gap of its own: a stored event
\* whose Publish is over has been written to every client that streams, or
\* waits in its channel, or was dropped because the channel was full, or was
\* older than the replay, or is one that a read error kept from the replay.  A
\* client whose replay no read error cut short has nothing of the last kind.
StreamHasNoGap ==
    \A c \in Viewers : conn[c] = "streaming" =>
        \A e \in ToSet(stored) \ {event[p] : p \in Publishers} :
            e \in ToSet(stream[c]) \cup ToSet(chan[c]) \cup dropped[c] \cup aged[c] \cup unread[c]
=============================================================================
