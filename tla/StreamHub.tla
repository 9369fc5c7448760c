------------------------------ MODULE StreamHub ------------------------------
(***************************************************************************)
(* The live event stream (internal/api/stream.go and handleEventStream):   *)
(* ingesting goroutines publish to every subscribed viewer's channel while *)
(* viewers come and go.  Publish holds the hub's RWMutex for reading, so   *)
(* several publishers walk the map at once; Subscribe and Unsubscribe hold *)
(* it for writing.  Ids are never reused.                                  *)
(***************************************************************************)
EXTENDS Integers, Sequences, FiniteSets, Functions

CONSTANTS
    Publishers,     \* goroutines in ingestOne
    Viewers,        \* handlers of GET /events/stream
    ChanCap,        \* capacity of a viewer's channel
    MaxSubs,        \* bound: subscriptions made
    MaxEvents       \* bound: events each publisher publishes

ASSUME SizesAssumption == ChanCap \in Nat \ {0}
ASSUME BoundsAssumption == MaxSubs \in Nat /\ MaxEvents \in Nat

VARIABLES
    nextID, clients,    \* StreamHub.nextID, the keys of StreamHub.clients
    closed,             \* ids whose channel is closed
    channel,            \* what each channel holds
    sub,                \* the id each viewer's handler subscribed as, NoSub before
    reading,            \* publishers that hold the lock for reading
    remaining,          \* the clients each publisher's loop has still to visit
    published,          \* how many events each publisher has begun to publish
    \* history
    written,            \* what the handler of each subscription sent to its viewer
    due,                \* events whose Publish ran from start to end with id subscribed
    overflowed          \* ids whose channel was full when an event came

hubVars == <<nextID, clients, closed, sub>>
pubVars == <<reading, remaining, published>>
vars == <<hubVars, pubVars, channel, written, due, overflowed>>

SubIds == 0 .. MaxSubs - 1
NoSub == -1
Event(p, n) == <<p, n>>

Init ==
    /\ nextID = 0 /\ clients = {} /\ closed = {}
    /\ channel = [id \in SubIds |-> <<>>]
    /\ sub = [v \in Viewers |-> NoSub]
    /\ reading = {}
    /\ remaining = [p \in Publishers |-> {}]
    /\ published = [p \in Publishers |-> 0]
    /\ written = [id \in SubIds |-> <<>>]
    /\ due = [id \in SubIds |-> {}]
    /\ overflowed = {}
-----------------------------------------------------------------------------
Subscribe(v) ==
    /\ sub[v] = NoSub
    /\ reading = {}
    /\ nextID < MaxSubs
    /\ clients' = clients \cup {nextID}
    /\ sub' = [sub EXCEPT ![v] = nextID]
    /\ nextID' = nextID + 1
    /\ UNCHANGED <<closed, pubVars, channel, written, due, overflowed>>

(* Faulty variant: the map is changed under the read lock. *)
UnsubscribeShared(v) ==
    /\ sub[v] # NoSub
    /\ closed' = closed \cup {sub[v]}
    /\ clients' = clients \ {sub[v]}
    /\ sub' = [sub EXCEPT ![v] = NoSub]
    /\ UNCHANGED <<nextID, pubVars, channel, written, due, overflowed>>

(* the viewer went away: handleEventStream returns and its deferred call runs *)
Unsubscribe(v) ==
    /\ sub[v] # NoSub
    /\ reading = {}
    /\ closed' = closed \cup {sub[v]}
    /\ clients' = clients \ {sub[v]}
    /\ sub' = [sub EXCEPT ![v] = NoSub]
    /\ UNCHANGED <<nextID, pubVars, channel, written, due, overflowed>>

Forward(v) ==
    /\ sub[v] # NoSub
    /\ channel[sub[v]] # <<>>
    /\ written' = [written EXCEPT ![sub[v]] = Append(@, Head(channel[sub[v]]))]
    /\ channel' = [channel EXCEPT ![sub[v]] = Tail(@)]
    /\ UNCHANGED <<hubVars, pubVars, due, overflowed>>
-----------------------------------------------------------------------------
StartPublish(p) ==
    /\ p \notin reading
    /\ published[p] < MaxEvents
    /\ reading' = reading \cup {p}
    /\ remaining' = [remaining EXCEPT ![p] = clients]
    /\ published' = [published EXCEPT ![p] = @ + 1]
    /\ UNCHANGED <<hubVars, channel, written, due, overflowed>>

(* Faulty variants: the loop ends at the first viewer that does not keep up; it
   starts over; the send waits; nothing bounds what is kept for a viewer. *)
DeliverOrReturn(p, id) ==
    /\ p \in reading /\ id \in remaining[p]
    /\ IF Len(channel[id]) < ChanCap
       THEN /\ channel' = [channel EXCEPT ![id] = Append(@, Event(p, published[p]))]
            /\ remaining' = [remaining EXCEPT ![p] = @ \ {id}]
            /\ UNCHANGED overflowed
       ELSE /\ overflowed' = overflowed \cup {id}
            /\ remaining' = [remaining EXCEPT ![p] = {}]
            /\ UNCHANGED channel
    /\ UNCHANGED <<hubVars, reading, published, written, due>>

DeliverAndRetry(p, id) ==
    /\ p \in reading /\ id \in remaining[p]
    /\ IF Len(channel[id]) < ChanCap
       THEN /\ channel' = [channel EXCEPT ![id] = Append(@, Event(p, published[p]))]
            /\ remaining' = [remaining EXCEPT ![p] = @ \ {id}]
       ELSE /\ remaining' = [remaining EXCEPT ![p] = clients]
            /\ UNCHANGED channel
    /\ UNCHANGED <<hubVars, reading, published, written, due, overflowed>>

DeliverUnbounded(p, id) ==
    /\ p \in reading /\ id \in remaining[p]
    /\ channel' = [channel EXCEPT ![id] = Append(@, Event(p, published[p]))]
    /\ remaining' = [remaining EXCEPT ![p] = @ \ {id}]
    /\ UNCHANGED <<hubVars, reading, published, written, due, overflowed>>

DeliverBlocking(p, id) ==
    /\ p \in reading /\ id \in remaining[p]
    /\ Len(channel[id]) < ChanCap
    /\ channel' = [channel EXCEPT ![id] = Append(@, Event(p, published[p]))]
    /\ remaining' = [remaining EXCEPT ![p] = @ \ {id}]
    /\ UNCHANGED <<hubVars, reading, published, written, due, overflowed>>

(* the non-blocking send to one client; the map is walked in any order *)
Deliver(p, id) ==
    /\ p \in reading
    /\ id \in remaining[p]
    /\ IF Len(channel[id]) < ChanCap
       THEN /\ channel' = [channel EXCEPT ![id] = Append(@, Event(p, published[p]))]
            /\ UNCHANGED overflowed
       ELSE /\ overflowed' = overflowed \cup {id}
            /\ UNCHANGED channel
    /\ remaining' = [remaining EXCEPT ![p] = @ \ {id}]
    /\ UNCHANGED <<hubVars, reading, published, written, due>>

EndPublish(p) ==
    /\ p \in reading
    /\ remaining[p] = {}
    /\ reading' = reading \ {p}
    /\ due' = [id \in SubIds |-> IF id \in clients THEN due[id] \cup {Event(p, published[p])}
                                                   ELSE due[id]]
    /\ UNCHANGED <<hubVars, remaining, published, channel, written, overflowed>>

Publish(p) == StartPublish(p) \/ (\E id \in SubIds : Deliver(p, id)) \/ EndPublish(p)

View(v) == Subscribe(v) \/ Unsubscribe(v) \/ Forward(v)

Next == (\E p \in Publishers : Publish(p)) \/ (\E v \in Viewers : View(v))

Spec == Init /\ [][Next]_vars

(* The scheduler runs the publishers; no viewer has to read. *)
FairSpec == Spec /\ \A p \in Publishers : WF_vars(Publish(p))
-----------------------------------------------------------------------------
Received(id) == written[id] \o channel[id]

(* The type invariant; a viewer's channel never holds more than its capacity. *)
TypeOK ==
    /\ nextID \in 0 .. MaxSubs
    /\ clients \subseteq SubIds /\ closed \subseteq SubIds /\ overflowed \subseteq SubIds
    /\ channel \in [SubIds -> Seq(Publishers \X Nat)]
    /\ written \in [SubIds -> Seq(Publishers \X Nat)]
    /\ \A id \in SubIds : Len(channel[id]) <= ChanCap
    /\ sub \in [Viewers -> SubIds \cup {NoSub}]
    /\ reading \subseteq Publishers
    /\ remaining \in [Publishers -> SUBSET SubIds]
    /\ published \in [Publishers -> Nat]
    /\ due \in [SubIds -> SUBSET (Publishers \X Nat)]

(* No publisher is about to send on a closed channel, which would panic and take
   the collector down: Unsubscribe closes a channel only while nobody walks the
   map (stream.go:29-48), however viewers leave and come back. *)
NoSendOnClosed ==
    /\ clients \cap closed = {}
    /\ \A p \in reading : remaining[p] \cap closed = {}

(* A viewer misses an event published during its subscription only if its own
   channel was full: another viewer that stalls, arrives or leaves, and
   publishers that run at the same time, cost it nothing (stream.go:39-48). *)
OnlySlowViewersMiss ==
    \A id \in SubIds : id \notin overflowed => due[id] \subseteq Range(Received(id))

(* A viewer is shown no event twice, and the events of one goroutine in the order
   in which it ingested them. *)
InOrder ==
    \A id \in SubIds : \A i, j \in DOMAIN Received(id) :
        i < j /\ Received(id)[i][1] = Received(id)[j][1] =>
            Received(id)[i][2] < Received(id)[j][2]

(* No viewer can hold up ingestion: a publish ends even if no viewer ever reads. *)
PublishEnds == \A p \in Publishers : p \in reading ~> p \notin reading
=============================================================================
