--------------------------- MODULE StreamHubProofs ---------------------------
(***************************************************************************)
(* Proofs about StreamHub for any number of publishers, viewers, events    *)
(* and subscriptions and any channel capacity.                             *)
(***************************************************************************)
EXTENDS EventConsole, SharedFacts

USE DEF hubVars, pubVars, vars

Events == Publishers \X Nat

(* Every id in use was handed out, nobody walks a map that has changed since, and
   the channel of a client is open. *)
HubInv ==
    /\ nextID \in Nat
    /\ clients \subseteq SubIds /\ clients \subseteq 0 .. nextID - 1
    /\ closed \subseteq 0 .. nextID - 1
    /\ clients \cap closed = {}
    /\ reading \subseteq Publishers
    /\ remaining \in [Publishers -> SUBSET SubIds]
    /\ \A p \in reading : remaining[p] \subseteq clients
    /\ sub \in [Viewers -> SubIds \cup {NoSub}]
    /\ \A v \in Viewers : sub[v] # NoSub => sub[v] \in 0 .. nextID - 1
    /\ published \in [Publishers -> Nat]
    /\ channel \in [SubIds -> Seq(Events)] /\ written \in [SubIds -> Seq(Events)]

(* Nothing is subscribed, published or closed at first. *)
LEMMA InitHubInv == Init => HubInv
BY BoundsAssumption DEF Init, HubInv, SubIds, NoSub

LEMMA NextHubInv == HubInv /\ [Next]_vars => HubInv'
<1> SUFFICES ASSUME HubInv, [Next]_vars PROVE HubInv'
  OBVIOUS
<1> USE BoundsAssumption
<1>1. ASSUME NEW v \in Viewers, Subscribe(v) PROVE HubInv'
  <2>1. nextID \in SubIds  BY <1>1 DEF Subscribe, HubInv, SubIds
  <2>2. QED  BY <1>1, <2>1 DEF Subscribe, HubInv, NoSub
<1>2. ASSUME NEW v \in Viewers, Unsubscribe(v) PROVE HubInv'
  BY <1>2 DEF Unsubscribe, HubInv, NoSub
<1>3. ASSUME NEW v \in Viewers, Forward(v) PROVE HubInv'
  <2>1. sub[v] \in SubIds  BY <1>3 DEF Forward, HubInv
  <2>2. Head(channel[sub[v]]) \in Events /\ Tail(channel[sub[v]]) \in Seq(Events)
    BY <1>3, <2>1, HeadTailProperties DEF Forward, HubInv
  <2>3. Append(written[sub[v]], Head(channel[sub[v]])) \in Seq(Events)
    <3>1. written[sub[v]] \in Seq(Events)  BY <2>1 DEF HubInv
    <3>2. QED  BY <2>2, <3>1, AppendProperties
  <2>4. QED  BY <1>3, <2>1, <2>2, <2>3 DEF Forward, HubInv
<1>4. ASSUME NEW p \in Publishers, StartPublish(p) PROVE HubInv'
  BY <1>4 DEF StartPublish, HubInv
<1>5. ASSUME NEW p \in Publishers, NEW id \in SubIds, Deliver(p, id) PROVE HubInv'
  <2>1. Event(p, published[p]) \in Events  BY DEF Event, Events, HubInv
  <2>2. Append(channel[id], Event(p, published[p])) \in Seq(Events)  BY <2>1 DEF HubInv
  <2>3. channel' \in [SubIds -> Seq(Events)]  BY <1>5, <2>2 DEF Deliver, HubInv
  <2>4. QED  BY <1>5, <2>3 DEF Deliver, HubInv
<1>6. ASSUME NEW p \in Publishers, EndPublish(p) PROVE HubInv'
  BY <1>6 DEF EndPublish, HubInv
<1>7. CASE UNCHANGED vars  BY <1>7 DEF HubInv
<1>8. QED
  BY <1>1, <1>2, <1>3, <1>4, <1>5, <1>6, <1>7 DEF Next, Publish, View

LEMMA AlwaysHubInv == Spec => []HubInv
BY InitHubInv, NextHubInv, PTL DEF Spec

(* No interleaving of publishers with viewers that come and go makes a publisher
   send on a closed channel. *)
THEOREM NeverSendsOnClosed == Spec => []NoSendOnClosed
<1>1. HubInv => NoSendOnClosed  BY DEF HubInv, NoSendOnClosed
<1>2. QED  BY <1>1, AlwaysHubInv, PTL
-----------------------------------------------------------------------------
(***************************************************************************)
(* What a viewer that keeps up receives.  While a publisher walks the map, *)
(* the clients it has passed already have its event.                       *)
(***************************************************************************)
DeliveryInv ==
    \A id \in SubIds : id \notin overflowed =>
        /\ due[id] \subseteq Range(Received(id))
        /\ \A p \in reading : id \in clients /\ id \notin remaining[p] =>
              Event(p, published[p]) \in Range(Received(id))

LEMMA InitDeliveryInv == Init => DeliveryInv
BY DEF Init, DeliveryInv

LEMMA NextDeliveryInv == HubInv /\ DeliveryInv /\ [Next]_vars => DeliveryInv'
<1> SUFFICES ASSUME HubInv, DeliveryInv, [Next]_vars PROVE DeliveryInv'
  OBVIOUS
<1>1. ASSUME NEW v \in Viewers, Subscribe(v) \/ Unsubscribe(v) PROVE DeliveryInv'
  BY <1>1 DEF Subscribe, Unsubscribe, DeliveryInv, Received
<1>2. ASSUME NEW v \in Viewers, Forward(v) PROVE DeliveryInv'
  <2>1. sub[v] \in SubIds /\ channel[sub[v]] # <<>>  BY <1>2 DEF Forward, HubInv
  <2>2. ASSUME NEW id \in SubIds PROVE Range(Received(id)') = Range(Received(id))
    <3>1. CASE id = sub[v]
      <4>1. Received(id)' = Append(written[id], Head(channel[id])) \o Tail(channel[id])
        BY <1>2, <3>1 DEF Forward, HubInv, Received
      <4>2. QED  BY <2>1, <3>1, <4>1, RangeMove DEF HubInv, Received
    <3>2. CASE id # sub[v]  BY <1>2, <3>2 DEF Forward, HubInv, Received
    <3>3. QED  BY <3>1, <3>2
  <2>3. UNCHANGED <<due, overflowed, reading, clients, remaining, published>>
    BY <1>2 DEF Forward
  <2>4. QED  BY <2>2, <2>3 DEF DeliveryInv, Event
<1>3. ASSUME NEW p \in Publishers, StartPublish(p) PROVE DeliveryInv'
  BY <1>3 DEF StartPublish, DeliveryInv, HubInv, Received, Event
<1>4. ASSUME NEW p \in Publishers, NEW c \in SubIds, Deliver(p, c) PROVE DeliveryInv'
  <2>1. UNCHANGED <<due, reading, clients, published, written>>
        /\ remaining' = [remaining EXCEPT ![p] = @ \ {c}] /\ p \in reading
    BY <1>4 DEF Deliver
  <2>2. CASE channel' = channel /\ overflowed' = overflowed \cup {c}
    BY <2>1, <2>2 DEF DeliveryInv, HubInv, Received, Event
  <2>3. CASE /\ channel' = [channel EXCEPT ![c] = Append(@, Event(p, published[p]))]
             /\ overflowed' = overflowed
    <3>1. Event(p, published[p]) \in Events  BY DEF Event, Events, HubInv
    <3>2. Range(Received(c)') = Range(Received(c)) \cup {Event(p, published[p])}
      <4>1. Append(channel[c], Event(p, published[p])) \in Seq(Events)  BY <3>1 DEF HubInv
      <4>2. Received(c)' = written[c] \o Append(channel[c], Event(p, published[p]))
        BY <2>1, <2>3 DEF HubInv, Received
      <4>3. written[c] \in Seq(Events) /\ channel[c] \in Seq(Events)  BY DEF HubInv
      <4>4. Range(Received(c)') = Range(written[c])
                                    \cup Range(Append(channel[c], Event(p, published[p])))
        <5> DEFINE sent == Append(channel[c], Event(p, published[p]))
        <5>1. sent \in Seq(Events)  BY <4>1
        <5> HIDE DEF sent
        <5>2. Range(written[c] \o sent) = Range(written[c]) \cup Range(sent)
          BY <5>1, <4>3, RangeConcatenation
        <5>3. QED  BY <5>2, <4>2 DEF sent
      <4>5. Range(Received(c)) = Range(written[c]) \cup Range(channel[c])
        BY <4>3, RangeConcatenation DEF Received
      <4>6. QED  BY <3>1, <4>3, <4>4, <4>5, RangeAppend
    <3>3. \A id \in SubIds : id # c => Received(id)' = Received(id)
      BY <2>1, <2>3 DEF HubInv, Received
    <3>4. ASSUME NEW id \in SubIds, id \notin overflowed
          PROVE  /\ due'[id] \subseteq Range(Received(id)')
                 /\ \A q \in reading' : id \in clients' /\ id \notin remaining'[q] =>
                       Event(q, published[q]) \in Range(Received(id)')
      BY <2>1, <3>2, <3>3, <3>4 DEF DeliveryInv, HubInv
    <3>5. QED  BY <2>1, <2>3, <3>4 DEF DeliveryInv, Event
  <2>4. QED  BY <1>4, <2>2, <2>3 DEF Deliver
<1>5. ASSUME NEW p \in Publishers, EndPublish(p) PROVE DeliveryInv'
  <2>1. \A id \in SubIds : Received(id)' = Received(id)  BY <1>5 DEF EndPublish, Received
  <2>2. \A id \in SubIds : id \notin overflowed /\ id \in clients =>
            Event(p, published[p]) \in Range(Received(id))
    BY <1>5 DEF EndPublish, DeliveryInv, HubInv
  <2>3. QED  BY <1>5, <2>1, <2>2 DEF EndPublish, DeliveryInv, Event
<1>6. CASE UNCHANGED vars  BY <1>6 DEF DeliveryInv, Received, Event
<1>7. QED  BY <1>1, <1>2, <1>3, <1>4, <1>5, <1>6 DEF Next, Publish, View

(* A viewer whose channel was never full has received, or has waiting for it, every
   event published while it was subscribed. *)
THEOREM OnlySlowViewersMissEvents == Spec => []OnlySlowViewersMiss
<1>1. HubInv /\ DeliveryInv /\ [Next]_vars => DeliveryInv'  BY NextDeliveryInv
<1>2. DeliveryInv => OnlySlowViewersMiss  BY DEF DeliveryInv, OnlySlowViewersMiss
<1>3. QED  BY <1>1, <1>2, InitDeliveryInv, AlwaysHubInv, PTL DEF Spec
-----------------------------------------------------------------------------
(***************************************************************************)
(* The order in which events arrive.  What a viewer has of a publisher was *)
(* published before the event that publisher is about to send it.          *)
(***************************************************************************)
Ordered(s) == \A i, j \in DOMAIN s : i < j /\ s[i][1] = s[j][1] => s[i][2] < s[j][2]

OrderInv ==
    \A id \in SubIds :
        /\ Ordered(Received(id))
        /\ \A x \in Range(Received(id)) :
              /\ x[2] <= published[x[1]]
              /\ x[1] \in reading /\ id \in remaining[x[1]] => x[2] < published[x[1]]

(* Taking the next event from the channel is no change of what was received. *)
LEMMA ForwardKeepsReceived ==
    ASSUME HubInv, NEW v \in Viewers, Forward(v), NEW id \in SubIds
    PROVE  Received(id)' = Received(id)
<1>1. CASE id # sub[v]  BY <1>1 DEF Forward, HubInv, Received
<1>2. CASE id = sub[v]
  <2>1. written[id] \in Seq(Events) /\ channel[id] \in Seq(Events) /\ channel[id] # <<>>
    BY <1>2 DEF Forward, HubInv
  <2>2. Received(id)' = Append(written[id], Head(channel[id])) \o Tail(channel[id])
    BY <1>2 DEF Forward, HubInv, Received
  <2>3. ASSUME NEW s \in Seq(Events), NEW t \in Seq(Events), t # <<>>
        PROVE  Append(s, Head(t)) \o Tail(t) = s \o t
    BY <2>3
  <2>4. QED  BY <2>1, <2>2, <2>3 DEF Received
<1>3. QED  BY <1>1, <1>2

(* An event later than all there are keeps a sequence in order. *)
LEMMA AppendKeepsOrder ==
    ASSUME NEW s \in Seq(Events), Ordered(s), NEW x \in Events,
           \A y \in Range(s) : y[1] = x[1] => y[2] < x[2]
    PROVE  Ordered(Append(s, x))
<1>1. SUFFICES ASSUME NEW i \in DOMAIN Append(s, x), NEW j \in DOMAIN Append(s, x), i < j,
                      Append(s, x)[i][1] = Append(s, x)[j][1]
               PROVE  Append(s, x)[i][2] < Append(s, x)[j][2]
  BY DEF Ordered
<1>2. /\ DOMAIN Append(s, x) = 1 .. Len(s) + 1 /\ Len(s) \in Nat
      /\ i \in 1 .. Len(s) /\ Append(s, x)[i] = s[i] /\ s[i] \in Range(s)
  BY <1>1, AppendProperties DEF Range
<1>3. CASE j \in 1 .. Len(s)  BY <1>1, <1>2, <1>3, AppendProperties DEF Ordered
<1>4. CASE j = Len(s) + 1  BY <1>1, <1>2, <1>4, AppendProperties
<1>5. QED  BY <1>1, <1>2, <1>3, <1>4

(* No step disturbs the order. *)
LEMMA NextOrderInv == HubInv /\ OrderInv /\ [Next]_vars => OrderInv'
<1> SUFFICES ASSUME HubInv, OrderInv, [Next]_vars PROVE OrderInv'
  OBVIOUS
<1>1. ASSUME NEW v \in Viewers, Subscribe(v) \/ Unsubscribe(v) PROVE OrderInv'
  BY <1>1 DEF Subscribe, Unsubscribe, OrderInv, Received
<1>2. ASSUME NEW v \in Viewers, Forward(v) PROVE OrderInv'
  <2>1. UNCHANGED <<reading, remaining, published>>  BY <1>2 DEF Forward
  <2>2. QED  BY <1>2, <2>1, ForwardKeepsReceived DEF OrderInv
<1>0. \A id \in SubIds : Range(Received(id)) \subseteq Events /\ Received(id) \in Seq(Events)
  BY ConcatProperties DEF HubInv, Received, Range
<1>3. ASSUME NEW p \in Publishers, StartPublish(p) PROVE OrderInv'
  <2>1. \A id \in SubIds : Received(id)' = Received(id)  BY <1>3 DEF StartPublish, Received
  <2>2. ASSUME NEW id \in SubIds, NEW x \in Range(Received(id))
        PROVE  /\ x[2] <= published'[x[1]]
               /\ x[1] \in reading' /\ id \in remaining'[x[1]] => x[2] < published'[x[1]]
    <3>1. x[1] \in Publishers /\ x[2] \in Nat /\ x[2] <= published[x[1]]
      BY <1>0, <2>2 DEF Events, OrderInv
    <3>2. CASE x[1] = p  BY <1>3, <3>1, <3>2 DEF StartPublish, HubInv
    <3>3. CASE x[1] # p  BY <1>3, <2>2, <3>1, <3>3 DEF StartPublish, HubInv, OrderInv
    <3>4. QED  BY <3>2, <3>3
  <2>3. QED  BY <2>1, <2>2 DEF OrderInv
<1>4. ASSUME NEW p \in Publishers, NEW c \in SubIds, Deliver(p, c) PROVE OrderInv'
  <2>1. UNCHANGED <<reading, published, written>>
        /\ remaining' = [remaining EXCEPT ![p] = @ \ {c}] /\ p \in reading /\ c \in remaining[p]
    BY <1>4 DEF Deliver
  <2>2. \A q \in Publishers : remaining'[q] \subseteq remaining[q]  BY <2>1 DEF HubInv
  <2>3. CASE channel' = channel
    <3>1. \A id \in SubIds : Received(id)' = Received(id)  BY <2>1, <2>3 DEF Received
    <3>2. \A id \in SubIds : \A x \in Range(Received(id)) : x[1] \in Publishers
      BY <1>0 DEF Events
    <3>3. QED  BY <2>1, <2>2, <3>1, <3>2 DEF OrderInv
  <2>4. CASE channel' = [channel EXCEPT ![c] = Append(@, Event(p, published[p]))]
    <3> DEFINE e == Event(p, published[p])
    <3>1. e \in Events /\ e[1] = p /\ e[2] = published[p]  BY DEF Event, Events, HubInv
    <3>2. Received(c)' = Append(Received(c), e)
      <4>1. Received(c)' = written[c] \o Append(channel[c], e)
        BY <2>1, <2>4 DEF HubInv, Received
      <4>2. written[c] \in Seq(Events) /\ channel[c] \in Seq(Events)  BY DEF HubInv
      <4>3. ASSUME NEW s \in Seq(Events), NEW t \in Seq(Events)
            PROVE  s \o Append(t, e) = Append(s \o t, e)
        BY <4>3, <3>1
      <4>4. QED  BY <4>1, <4>2, <4>3 DEF Received
    <3>3. \A id \in SubIds : id # c => Received(id)' = Received(id)
      BY <2>1, <2>4 DEF HubInv, Received
    <3> HIDE DEF e
    <3>4. \A x \in Range(Received(c)) : x[1] = p => x[2] < published[p]
      BY <2>1 DEF OrderInv
    <3>5. Ordered(Received(c)')
      BY <1>0, <3>1, <3>2, <3>4, AppendKeepsOrder DEF OrderInv
    <3>6. Range(Received(c)') = Range(Received(c)) \cup {e}
      BY <1>0, <3>1, <3>2, RangeAppend
    <3>7. ASSUME NEW id \in SubIds, NEW x \in Range(Received(id)')
          PROVE  /\ x[2] <= published[x[1]]
                 /\ x[1] \in reading /\ id \in remaining'[x[1]] => x[2] < published[x[1]]
      <4>1. CASE id = c /\ x = e
        BY <2>1, <3>1, <4>1 DEF HubInv
      <4>2. CASE x \in Range(Received(id))
        <5>1. x[1] \in Publishers  BY <1>0, <4>2 DEF Events
        <5>2. QED  BY <2>2, <4>2, <5>1 DEF OrderInv
      <4>3. QED  BY <3>3, <3>6, <3>7, <4>1, <4>2
    <3>8. QED  BY <2>1, <3>3, <3>5, <3>7 DEF OrderInv
  <2>5. QED  BY <1>4, <2>3, <2>4 DEF Deliver
<1>5. ASSUME NEW p \in Publishers, EndPublish(p) PROVE OrderInv'
  BY <1>5 DEF EndPublish, OrderInv, Received
<1>6. CASE UNCHANGED vars  BY <1>6 DEF OrderInv, Received
<1>7. QED  BY <1>1, <1>2, <1>3, <1>4, <1>5, <1>6 DEF Next, Publish, View

(* A viewer receives the events of a goroutine in the order in which it ingested
   them, and none twice. *)
THEOREM EventsInOrder == Spec => []InOrder
<1>1. Init => OrderInv  BY DEF Init, OrderInv, Ordered, Received, Range
<1>2. OrderInv => InOrder  BY DEF OrderInv, Ordered, InOrder
<1>3. QED  BY <1>1, <1>2, NextOrderInv, AlwaysHubInv, PTL DEF Spec
-----------------------------------------------------------------------------
(* what TypeOK says beyond HubInv *)
BoundsInv ==
    /\ nextID <= MaxSubs
    /\ overflowed \subseteq SubIds
    /\ due \in [SubIds -> SUBSET Events]
    /\ \A id \in SubIds : Len(channel[id]) <= ChanCap

(* A channel is only sent to while it has room. *)
LEMMA NextBoundsInv == HubInv /\ BoundsInv /\ [Next]_vars => BoundsInv'
<1> SUFFICES ASSUME HubInv, BoundsInv, [Next]_vars PROVE BoundsInv'
  OBVIOUS
<1>1. ASSUME NEW v \in Viewers, Subscribe(v) \/ Unsubscribe(v) PROVE BoundsInv'
  <2>1. nextID' <= MaxSubs
    BY <1>1, BoundsAssumption DEF Subscribe, Unsubscribe, BoundsInv, HubInv
  <2>2. UNCHANGED <<channel, due, overflowed>>  BY <1>1 DEF Subscribe, Unsubscribe
  <2>3. QED  BY <2>1, <2>2 DEF BoundsInv
<1>2. ASSUME NEW v \in Viewers, Forward(v) PROVE BoundsInv'
  <2>1. sub[v] \in SubIds /\ channel[sub[v]] \in Seq(Events) /\ channel[sub[v]] # <<>>
    BY <1>2 DEF Forward, HubInv
  <2>2. Len(Tail(channel[sub[v]])) = Len(channel[sub[v]]) - 1 /\ Len(channel[sub[v]]) \in Nat
    BY <2>1
  <2>3. \A id \in SubIds : Len(channel'[id]) <= ChanCap
    <3>1. channel' = [channel EXCEPT ![sub[v]] = Tail(@)]  BY <1>2 DEF Forward
    <3>2. Len(channel'[sub[v]]) <= ChanCap
      <4>1. channel'[sub[v]] = Tail(channel[sub[v]])  BY <2>1, <3>1 DEF HubInv
      <4>2. Len(channel[sub[v]]) <= ChanCap  BY <2>1 DEF BoundsInv
      <4>3. QED  BY <2>2, <4>1, <4>2, SizesAssumption
    <3>3. QED  BY <3>1, <3>2 DEF HubInv, BoundsInv
  <2>4. QED  BY <1>2, <2>3 DEF Forward, BoundsInv
<1>3. ASSUME NEW p \in Publishers, StartPublish(p) PROVE BoundsInv'
  BY <1>3 DEF StartPublish, BoundsInv
<1>4. ASSUME NEW p \in Publishers, NEW id \in SubIds, Deliver(p, id) PROVE BoundsInv'
  <2>1. channel[id] \in Seq(Events) /\ Len(channel[id]) \in Nat  BY DEF HubInv
  <2>2. \A x : Len(Append(channel[id], x)) = Len(channel[id]) + 1
    <3>1. ASSUME NEW x PROVE Len(Append(channel[id], x)) = Len(channel[id]) + 1
      BY <2>1
    <3>2. QED  BY <3>1
  <2>3. \A c \in SubIds : Len(channel'[c]) <= ChanCap
    <3>1. CASE channel' = channel  BY <3>1 DEF BoundsInv
    <3>2. CASE /\ Len(channel[id]) < ChanCap
               /\ channel' = [channel EXCEPT ![id] = Append(@, Event(p, published[p]))]
      <4>1. DOMAIN channel = SubIds  BY DEF HubInv
      <4>2. channel'[id] = Append(channel[id], Event(p, published[p]))  BY <3>2, <4>1
      <4>3. Len(channel'[id]) = Len(channel[id]) + 1  BY <4>2, <2>2
      <4>4. Len(channel'[id]) <= ChanCap  BY <4>3, <3>2, <2>1, SizesAssumption
      <4>5. \A c \in SubIds \ {id} : channel'[c] = channel[c]  BY <3>2, <4>1
      <4>6. QED  BY <4>4, <4>5 DEF BoundsInv
    <3>3. QED  BY <1>4, <3>1, <3>2 DEF Deliver
  <2>4. QED  BY <1>4, <2>3 DEF Deliver, BoundsInv
<1>5. ASSUME NEW p \in Publishers, EndPublish(p) PROVE BoundsInv'
  <2>1. Event(p, published[p]) \in Events  BY DEF Event, Events, HubInv
  <2>2. QED  BY <1>5, <2>1 DEF EndPublish, BoundsInv
<1>6. CASE UNCHANGED vars  BY <1>6 DEF BoundsInv
<1>7. QED  BY <1>1, <1>2, <1>3, <1>4, <1>5, <1>6 DEF Next, Publish, View

(* The hub's state is well-typed, and no channel holds more than its capacity. *)
THEOREM TypeCorrect == Spec => []TypeOK
<1>1. Init => BoundsInv  BY BoundsAssumption, SizesAssumption DEF Init, BoundsInv
<1>2. HubInv /\ BoundsInv => TypeOK
  <2> SUFFICES ASSUME HubInv, BoundsInv PROVE TypeOK
    OBVIOUS
  <2>1. nextID \in 0 .. MaxSubs /\ closed \subseteq SubIds
    BY BoundsAssumption DEF HubInv, BoundsInv, SubIds
  <2>2. QED  BY <2>1 DEF HubInv, BoundsInv, TypeOK, Events
<1>3. QED  BY <1>1, <1>2, NextBoundsInv, AlwaysHubInv, PTL DEF Spec
-----------------------------------------------------------------------------
(* A console changes nothing of the hub: every behaviour of the two together is
   one of the hub, so what is proved of the hub holds for them too. *)
THEOREM ConsoleLeavesHubAlone == ConsoleSpec => Spec
<1>1. ConsoleInit => Init  BY DEF ConsoleInit
<1>2. [ConsoleNext]_allVars => [Next]_vars
  <2> SUFFICES ASSUME [ConsoleNext]_allVars PROVE [Next]_vars
    OBVIOUS
  <2>1. CASE \E p \in Publishers : StoreEvent(p) \/ PublishStored(p)
    BY <2>1 DEF StoreEvent, PublishStored, Next
  <2>2. CASE \E v \in Viewers : Connect(v) \/ Disconnect(v) \/ \E paused \in BOOLEAN : Show(v, paused)
    BY <2>2 DEF Connect, Disconnect, Show, Next, View
  <2>3. CASE \E c \in Consoles : Browse(c)
    BY <2>3 DEF Browse, Ask, LoadEnds
  <2>4. CASE UNCHANGED allVars  BY <2>4 DEF allVars
  <2>5. QED  BY <2>1, <2>2, <2>3, <2>4 DEF ConsoleNext
<1>3. QED  BY <1>1, <1>2, PTL DEF ConsoleSpec, Spec
-----------------------------------------------------------------------------
(***************************************************************************)
(* Reading the file.  What ReadFiltered folds is computed one record after *)
(* the other; after n records it has the newest of those that match.       *)
(***************************************************************************)
Matching(f, n, q) == {i \in 1 .. n : Matches(f[i], q)}

(* rows are the records of f at these positions, the last of M *)
AreAt(at, rows, f, M, limit) ==
    /\ at \in [DOMAIN rows -> M]
    /\ \A i \in DOMAIN rows : rows[i] = f[at[i]]
    /\ \A i, j \in DOMAIN rows : i < j => at[i] < at[j]
    /\ \A m \in M \ Range(at) : Len(rows) = limit /\ \A i \in DOMAIN rows : m < at[i]

AreNewest(rows, f, M, limit) == Len(rows) <= limit /\ \E at : AreAt(at, rows, f, M, limit)

(* One more record that matches is the newest, and may push the oldest out. *)
LEMMA KeepsNewest ==
    ASSUME NEW S, NEW f \in Seq(S), NEW n \in DOMAIN f, NEW M \in SUBSET (1 .. n - 1),
           NEW limit \in Nat \ {0}, NEW rows \in Seq(S), AreNewest(rows, f, M, limit)
    PROVE  /\ Keep(rows, f[n], limit) \in Seq(S)
           /\ AreNewest(Keep(rows, f[n], limit), f, M \cup {n}, limit)
<1> DEFINE k == Len(rows)
           longer == Append(rows, f[n])
<1>0. PICK at : AreAt(at, rows, f, M, limit)
  BY DEF AreNewest
<1>1. /\ at \in [DOMAIN rows -> M]
      /\ \A i \in DOMAIN rows : rows[i] = f[at[i]]
      /\ \A i, j \in DOMAIN rows : i < j => at[i] < at[j]
      /\ \A m \in M \ Range(at) : k = limit /\ \A i \in DOMAIN rows : m < at[i]
  BY <1>0 DEF AreAt
<1>2. /\ DOMAIN rows = 1 .. k /\ k \in Nat /\ k <= limit /\ n \in Nat \ {0}
      /\ M \subseteq Nat /\ \A m \in M : m < n
  BY DEF AreNewest
<1> DEFINE to == [i \in 1 .. k + 1 |-> IF i = k + 1 THEN n ELSE at[i]]
<1>3. /\ to = [i \in 1 .. k + 1 |-> to[i]] /\ k + 1 \in 1 .. k + 1 /\ to[k + 1] = n
      /\ \A i \in 1 .. k : i \in 1 .. k + 1 /\ to[i] = at[i]
      /\ \A i \in 1 .. k + 1 : i \in 1 .. k \/ i = k + 1
  BY <1>2
<1> HIDE DEF to
<1>4. to \in [1 .. k + 1 -> M \cup {n}] /\ \A i \in 1 .. k + 1 : to[i] \in Nat
  <2>1. ASSUME NEW i \in 1 .. k + 1 PROVE to[i] \in M \cup {n} /\ to[i] \in Nat
    <3>1. CASE i \in 1 .. k
      BY <1>1, <1>2, <1>3, <3>1
    <3>2. CASE i = k + 1
      BY <1>2, <1>3, <3>2
    <3> QED BY <1>3, <3>1, <3>2
  <2> QED BY <1>3, <2>1
<1>5. ASSUME NEW i \in 1 .. k + 1, NEW j \in 1 .. k + 1, i < j PROVE to[i] < to[j]
  <2>1. i \in 1 .. k
    BY <1>2, <1>5
  <2>2. CASE j \in 1 .. k
    BY <1>1, <1>2, <1>3, <1>5, <2>1, <2>2
  <2>3. CASE j = k + 1
    <3>1. to[i] \in M /\ to[j] = n
      BY <1>1, <1>2, <1>3, <2>1, <2>3
    <3> QED BY <1>2, <3>1
  <2> QED BY <1>3, <2>2, <2>3
<1>10. /\ longer \in Seq(S) /\ Len(longer) = k + 1 /\ DOMAIN longer = 1 .. k + 1
       /\ longer[k + 1] = f[n] /\ \A i \in 1 .. k : longer[i] = rows[i]
  BY <1>2
<1> HIDE DEF longer
<1>11. ASSUME NEW i \in 1 .. k + 1 PROVE longer[i] = f[to[i]]
  <2>1. CASE i \in 1 .. k
    BY <1>1, <1>2, <1>3, <1>10, <2>1
  <2>2. CASE i = k + 1
    BY <1>3, <1>10, <2>2
  <2> QED BY <1>3, <2>1, <2>2
<1>6. \A m \in (M \cup {n}) \ Range(to) : m \in M \ Range(at) /\ m < n
  <2>1. DOMAIN to = 1 .. k + 1 /\ k + 1 \in DOMAIN to /\ to[k + 1] = n
    BY <1>3
  <2>2. \A i \in DOMAIN at : i \in DOMAIN to /\ to[i] = at[i]
    BY <1>1, <1>2, <1>3
  <2>3. n \in Range(to) /\ Range(at) \subseteq Range(to)
    BY <2>1, <2>2 DEF Range
  <2> QED BY <1>2, <2>3
<1> DEFINE N == M \cup {n}
           kept == Keep(rows, f[n], limit)
<1>9. (Len(longer) > limit => kept = Tail(longer)) /\ (~(Len(longer) > limit) => kept = longer)
  BY DEF Keep, longer
<1> SUFFICES kept \in Seq(S) /\ AreNewest(kept, f, N, limit)
  OBVIOUS
<1>12. Len(longer) = k + 1 /\ k \in Nat /\ k <= limit /\ limit \in Nat
  BY <1>2, <1>10
<1> HIDE DEF N, kept
<1>7. CASE ~(k + 1 > limit)
  <2>1. kept = longer /\ k # limit /\ k + 1 <= limit
    <3>1. ~(Len(longer) > limit) /\ k # limit /\ k + 1 <= limit
      BY ONLY <1>7, <1>12
    <3> QED BY <1>9, <3>1, Zenon
  <2>2. M \ Range(at) = {}
    BY <1>1, <2>1
  <2>3. (M \cup {n}) \ Range(to) = {}
    BY <1>6, <2>2
  <2>4. AreAt(to, longer, f, N, limit)
    BY <1>4, <1>5, <1>10, <1>11, <2>3 DEF AreAt, N
  <2> QED BY <1>10, <2>1, <2>4 DEF AreNewest
<1>8. CASE k + 1 > limit
  <2>1. k = limit /\ kept = Tail(longer)
    <3>1. Len(longer) > limit /\ k = limit
      BY ONLY <1>8, <1>12
    <3> QED BY <1>9, <3>1, Zenon
  <2> DEFINE from == [i \in 1 .. k |-> to[i + 1]]
  <2>2. /\ Tail(longer) \in Seq(S) /\ Len(Tail(longer)) = k /\ DOMAIN Tail(longer) = 1 .. k
        /\ \A i \in 1 .. k : Tail(longer)[i] = longer[i + 1]
    BY <1>2, <1>10
  <2>3. \A i \in 1 .. k : i + 1 \in 1 .. k + 1
    BY <1>2
  <2>4. from \in [1 .. k -> M \cup {n}] /\ \A i \in 1 .. k : Tail(longer)[i] = f[from[i]]
    BY <1>4, <1>11, <2>2, <2>3
  <2>5. \A i, j \in 1 .. k : i < j => from[i] < from[j]
    BY <1>2, <1>5, <2>3
  <2>6. ASSUME NEW m \in (M \cup {n}) \ Range(from), NEW i \in 1 .. k PROVE m < from[i]
    <3>1. from[i] = to[i + 1] /\ 1 \in 1 .. k + 1 /\ 1 < i + 1 /\ i + 1 \in 1 .. k + 1
      BY <1>2, <2>3
    <3>2. CASE m \in Range(to)
      <4>1. PICK j \in 1 .. k + 1 : m = to[j]
        BY <1>4, <3>2 DEF Range
      <4>2. j = 1
        <5>1. j # 1 => j - 1 \in 1 .. k /\ from[j - 1] = m
          BY <1>2, <4>1
        <5>2. j # 1 => m \in Range(from)
          BY <5>1 DEF Range
        <5> QED BY <5>2
      <4> QED BY <1>5, <3>1, <4>1, <4>2
    <3>3. CASE m \notin Range(to)
      <4>1. m \in M \ Range(at) /\ m < n
        BY <1>6, <3>3
      <4>2. to[i + 1] = n \/ (i + 1 \in DOMAIN rows /\ to[i + 1] = at[i + 1])
        BY <1>2, <1>3, <3>1
      <4> QED BY <1>1, <3>1, <4>1, <4>2
    <3> QED BY <3>2, <3>3
  <2> DEFINE rest == Tail(longer)
  <2> HIDE DEF from, rest
  <2>7. rest \in Seq(S) /\ Len(rest) = k /\ DOMAIN rest = 1 .. k /\ kept = rest
    BY <2>1, <2>2 DEF rest
  <2>8. from \in [1 .. k -> N] /\ \A i \in 1 .. k : rest[i] = f[from[i]]
    BY <2>4 DEF N, rest
  <2>9. \A m \in N \ Range(from) : \A i \in 1 .. k : m < from[i]
    BY <2>6 DEF N
  <2>10. AreAt(from, rest, f, N, limit)
    BY <2>1, <2>5, <2>7, <2>8, <2>9 DEF AreAt
  <2> QED BY <1>2, <2>7, <2>10 DEF AreNewest
<1> QED BY <1>7, <1>8

(* h has what is kept of each set of records, the last of them read last *)
ReadsOf(h, f, q) ==
    h = [s \in SUBSET DOMAIN f |->
            IF s = {} THEN <<>>
            ELSE IF Matches(f[Max(s)], q)
                 THEN Keep(h[s \ {Max(s)}], f[Max(s)], Limit(q))
                 ELSE h[s \ {Max(s)}]]

LEMMA KeepIsSeq ==
    ASSUME NEW S, NEW rows \in Seq(S), NEW e \in S, NEW limit \in Nat
    PROVE  Keep(rows, e, limit) \in Seq(S)
<1> DEFINE longer == Append(rows, e)
<1>1. longer \in Seq(S) /\ longer # <<>>
  <2>1. longer \in Seq(S) /\ Len(longer) = Len(rows) + 1 /\ Len(rows) \in Nat
    OBVIOUS
  <2>2. Len(longer) # 0
    BY <2>1
  <2> QED BY <2>1, <2>2
<1> HIDE DEF longer
<1>2. Tail(longer) \in Seq(S)
  BY <1>1
<1> QED BY <1>1, <1>2 DEF Keep, longer

(* The last of some numbers. *)
LEMMA MaxOfSome ==
    ASSUME NEW n \in Nat, NEW s \in SUBSET (1 .. n), s # {}
    PROVE  Max(s) \in s
<1> DEFINE Down == {n - i : i \in s}
<1>1. Down \in SUBSET Nat /\ Down # {}
  <2>1. \A i \in s : i \in 1 .. n /\ n - i \in Nat /\ n - i \in Down
    OBVIOUS
  <2> QED BY <2>1
<1> HIDE DEF Down
<1>2. PICK d \in Down : \A k \in Down : d <= k
  BY <1>1, LeastNat
<1>3. PICK m \in s : d = n - m
  BY <1>2 DEF Down
<1>4. ASSUME NEW i \in s PROVE m >= i
  <2>1. n - i \in Down
    BY DEF Down
  <2>2. n - m <= n - i /\ i \in Nat /\ m \in Nat
    BY <1>2, <1>3, <2>1
  <2> QED BY <2>2
<1> QED BY <1>4 DEF Max

LEMMA ReadsExist ==
    ASSUME NEW S, NEW f \in Seq(S), NEW q, Limit(q) \in Nat
    PROVE  \E h : ReadsOf(h, f, q)
<1> DEFINE D == DOMAIN f
           V == Seq(S)
           c == [s \in SUBSET D |-> Max(s)]
           G == [p \in D \X V |-> IF Matches(f[p[1]], q) THEN Keep(p[2], f[p[1]], Limit(q)) ELSE p[2]]
<1>1. D = 1 .. Len(f) /\ Len(f) \in Nat /\ IsFiniteSet(D) /\ <<>> \in V
  BY FS_Interval
<1>2. \A s \in SUBSET D : s # {} => Max(s) \in s
  BY <1>1, MaxOfSome
<1>3. \A s \in SUBSET D : c[s] = Max(s)
  OBVIOUS
<1>4. ASSUME NEW x \in D, NEW v \in V
      PROVE  /\ G[<<x, v>>] = IF Matches(f[x], q) THEN Keep(v, f[x], Limit(q)) ELSE v
             /\ G[<<x, v>>] \in V
  <2>1. f[x] \in S
    BY <1>1
  <2>2. Keep(v, f[x], Limit(q)) \in V
    BY <2>1, KeepIsSeq
  <2>3. G[<<x, v>>] = IF Matches(f[x], q) THEN Keep(v, f[x], Limit(q)) ELSE v
    OBVIOUS
  <2> QED BY <2>2, <2>3
<1>5. G \in [D \X V -> V]
  <2>1. G = [p \in D \X V |-> G[p]]
    OBVIOUS
  <2> HIDE DEF G, V, D
  <2>2. \A p \in D \X V : G[p] \in V
    BY <1>4
  <2> QED BY <2>1, <2>2
<1>6. Chooses(c, D)
  BY <1>2, <1>3 DEF Chooses
<1> HIDE DEF c, G, V, D
<1>7. PICK h : IsFold(h, D, V, <<>>, G, c)
  BY <1>1, <1>5, <1>6, FoldExists
<1>8. ASSUME NEW s \in SUBSET D
      PROVE  h[s] = IF s = {} THEN <<>>
                    ELSE IF Matches(f[Max(s)], q)
                         THEN Keep(h[s \ {Max(s)}], f[Max(s)], Limit(q))
                         ELSE h[s \ {Max(s)}]
  <2>1. CASE s = {}
    BY <1>7, <2>1 DEF IsFold
  <2>2. CASE s # {}
    <3> DEFINE x == Max(s)
               v == h[s \ {x}]
    <3>1. x \in D /\ c[s] = x
      BY <1>2, <1>3, <2>2
    <3>2. v \in V /\ h[s] = G[<<x, v>>]
      BY <1>7, <2>2, <3>1 DEF IsFold
    <3> HIDE DEF x, v
    <3>3. h[s] = IF Matches(f[x], q) THEN Keep(v, f[x], Limit(q)) ELSE v
      BY <1>4, <3>1, <3>2
    <3> QED BY <2>2, <3>3 DEF x, v
  <2> QED BY <2>1, <2>2
<1>9. h = [s \in SUBSET D |-> h[s]]
  BY <1>7 DEF IsFold
<1> QED BY <1>8, <1>9 DEF ReadsOf, D

(* A read answers with the newest of the records that match. *)
LEMMA ReadIsNewest ==
    ASSUME NEW S, NEW f \in Seq(S), NEW q, Limit(q) \in Nat \ {0}
    PROVE  /\ ReadFiltered(f, q) \in Seq(S)
           /\ AreNewest(ReadFiltered(f, q), f, Matching(f, Len(f), q), Limit(q))
<1> DEFINE limit == Limit(q)
           h == CHOOSE g : ReadsOf(g, f, q)
           Good(n) == /\ h[1 .. n] \in Seq(S)
                      /\ AreNewest(h[1 .. n], f, Matching(f, n, q), limit)
           Bad == {n \in 0 .. Len(f) : ~Good(n)}
<1>1. ReadFiltered(f, q) = h[DOMAIN f]
  BY DEF ReadFiltered, FoldLeft, MapThenFoldSet, ReadsOf
<1>2. ReadsOf(h, f, q)
  <2>1. \E g : ReadsOf(g, f, q)
    BY ReadsExist
  <2> QED BY <2>1, Zenon
<1>3. DOMAIN f = 1 .. Len(f) /\ Len(f) \in Nat
  OBVIOUS
<1> HIDE DEF h
<1>4. Good(0)
  <2>1. 1 .. 0 = {} /\ {} \in SUBSET DOMAIN f
    OBVIOUS
  <2>2. h[1 .. 0] = <<>> /\ Matching(f, 0, q) = {}
    BY <1>2, <2>1 DEF ReadsOf, Matching
  <2>3. AreAt(<<>>, <<>>, f, {}, limit)
    BY DEF AreAt
  <2>4. AreNewest(<<>>, f, {}, limit)
    BY <2>3 DEF AreNewest
  <2>5. <<>> \in Seq(S)
    OBVIOUS
  <2> QED BY <2>2, <2>4, <2>5, Zenon
<1>5. ASSUME NEW n \in 1 .. Len(f), Good(n - 1) PROVE Good(n)
  <2>1. Max(1 .. n) = n /\ (1 .. n) \ {n} = 1 .. n - 1 /\ 1 .. n # {} /\ 1 .. n \in SUBSET DOMAIN f
    BY DEF Max
  <2> DEFINE before == h[1 .. n - 1]
             M == Matching(f, n - 1, q)
  <2>2. h[1 .. n] = IF Matches(f[n], q) THEN Keep(before, f[n], limit) ELSE before
    BY <1>2, <2>1 DEF ReadsOf
  <2>3. before \in Seq(S) /\ AreNewest(before, f, M, limit)
    BY <1>5
  <2>4. Matching(f, n, q) = IF Matches(f[n], q) THEN M \cup {n} ELSE M
    BY DEF Matching
  <2>5. M \in SUBSET (1 .. n - 1)
    BY DEF Matching
  <2> HIDE DEF before, M
  <2>6. CASE Matches(f[n], q)
    <3>1. Keep(before, f[n], limit) \in Seq(S)
          /\ AreNewest(Keep(before, f[n], limit), f, M \cup {n}, limit)
      BY <1>3, <2>3, <2>5, KeepsNewest
    <3> QED BY <2>2, <2>4, <2>6, <3>1
  <2>7. CASE ~Matches(f[n], q)
    BY <2>2, <2>3, <2>4, <2>7
  <2> QED BY <2>6, <2>7
<1>6. Bad = {}
  <2> SUFFICES ASSUME Bad # {} PROVE FALSE
    OBVIOUS
  <2>1. Bad \in SUBSET Nat /\ 0 \notin Bad /\ Bad \subseteq 0 .. Len(f)
    BY <1>3, <1>4
  <2>2. \A n \in 1 .. Len(f) : n - 1 \notin Bad => n \notin Bad
    BY <1>3, <1>5
  <2> HIDE DEF Bad
  <2>3. PICK n \in Bad : \A k \in Bad : n <= k
    BY <2>1, LeastNat
  <2>4. n \in 1 .. Len(f) /\ n - 1 \notin Bad
    BY <1>3, <2>1, <2>3
  <2> QED BY <2>2, <2>3, <2>4
<1>7. Good(Len(f))
  BY <1>3, <1>6
<1> QED BY <1>1, <1>3, <1>7
-----------------------------------------------------------------------------
(***************************************************************************)
(* The console's table.  Whatever comes down a channel is in the file, as  *)
(* is whatever a read of it answers.                                       *)
(***************************************************************************)
AnyType == ""

Rows == {Stored(e) : e \in Events}

Distinct(rows) == \A i, j \in DOMAIN rows : rows[i].id = rows[j].id => i = j

IsShown(rows) ==
    /\ rows \in Seq(Rows) /\ Len(rows) <= TableSize
    /\ IdsOf(rows) \subseteq IdsOf(file) /\ Distinct(rows)

OfType(type, n) == {i \in 1 .. n : type = AnyType \/ file[i].type = NormalizeSourceType(type)}

IsAnswer(rows) ==
    /\ rows \in Seq(Rows)
    /\ \E n \in 0 .. Len(file), type \in Types \cup {AnyType} :
          AreNewest(rows, file, OfType(type, n), TableSize)

FileInv ==
    /\ file \in Seq(Rows) /\ Distinct(file)
    /\ \A p \in reading : Event(p, published[p]) \in IdsOf(file)
    /\ \A id \in SubIds : Range(channel[id]) \subseteq IdsOf(file)

ShownInv ==
    /\ table = [c \in Consoles |-> table[c]] /\ answers = [c \in Consoles |-> answers[c]]
    /\ \A c \in Consoles : IsShown(table[c]) /\ \A rows \in answers[c] : IsAnswer(rows)

(* What is stored of an event has its id and a canonical type. *)
LEMMA StoredFields ==
    ASSUME NEW e \in Events
    PROVE  /\ Stored(e) \in Rows /\ Stored(e).id = e
           /\ Stored(e).type \in CanonicalTypes
           /\ \A r \in Rows : r.id = e => r = Stored(e)
<1>1. ASSUME NEW x \in Events PROVE Stored(x).id = x /\ Stored(x).type = TypeOf[x[1]]
  BY DEF Stored, BlankEvent
<1>2. TypeOf[e[1]] \in CanonicalTypes
  BY TypeOfAssumption DEF Events
<1> QED BY <1>1, <1>2 DEF Rows

LEMMA RowFields ==
    ASSUME NEW r \in Rows
    PROVE  r.id \in Events /\ r = Stored(r.id) /\ r.type \in CanonicalTypes
<1>1. PICK e \in Events : r = Stored(e)
  BY DEF Rows
<1> QED BY <1>1, StoredFields

(* An answer may be shown. *)
LEMMA AnswerIsShown ==
    ASSUME FileInv, NEW rows, IsAnswer(rows)
    PROVE  IsShown(rows)
<1>1. PICK n \in 0 .. Len(file), type \in Types \cup {AnyType} :
         AreNewest(rows, file, OfType(type, n), TableSize)
  BY DEF IsAnswer
<1>2. PICK at : AreAt(at, rows, file, OfType(type, n), TableSize)
  BY <1>1 DEF AreNewest
<1>3. DOMAIN file = 1 .. Len(file) /\ Len(file) \in Nat
  BY DEF FileInv
<1>4. OfType(type, n) \subseteq DOMAIN file /\ OfType(type, n) \subseteq Nat
  BY <1>3 DEF OfType
<1>5. ASSUME NEW i \in DOMAIN rows
      PROVE  at[i] \in DOMAIN file /\ at[i] \in Nat /\ rows[i] = file[at[i]]
  BY <1>2, <1>4 DEF AreAt
<1>6. IdsOf(rows) \subseteq IdsOf(file)
  BY <1>5 DEF IdsOf
<1>7. Distinct(rows)
  <2> SUFFICES ASSUME NEW i \in DOMAIN rows, NEW j \in DOMAIN rows, rows[i].id = rows[j].id
               PROVE  i = j
    BY DEF Distinct
  <2>1. at[i] = at[j]
    BY <1>5 DEF FileInv, Distinct
  <2>2. i \in Nat /\ j \in Nat
    BY DEF IsAnswer
  <2>3. ~(i < j) /\ ~(j < i)
    BY <1>2, <1>5, <2>1 DEF AreAt
  <2> QED BY <2>2, <2>3
<1> QED BY <1>1, <1>6, <1>7 DEF IsShown, IsAnswer, AreNewest

(* Reading the file gives an answer. *)
LEMMA ReadIsAnswer ==
    ASSUME FileInv, NEW type \in Types \cup {AnyType}
    PROVE  IsAnswer(ReadFiltered(file, Query(type)))
<1> DEFINE q == Query(type)
<1>1. /\ q.type = type /\ q.severity = AnyType /\ q.category = AnyType /\ q.asset = AnyType /\ q.search = AnyType
      /\ q.limit = TableSize
  <2>1. NoFilter = [limit |-> 0, type |-> AnyType, severity |-> AnyType, category |-> AnyType,
                    asset |-> AnyType, search |-> AnyType]
    BY Zenon DEF NoFilter, AnyType
  <2> QED BY <2>1 DEF Query
<1> HIDE DEF q
<1>2. Limit(q) = TableSize /\ TableSize \in Nat \ {0}
  BY <1>1, TableSizeAssumption DEF Limit
<1>3. DOMAIN file = 1 .. Len(file) /\ Len(file) \in Nat /\ file \in Seq(Rows)
  BY DEF FileInv
<1>4. ASSUME NEW i \in 1 .. Len(file)
      PROVE  Matches(file[i], q) <=> (type = AnyType \/ file[i].type = NormalizeSourceType(type))
  <2>1. file[i] \in Rows
    BY <1>3
  <2>2. NormalizeSourceType(file[i].type) = file[i].type
    BY <2>1, RowFields, CanonicalStays
  <2>3. Matches(file[i], q) <=>
            /\ q.type = AnyType \/ NormalizeSourceType(file[i].type) = NormalizeSourceType(q.type)
            /\ q.severity = AnyType \/ file[i].severity = q.severity
            /\ q.category = AnyType \/ file[i].category = q.category
            /\ q.asset = AnyType \/ q.asset \in {file[i].ip, file[i].name}
            /\ q.search = AnyType \/ q.search \in file[i].words \cup {file[i].ip, file[i].name,
                                     file[i].category, file[i].type, file[i].severity}
    BY Zenon DEF Matches, AnyType
  <2> QED BY <1>1, <2>2, <2>3, Zenon
<1>5. Matching(file, Len(file), q) = OfType(type, Len(file))
  BY <1>4 DEF Matching, OfType
<1>6. /\ ReadFiltered(file, q) \in Seq(Rows)
      /\ AreNewest(ReadFiltered(file, q), file, OfType(type, Len(file)), TableSize)
  BY <1>2, <1>3, <1>5, ReadIsNewest
<1>7. Len(file) \in 0 .. Len(file)
  BY <1>3
<1> QED BY <1>6, <1>7 DEF IsAnswer, q

(* Records that are added later do not concern an answer. *)
LEMMA AnswerStays ==
    ASSUME FileInv, NEW x \in Rows, file' = Append(file, x), NEW rows, IsAnswer(rows)
    PROVE  IsAnswer(rows)'
<1>1. PICK n \in 0 .. Len(file), type \in Types \cup {AnyType} :
         AreNewest(rows, file, OfType(type, n), TableSize)
  BY DEF IsAnswer
<1>2. PICK at : AreAt(at, rows, file, OfType(type, n), TableSize)
  BY <1>1 DEF AreNewest
<1>3. /\ Len(file) \in Nat /\ n \in 0 .. Len(file')
      /\ \A i \in 1 .. n : file'[i] = file[i]
  BY DEF FileInv
<1> DEFINE M == OfType(type, n)
<1>4. OfType(type, n)' = M /\ M \subseteq 1 .. n
  BY <1>3 DEF OfType
<1>5. \A i \in DOMAIN rows : rows[i] = file'[at[i]]
  BY <1>2, <1>3, <1>4 DEF AreAt
<1> HIDE DEF M
<1>6. AreAt(at, rows, file', M, TableSize)
  BY <1>2, <1>5 DEF AreAt, M
<1>7. AreNewest(rows, file', OfType(type, n)', TableSize)
  BY <1>1, <1>4, <1>6 DEF AreNewest
<1> QED BY <1>3, <1>7 DEF IsAnswer

(* A live event goes on top, and the last row may make room for it. *)
LEMMA LiveEventIsShown ==
    ASSUME NEW rows, IsShown(rows), NEW e \in Events, e \in IdsOf(file)
    PROVE  IsShown(WithLiveEvent(rows, e))
<1>1. CASE e \in IdsOf(rows)
  BY <1>1 DEF WithLiveEvent
<1>2. CASE e \notin IdsOf(rows)
  <2> DEFINE longer == <<Stored(e)>> \o rows
             cut == SubSeq(longer, 1, TableSize)
             k == Len(rows)
  <2>1. k \in Nat /\ DOMAIN rows = 1 .. k /\ rows \in Seq(Rows) /\ k <= TableSize
        /\ TableSize \in Nat \ {0}
    BY TableSizeAssumption DEF IsShown
  <2>2. Stored(e) \in Rows /\ Stored(e).id = e
    BY StoredFields
  <2>3. /\ longer \in Seq(Rows) /\ Len(longer) = k + 1 /\ DOMAIN longer = 1 .. k + 1
        /\ longer[1] = Stored(e) /\ \A i \in 2 .. k + 1 : i - 1 \in DOMAIN rows /\ longer[i] = rows[i - 1]
    BY <2>1, <2>2
  <2> HIDE DEF longer, k
  <2>4. IdsOf(longer) \subseteq IdsOf(file)
    <3> SUFFICES ASSUME NEW i \in 1 .. k + 1 PROVE longer[i].id \in IdsOf(file)
      BY <2>3 DEF IdsOf
    <3>1. CASE i = 1
      BY <2>2, <2>3, <3>1
    <3>2. CASE i # 1
      <4>1. i \in 2 .. k + 1
        BY <2>1, <3>2
      <4>2. longer[i].id \in IdsOf(rows)
        BY <2>3, <4>1 DEF IdsOf
      <4> QED BY <4>2 DEF IsShown
    <3> QED BY <3>1, <3>2
  <2>5. Distinct(longer)
    <3>1. ASSUME NEW i \in 2 .. k + 1 PROVE longer[i].id # e
      BY <1>2, <2>3, <3>1 DEF IdsOf
    <3>2. ASSUME NEW i \in 2 .. k + 1, NEW j \in 2 .. k + 1, longer[i].id = longer[j].id
          PROVE  i = j
      <4>1. i - 1 = j - 1
        BY <2>3, <3>2 DEF IsShown, Distinct
      <4> QED BY <2>1, <4>1
    <3>3. \A i \in DOMAIN longer : i = 1 \/ i \in 2 .. k + 1
      BY <2>1, <2>3
    <3> QED BY <2>2, <2>3, <3>1, <3>2, <3>3 DEF Distinct
  <2>6. CASE ~(Len(longer) > TableSize)
    <3>1. WithLiveEvent(rows, e) = longer
      BY <1>2, <2>6 DEF WithLiveEvent, longer
    <3>2. Len(longer) <= TableSize
      BY <2>1, <2>3, <2>6
    <3> QED BY <2>3, <2>4, <2>5, <3>1, <3>2 DEF IsShown
  <2>7. CASE Len(longer) > TableSize
    <3>1. WithLiveEvent(rows, e) = cut
      BY <1>2, <2>7 DEF WithLiveEvent, longer
    <3>2. /\ cut \in Seq(Rows) /\ Len(cut) = TableSize /\ DOMAIN cut = 1 .. TableSize
          /\ \A i \in 1 .. TableSize : i \in DOMAIN longer /\ cut[i] = longer[i]
      BY <2>1, <2>3, <2>7
    <3> HIDE DEF cut
    <3>3. IdsOf(cut) \subseteq IdsOf(longer) /\ Distinct(cut)
      BY <2>5, <3>2 DEF IdsOf, Distinct
    <3>4. Len(cut) <= TableSize
      BY <2>1, <3>2
    <3> QED BY <2>4, <3>1, <3>2, <3>3, <3>4 DEF IsShown
  <2> QED BY <2>6, <2>7
<1> QED BY <1>1, <1>2

ConsoleInv == FileInv /\ ShownInv

(* Steps that concern none of these. *)
LEMMA ShownInvStays ==
    ASSUME ShownInv, UNCHANGED <<file, table, answers>>
    PROVE  ShownInv'
<1>1. ASSUME NEW rows PROVE (IsShown(rows)' <=> IsShown(rows)) /\ (IsAnswer(rows)' <=> IsAnswer(rows))
  BY DEF IsShown, IdsOf, IsAnswer, OfType
<1> QED BY <1>1 DEF ShownInv

LEMMA ConsoleInvStays ==
    ASSUME ConsoleInv, UNCHANGED <<file, table, answers, reading, published, channel>>
    PROVE  ConsoleInv'
<1>1. IdsOf(file)' = IdsOf(file) /\ Distinct(file)' = Distinct(file)
  BY DEF IdsOf, Distinct
<1>2. FileInv'
  BY <1>1 DEF ConsoleInv, FileInv, Event
<1> QED BY <1>2, ShownInvStays DEF ConsoleInv

LEMMA InitConsoleInv == ConsoleInit => ConsoleInv
<1> SUFFICES ASSUME ConsoleInit PROVE ConsoleInv
  OBVIOUS
<1>1. FileInv
  BY DEF ConsoleInit, Init, FileInv, Distinct, Range
<1>2. IsShown(<<>>)
  BY TableSizeAssumption DEF IsShown, IdsOf, Distinct
<1>3. ShownInv
  BY <1>2 DEF ConsoleInit, ShownInv
<1> QED BY <1>1, <1>3 DEF ConsoleInv

(* Storing an event leaves what is shown and what is answered as true as before. *)
LEMMA StoreKeepsInv ==
    ASSUME HubInv, ConsoleInv, NEW p \in Publishers, StoreEvent(p)
    PROVE  ConsoleInv'
<1> DEFINE e == Event(p, published[p] + 1)
<1>1. /\ e \in Events /\ e \notin IdsOf(file) /\ file' = Append(file, Stored(e))
      /\ UNCHANGED <<reading, published, channel, table, answers>>
  BY DEF StoreEvent, HubInv, Event, Events, consoleVars
<1> HIDE DEF e
<1>2. Stored(e) \in Rows /\ Stored(e).id = e
  BY <1>1, StoredFields
<1>3. /\ file' \in Seq(Rows) /\ Len(file) \in Nat /\ DOMAIN file = 1 .. Len(file)
      /\ DOMAIN file' = 1 .. Len(file) + 1 /\ file'[Len(file) + 1] = Stored(e)
      /\ \A i \in 1 .. Len(file) : file'[i] = file[i]
  BY <1>1, <1>2 DEF ConsoleInv, FileInv
<1>4. IdsOf(file) \subseteq IdsOf(file)'
  BY <1>3 DEF IdsOf
<1>5. Distinct(file)'
  <2>1. \A i \in 1 .. Len(file) : file'[i].id # e
    BY <1>1, <1>3 DEF IdsOf
  <2>2. \A i, j \in 1 .. Len(file) : file'[i].id = file'[j].id => i = j
    BY <1>3 DEF ConsoleInv, FileInv, Distinct
  <2>3. \A i \in DOMAIN file' : i \in 1 .. Len(file) \/ i = Len(file) + 1
    BY <1>3
  <2> QED BY <1>2, <1>3, <2>1, <2>2, <2>3 DEF Distinct
<1>6. FileInv'
  <2>1. \A q \in reading : Event(q, published[q]) \in IdsOf(file)
    BY DEF ConsoleInv, FileInv
  <2>2. \A id \in SubIds : Range(channel[id]) \subseteq IdsOf(file)
    BY DEF ConsoleInv, FileInv
  <2> QED BY <1>1, <1>3, <1>4, <1>5, <2>1, <2>2 DEF FileInv, Event
<1>7. ASSUME NEW rows, IsShown(rows) PROVE IsShown(rows)'
  BY <1>4, <1>7 DEF IsShown, IdsOf
<1>8. ASSUME NEW rows, IsAnswer(rows) PROVE IsAnswer(rows)'
  BY <1>1, <1>2, <1>8, AnswerStays DEF ConsoleInv
<1> QED BY <1>1, <1>6, <1>7, <1>8 DEF ConsoleInv, ShownInv

(* What is true of the file and the channels stays true while the hub publishes an
   event that is stored. *)
LEMMA PublishKeepsInv ==
    ASSUME HubInv, ConsoleInv, NEW p \in Publishers, PublishStored(p)
    PROVE  ConsoleInv'
<1>1. UNCHANGED <<file, table, answers>>
  BY DEF PublishStored, consoleVars
<1>2. ShownInv'
  BY <1>1, ShownInvStays DEF ConsoleInv
<1>3. IdsOf(file)' = IdsOf(file) /\ file' \in Seq(Rows) /\ Distinct(file)'
  BY <1>1 DEF ConsoleInv, FileInv, IdsOf, Distinct
<1>4. ASSUME StartPublish(p) PROVE FileInv'
  <2>1. /\ p \notin reading /\ reading' = reading \cup {p} /\ channel' = channel
        /\ published' = [published EXCEPT ![p] = @ + 1]
    BY <1>4 DEF StartPublish
  <2>2. Event(p, published[p] + 1) \in IdsOf(file)
    BY <2>1 DEF PublishStored
  <2>3. \A q \in reading' : Event(q, published'[q]) \in IdsOf(file)
    BY <2>1, <2>2 DEF HubInv, ConsoleInv, FileInv
  <2> QED BY <1>3, <2>1, <2>3 DEF ConsoleInv, FileInv, Event
<1>5. ASSUME NEW c \in SubIds, Deliver(p, c) PROVE FileInv'
  <2> DEFINE e == Event(p, published[p])
  <2>1. UNCHANGED <<reading, published>> /\ p \in reading
    BY <1>5 DEF Deliver
  <2>2. e \in Events /\ e \in IdsOf(file)
    BY <2>1 DEF HubInv, Event, Events, ConsoleInv, FileInv
  <2>3. channel' = channel \/ channel' = [channel EXCEPT ![c] = Append(@, e)]
    BY <1>5 DEF Deliver
  <2> HIDE DEF e
  <2>4. ASSUME NEW id \in SubIds PROVE Range(channel'[id]) \subseteq IdsOf(file)
    <3>1. Range(channel[id]) \subseteq IdsOf(file) /\ channel[id] \in Seq(Events)
      BY DEF ConsoleInv, FileInv, HubInv
    <3>2. channel'[id] = channel[id] \/ channel'[id] = Append(channel[id], e)
      BY <2>3 DEF HubInv
    <3>3. Range(Append(channel[id], e)) = Range(channel[id]) \cup {e}
      BY <2>2, <3>1, RangeAppend
    <3> QED BY <2>2, <3>1, <3>2, <3>3
  <2> QED BY <1>3, <2>1, <2>4 DEF ConsoleInv, FileInv, Event
<1>6. ASSUME EndPublish(p) PROVE FileInv'
  BY <1>3, <1>6 DEF EndPublish, ConsoleInv, FileInv, Event
<1>7. FileInv'
  BY <1>4, <1>5, <1>6 DEF PublishStored, Publish
<1> QED BY <1>2, <1>7 DEF ConsoleInv

(* A table takes the event at the head of its viewer's channel. *)
LEMMA ShowKeepsInv ==
    ASSUME HubInv, ConsoleInv, NEW v \in Viewers, NEW paused \in BOOLEAN, Show(v, paused)
    PROVE  ConsoleInv'
<1> DEFINE e == Head(channel[sub[v]])
           s == sub[v]
<1>1. /\ UNCHANGED <<file, answers, reading, published>>
      /\ s \in SubIds /\ channel[s] # <<>> /\ channel' = [channel EXCEPT ![s] = Tail(@)]
  BY DEF Show, Forward, HubInv
<1>2. /\ channel[s] \in Seq(Events) /\ Range(channel[s]) \subseteq IdsOf(file)
  BY <1>1 DEF HubInv, ConsoleInv, FileInv
<1>3. e \in Events /\ e \in IdsOf(file) /\ Range(Tail(channel[s])) \subseteq IdsOf(file)
  BY <1>1, <1>2, RangeTail, HeadTailProperties
<1>4. table' = IF v \in Consoles /\ ~paused
               THEN [table EXCEPT ![v] = WithLiveEvent(@, e)] ELSE table
  BY DEF Show
<1> HIDE DEF e, s
<1>5. FileInv'
  <2>1. IdsOf(file)' = IdsOf(file) /\ Distinct(file)'
    BY <1>1 DEF ConsoleInv, FileInv, IdsOf, Distinct
  <2>2. ASSUME NEW id \in SubIds PROVE Range(channel'[id]) \subseteq IdsOf(file)
    <3>1. Range(channel[id]) \subseteq IdsOf(file)
      BY DEF ConsoleInv, FileInv
    <3> QED BY <1>1, <1>3, <3>1 DEF HubInv
  <2> QED BY <1>1, <2>1, <2>2 DEF ConsoleInv, FileInv, Event
<1>6. ASSUME NEW c \in Consoles PROVE IsShown(table'[c])
  <2>1. IsShown(table[c]) /\ table = [x \in Consoles |-> table[x]]
    BY DEF ConsoleInv, ShownInv
  <2>2. IsShown(WithLiveEvent(table[c], e))
    BY <1>3, <2>1, LiveEventIsShown
  <2>3. table'[c] = table[c] \/ table'[c] = WithLiveEvent(table[c], e)
    BY <1>4, <2>1
  <2> QED BY <2>1, <2>2, <2>3
<1>7. table' = [c \in Consoles |-> table'[c]]
  <2>1. table = [x \in Consoles |-> table[x]]
    BY DEF ConsoleInv, ShownInv
  <2> QED BY <1>4, <2>1
<1>8. ASSUME NEW rows PROVE IsShown(rows)' <=> IsShown(rows)
  BY <1>1 DEF IsShown, IdsOf
<1>9. ASSUME NEW rows PROVE IsAnswer(rows)' <=> IsAnswer(rows)
  BY <1>1 DEF IsAnswer, OfType
<1>10. answers' = [c \in Consoles |-> answers'[c]]
       /\ \A c \in Consoles : \A rows \in answers'[c] : IsAnswer(rows)
  BY <1>1 DEF ConsoleInv, ShownInv
<1> QED BY <1>5, <1>6, <1>7, <1>8, <1>9, <1>10 DEF ConsoleInv, ShownInv

(* A request reads the file; its answer becomes the table. *)
LEMMA BrowseKeepsInv ==
    ASSUME HubInv, ConsoleInv, NEW c \in Consoles, Browse(c)
    PROVE  ConsoleInv'
<1>1. UNCHANGED <<file, reading, published, channel>>
  <2>1. ASSUME NEW type \in Types, Ask(c, type)
        PROVE  UNCHANGED <<file, reading, published, channel>>
    BY <2>1, Zenon DEF Ask
  <2>2. ASSUME NEW rows \in answers[c], NEW ok \in BOOLEAN, LoadEnds(c, rows, ok)
        PROVE  UNCHANGED <<file, reading, published, channel>>
    BY <2>2, Zenon DEF LoadEnds
  <2> QED BY <2>1, <2>2, Zenon DEF Browse
<1>2. FileInv'
  BY <1>1 DEF ConsoleInv, FileInv, IdsOf, Distinct, Event
<1>3. ASSUME NEW rows PROVE (IsShown(rows)' <=> IsShown(rows)) /\ (IsAnswer(rows)' <=> IsAnswer(rows))
  BY <1>1 DEF IsShown, IdsOf, IsAnswer, OfType
<1>4. /\ table = [x \in Consoles |-> table[x]] /\ answers = [x \in Consoles |-> answers[x]]
      /\ \A x \in Consoles : IsShown(table[x]) /\ \A rows \in answers[x] : IsAnswer(rows)
  BY DEF ConsoleInv, ShownInv
<1>5. ASSUME NEW asked \in Types, Ask(c, asked) PROVE ShownInv'
  <2>1. PICK type \in Types \cup {AnyType} :
          answers' = [answers EXCEPT ![c] = @ \cup {ReadFiltered(file, Query(type))}]
    <3>1. CASE c \in ready
      BY <1>5, <3>1 DEF Ask
    <3>2. CASE c \notin ready
      BY <1>5, <3>2, Zenon DEF Ask, AnyType
    <3> QED BY <3>1, <3>2
  <2>2. IsAnswer(ReadFiltered(file, Query(type)))
    BY ReadIsAnswer DEF ConsoleInv
  <2>3. table' = table
    BY <1>5, Zenon DEF Ask
  <2> DEFINE r == ReadFiltered(file, Query(type))
  <2> HIDE DEF r
  <2>4. answers' = [answers EXCEPT ![c] = @ \cup {r}] /\ IsAnswer(r)
    BY <2>1, <2>2 DEF r
  <2>5. /\ answers' = [x \in Consoles |-> answers'[x]]
        /\ \A x \in Consoles : \A rows \in answers'[x] : IsAnswer(rows)
    BY <1>4, <2>4
  <2> QED BY <1>3, <1>4, <2>3, <2>5 DEF ShownInv
<1>6. ASSUME NEW rows \in answers[c], NEW ok \in BOOLEAN, LoadEnds(c, rows, ok) PROVE ShownInv'
  <2>1. /\ table' = [table EXCEPT ![c] = IF ok THEN rows ELSE @]
        /\ answers' = [answers EXCEPT ![c] = @ \ {rows}]
    BY <1>6 DEF LoadEnds
  <2>2. IsShown(rows)
    BY <1>4, AnswerIsShown DEF ConsoleInv
  <2>3. /\ table' = [x \in Consoles |-> table'[x]]
        /\ \A x \in Consoles : table'[x] = table[x] \/ table'[x] = rows
    BY <1>4, <2>1
  <2>4. /\ answers' = [x \in Consoles |-> answers'[x]]
        /\ \A x \in Consoles : answers'[x] \subseteq answers[x]
    BY <1>4, <2>1
  <2>5. \A x \in Consoles : IsShown(table'[x]) /\ \A a \in answers'[x] : IsAnswer(a)
    BY <1>4, <2>2, <2>3, <2>4
  <2> QED BY <1>3, <2>3, <2>4, <2>5 DEF ShownInv
<1>7. ShownInv'
  BY <1>5, <1>6 DEF Browse
<1> QED BY <1>2, <1>7 DEF ConsoleInv

LEMMA AlwaysConsoleInv == ConsoleSpec => []ConsoleInv
<1>1. HubInv /\ ConsoleInv /\ [ConsoleNext]_allVars => ConsoleInv'
  <2> SUFFICES ASSUME HubInv, ConsoleInv, [ConsoleNext]_allVars PROVE ConsoleInv'
    OBVIOUS
  <2>1. CASE \E p \in Publishers : StoreEvent(p) \/ PublishStored(p)
    BY <2>1, StoreKeepsInv, PublishKeepsInv
  <2>2. CASE \E v \in Viewers : Connect(v) \/ Disconnect(v) \/ \E paused \in BOOLEAN : Show(v, paused)
    <3>1. ASSUME NEW v \in Viewers, Connect(v) \/ Disconnect(v) PROVE ConsoleInv'
      <4>1. UNCHANGED <<file, table, answers, reading, published, channel>>
        BY <3>1 DEF Connect, Disconnect, Subscribe, Unsubscribe, consoleVars
      <4> QED BY <4>1, ConsoleInvStays
    <3> QED BY <2>2, <3>1, ShowKeepsInv
  <2>3. CASE \E c \in Consoles : Browse(c)
    BY <2>3, BrowseKeepsInv
  <2>4. CASE UNCHANGED allVars
    <3>1. UNCHANGED <<file, table, answers, reading, published, channel>>
      BY <2>4 DEF allVars, consoleVars
    <3> QED BY <3>1, ConsoleInvStays
  <2> QED BY <2>1, <2>2, <2>3, <2>4 DEF ConsoleNext
<1>2. ConsoleSpec => []HubInv
  BY ConsoleLeavesHubAlone, AlwaysHubInv, PTL
<1> QED BY <1>1, <1>2, InitConsoleInv, PTL DEF ConsoleSpec

(* Whatever answers and live events cross each other, a console's table shows no
   event twice, none that is not in the file, and at most TableSize of them. *)
THEOREM TableStaysFaithful == ConsoleSpec => []TableIsFaithful
<1>1. ConsoleInv => TableIsFaithful
  <2> SUFFICES ASSUME ConsoleInv, NEW c \in Consoles
               PROVE  /\ Cardinality(IdsOf(table[c])) = Len(table[c])
                      /\ ToSet(table[c]) \subseteq ToSet(file)
                      /\ Len(table[c]) <= TableSize
    BY DEF TableIsFaithful
  <2> DEFINE rows == table[c]
             k == Len(rows)
  <2>1. IsShown(rows) /\ FileInv
    BY DEF ConsoleInv, ShownInv
  <2> HIDE DEF rows
  <2>2. rows \in Seq(Rows) /\ k \in Nat /\ DOMAIN rows = 1 .. k /\ k <= TableSize
    BY <2>1 DEF IsShown
  <2>3. Cardinality(IdsOf(rows)) = k
    <3> DEFINE f == [i \in 1 .. k |-> rows[i].id]
    <3>1. f \in [1 .. k -> IdsOf(rows)] /\ \A i \in 1 .. k : f[i] = rows[i].id
      BY <2>2 DEF IdsOf
    <3> HIDE DEF f
    <3>2. \A i, j \in 1 .. k : f[i] = f[j] => i = j
      BY <2>1, <2>2, <3>1 DEF IsShown, Distinct
    <3>3. \A t \in IdsOf(rows) : \E i \in 1 .. k : f[i] = t
      BY <2>2, <3>1 DEF IdsOf
    <3>4. f \in Bijection(1 .. k, IdsOf(rows))
      BY <3>1, <3>2, <3>3 DEF Bijection, Injection, Surjection, IsInjective
    <3>5. ExistsBijection(1 .. k, IdsOf(rows))
      BY <3>4 DEF ExistsBijection
    <3>6. IsFiniteSet(1 .. k) /\ Cardinality(1 .. k) = k
      <4> HIDE DEF k
      <4>1. k \in Nat /\ 1 \in Int /\ k \in Int /\ (1 > k => k = 0) /\ k - 1 + 1 = k
        BY <2>2
      <4>2. IsFiniteSet(1 .. k) /\ Cardinality(1 .. k) = IF 1 > k THEN 0 ELSE k - 1 + 1
        BY <4>1, FS_Interval, Zenon
      <4> QED BY <4>1, <4>2
    <3> QED BY <3>5, <3>6, FS_Bijection
  <2>4. ToSet(rows) \subseteq ToSet(file)
    <3> SUFFICES ASSUME NEW i \in 1 .. k PROVE \E j \in DOMAIN file : file[j] = rows[i]
      BY <2>2 DEF ToSet
    <3>1. rows[i] \in Rows /\ rows[i].id \in IdsOf(file)
      <4>1. rows[i].id \in IdsOf(rows) /\ rows[i] \in Rows
        BY <2>2 DEF IdsOf
      <4> QED BY <2>1, <4>1 DEF IsShown
    <3>2. PICK j \in DOMAIN file : file[j].id = rows[i].id
      BY <3>1 DEF IdsOf
    <3>3. file[j] \in Rows
      BY <2>1 DEF FileInv
    <3> QED BY <3>1, <3>2, <3>3, RowFields
  <2> QED BY <2>2, <2>3, <2>4 DEF rows
<1> QED BY <1>1, AlwaysConsoleInv, PTL

(* An answer holds the newest of the matching records that were in the file at one
   moment, in order, as many as were asked for if there are as many. *)
THEOREM AnswersAreNewest == ConsoleSpec => []AnswerIsNewest
<1>1. ConsoleInv => AnswerIsNewest
  <2> SUFFICES ASSUME ConsoleInv, NEW c \in Consoles, NEW rows \in answers[c]
               PROVE  \E n \in 0 .. Len(file), type \in Types \cup {AnyType} :
                        LET matching == OfType(type, n) IN
                        /\ Len(rows) <= TableSize
                        /\ \E at \in [DOMAIN rows -> matching] :
                              /\ \A i \in DOMAIN rows : rows[i] = file[at[i]]
                              /\ \A i, j \in DOMAIN rows : i < j => at[i] < at[j]
                              /\ \A m \in matching \ Range(at) :
                                    Len(rows) = TableSize /\ \A i \in DOMAIN rows : m < at[i]
    BY Zenon DEF AnswerIsNewest, OfType, AnyType
  <2>1. PICK n \in 0 .. Len(file), type \in Types \cup {AnyType} :
           AreNewest(rows, file, OfType(type, n), TableSize)
    BY DEF ConsoleInv, ShownInv, IsAnswer
  <2> QED BY <2>1 DEF AreNewest, AreAt
<1> QED BY <1>1, AlwaysConsoleInv, PTL
=============================================================================
