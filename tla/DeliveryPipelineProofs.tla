----------------------- MODULE DeliveryPipelineProofs -----------------------
(***************************************************************************)
(* Proofs about DeliveryPipeline for any set of events, goroutines and     *)
(* configurations, any queue and batch size and any number of failures and *)
(* crashes.                                                                *)
(***************************************************************************)
EXTENDS DeliveryPipeline, SharedFacts

(* The variable groups only abbreviate UNCHANGED clauses. *)
USE DEF fileVars, configVars, clientVars, queueVars, workerVars, boundVars, vars

(***************************************************************************)
(* First layer: the offsets goroutines carry and offsetByID records point  *)
(* at spooled records, an ingester past "idle" has an event in hand, and   *)
(* the worker's position lies inside its batch.  TypeOK is not inductive   *)
(* without them: Push takes the event from the spool, SendOk from the      *)
(* batch.                                                                  *)
(***************************************************************************)
OffsetsLocated ==
    /\ \A a \in Actors : \A o \in todo[a] : o < Len(spoolFile) /\ SpoolRecord(o) \in Ids
    /\ \A e \in Ids : offsetByID[e] # NoOffset =>
          offsetByID[e] < Len(spoolFile) /\ SpoolRecord(offsetByID[e]) = e

IngestLabels == {"idle", "store", "spool", "record", "enabled", "check", "push", "mark"}

EventInHand ==
    \A i \in Ingesters :
        /\ pc[i] \in IngestLabels
        /\ pc[i] # "idle" => ev[i] \in Ids
        /\ pc[i] = "record" => \A o \in todo[i] : SpoolRecord(o) = ev[i]

BatchInHand ==
    /\ pc[Worker] = "decide" => pending # <<>>
    /\ pc[Worker] = "send" => sendIndex < Len(pending)

WellFormed == TypeOK /\ OffsetsLocated /\ EventInHand /\ BatchInHand

(* What the files' readers return. *)
LEMMA LoadedIDs == ASSUME NEW f \in Seq(Ids \cup {Torn}) PROVE LoadIDSet(f) \subseteq Ids
BY DEF LoadIDSet, Readable

LEMMA LoadedOffsets ==
    ASSUME NEW f \in Seq(Ids \cup {Torn}), NEW n \in Nat
    PROVE  /\ LoadPending(f, n) \subseteq Nat
           /\ \A o \in LoadPending(f, n) : o < Len(f) /\ f[o + 1] \in Ids
BY DEF LoadPending, Readable

(* A torn write keeps what the file held. *)
LEMMA TornAppend ==
    ASSUME NEW f \in Seq(Ids \cup {Torn}), NEW g \in {f, Append(f, Torn)}
    PROVE  /\ g \in Seq(Ids \cup {Torn})
           /\ Len(f) <= Len(g)
           /\ \A o \in Nat : o < Len(f) => g[o + 1] = f[o + 1]
<1>1. CASE g = f  BY <1>1
<1>2. CASE g = Append(f, Torn)  BY <1>2
<1>3. QED  BY <1>1, <1>2

LEMMA InitWellFormed == Init => WellFormed
BY EventsAssumption, ActorsAssumption, ConfigsAssumption, SizesAssumption
   DEF Init, WellFormed, TypeOK, OffsetsLocated, EventInHand, BatchInHand, Actors, Labels,
       IngestLabels, NoOffset

(* The steps of ingestOne. *)
LEMMA IngestWellFormed ==
    ASSUME WellFormed, NEW i \in Ingesters, Ingest(i)
    PROVE  WellFormed'
<1> USE ActorsAssumption, EventsAssumption, BoundsAssumption
<1> i \in Actors /\ i # Worker  BY DEF Actors
<1>1. ASSUME NEW e \in Ids, Receive(i, e) PROVE WellFormed'
  <2>1. TypeOK'  BY <1>1 DEF Receive, WellFormed, TypeOK, Goto, Labels
  <2>2. OffsetsLocated'  BY <1>1 DEF Receive, WellFormed, OffsetsLocated, SpoolRecord
  <2>3. (EventInHand /\ BatchInHand)'
    BY <1>1 DEF Receive, WellFormed, TypeOK, EventInHand, BatchInHand, Goto, IngestLabels, SpoolRecord
  <2>4. QED  BY <2>1, <2>2, <2>3 DEF WellFormed
<1>2. CASE StoreAppend(i)
  <2>1. TypeOK'  BY <1>2 DEF StoreAppend, WellFormed, TypeOK, EventInHand, Goto, Labels
  <2>2. OffsetsLocated'  BY <1>2 DEF StoreAppend, WellFormed, OffsetsLocated, SpoolRecord
  <2>3. (EventInHand /\ BatchInHand)'
    BY <1>2 DEF StoreAppend, WellFormed, TypeOK, EventInHand, BatchInHand, Goto, IngestLabels, SpoolRecord
  <2>4. QED  BY <2>1, <2>2, <2>3 DEF WellFormed
<1>3. CASE StoreFail(i)
  <2>0. eventsFile' \in Seq(Ids \cup {Torn})
    BY <1>3, TornAppend DEF StoreFail, WellFormed, TypeOK
  <2>1. TypeOK'  BY <1>3, <2>0 DEF StoreFail, Fail, WellFormed, TypeOK, Goto, Labels
  <2>2. OffsetsLocated'  BY <1>3 DEF StoreFail, WellFormed, OffsetsLocated, SpoolRecord
  <2>3. (EventInHand /\ BatchInHand)'
    BY <1>3 DEF StoreFail, WellFormed, TypeOK, EventInHand, BatchInHand, Goto, IngestLabels, SpoolRecord
  <2>4. QED  BY <2>1, <2>2, <2>3 DEF WellFormed
<1>4. CASE SpoolAppend(i)
  <2>0. ev[i] \in Ids  BY <1>4 DEF SpoolAppend, WellFormed, EventInHand
  <2>1. TypeOK'  BY <1>4, <2>0 DEF SpoolAppend, WellFormed, TypeOK, Goto, Labels
  <2>a. /\ Len(spoolFile') = Len(spoolFile) + 1
        /\ spoolFile'[Len(spoolFile) + 1] = ev[i]
        /\ \A o \in Nat : o < Len(spoolFile) => spoolFile'[o + 1] = spoolFile[o + 1]
    BY <1>4, <2>0 DEF SpoolAppend, WellFormed, TypeOK
  <2>2. OffsetsLocated'
    <3>1. ASSUME NEW a \in Actors, NEW o \in todo'[a]
          PROVE  o < Len(spoolFile') /\ spoolFile'[o + 1] \in Ids
      <4>1. CASE a = i  BY <1>4, <2>0, <2>a, <4>1 DEF SpoolAppend, WellFormed, TypeOK
      <4>2. CASE a # i
        BY <1>4, <2>a, <4>2 DEF SpoolAppend, WellFormed, TypeOK, OffsetsLocated, SpoolRecord
      <4>3. QED  BY <4>1, <4>2
    <3>2. ASSUME NEW e \in Ids, offsetByID'[e] # NoOffset
          PROVE  offsetByID'[e] < Len(spoolFile') /\ spoolFile'[offsetByID'[e] + 1] = e
      BY <1>4, <2>a, <3>2
      DEF SpoolAppend, WellFormed, TypeOK, OffsetsLocated, SpoolRecord, NoOffset
    <3>3. QED  BY <3>1, <3>2 DEF OffsetsLocated, SpoolRecord
  <2>3. EventInHand'
    <3> SUFFICES ASSUME NEW j \in Ingesters
                 PROVE  /\ pc'[j] \in IngestLabels
                        /\ pc'[j] # "idle" => ev'[j] \in Ids
                        /\ pc'[j] = "record" => \A o \in todo'[j] : spoolFile'[o + 1] = ev'[j]
      BY DEF EventInHand, SpoolRecord
    <3> j \in Actors  BY DEF Actors
    <3>1. CASE j = i
      BY <1>4, <2>0, <2>a, <3>1 DEF SpoolAppend, WellFormed, TypeOK, Goto, IngestLabels
    <3>2. CASE j # i
      BY <1>4, <2>a, <3>2 DEF SpoolAppend, WellFormed, TypeOK, OffsetsLocated, EventInHand,
         Goto, SpoolRecord
    <3>3. QED  BY <3>1, <3>2
  <2>4. BatchInHand'
    BY <1>4 DEF SpoolAppend, WellFormed, TypeOK, BatchInHand, Goto
  <2>5. QED  BY <2>1, <2>2, <2>3, <2>4 DEF WellFormed
<1>5. CASE SpoolFail(i)
  <2>a. /\ spoolFile' \in Seq(Ids \cup {Torn})
        /\ Len(spoolFile) <= Len(spoolFile')
        /\ \A o \in Nat : o < Len(spoolFile) => spoolFile'[o + 1] = spoolFile[o + 1]
    BY <1>5, TornAppend DEF SpoolFail, WellFormed, TypeOK
  <2>1. TypeOK'  BY <1>5, <2>a DEF SpoolFail, Fail, WellFormed, TypeOK, Goto, Labels
  <2>2. OffsetsLocated'
    <3>1. ASSUME NEW a \in Actors, NEW o \in todo'[a]
          PROVE  o < Len(spoolFile') /\ spoolFile'[o + 1] \in Ids
      <4>1. o \in todo[a] /\ o \in Nat  BY <1>5 DEF SpoolFail, WellFormed, TypeOK
      <4>2. Len(spoolFile) \in Nat /\ Len(spoolFile') \in Nat
        BY <2>a DEF WellFormed, TypeOK
      <4>3. QED  BY <2>a, <4>1, <4>2 DEF WellFormed, OffsetsLocated, SpoolRecord
    <3>2. ASSUME NEW e \in Ids, offsetByID'[e] # NoOffset
          PROVE  offsetByID'[e] < Len(spoolFile') /\ spoolFile'[offsetByID'[e] + 1] = e
      BY <1>5, <2>a, <3>2
      DEF SpoolFail, WellFormed, TypeOK, OffsetsLocated, SpoolRecord, NoOffset
    <3>3. QED  BY <3>1, <3>2 DEF OffsetsLocated, SpoolRecord
  <2>3. EventInHand'
    BY <1>5, <2>a DEF SpoolFail, WellFormed, TypeOK, OffsetsLocated, EventInHand, Goto,
       IngestLabels, SpoolRecord, Actors
  <2>4. BatchInHand'  BY <1>5 DEF SpoolFail, WellFormed, TypeOK, BatchInHand, Goto
  <2>5. QED  BY <2>1, <2>2, <2>3, <2>4 DEF WellFormed
<1>6. CASE RecordOffset(i)
  <2>0. PICK o \in todo[i] : offsetByID' = [offsetByID EXCEPT ![ev[i]] = o]
    BY <1>6 DEF RecordOffset
  <2>1. TypeOK'  BY <1>6, <2>0 DEF RecordOffset, WellFormed, TypeOK, Goto, Labels
  <2>2. OffsetsLocated'
    BY <1>6, <2>0 DEF RecordOffset, WellFormed, TypeOK, OffsetsLocated, EventInHand, SpoolRecord
  <2>3. (EventInHand /\ BatchInHand)'
    BY <1>6 DEF RecordOffset, WellFormed, TypeOK, EventInHand, BatchInHand, Goto, IngestLabels, SpoolRecord
  <2>4. QED  BY <2>1, <2>2, <2>3 DEF WellFormed
<1>7. CASE CheckEnabled(i)
  <2>1. TypeOK'  BY <1>7 DEF CheckEnabled, WellFormed, TypeOK, Goto, Labels
  <2>2. OffsetsLocated'
    BY <1>7 DEF CheckEnabled, WellFormed, TypeOK, OffsetsLocated, SpoolRecord
  <2>3. (EventInHand /\ BatchInHand)'
    BY <1>7 DEF CheckEnabled, WellFormed, TypeOK, EventInHand, BatchInHand, Goto, IngestLabels, SpoolRecord
  <2>4. QED  BY <2>1, <2>2, <2>3 DEF WellFormed
<1>8. CASE Answer(i)
  <2>1. TypeOK'  BY <1>8 DEF Answer, WellFormed, TypeOK, EventInHand, Goto, Labels
  <2>2. OffsetsLocated'  BY <1>8 DEF Answer, WellFormed, OffsetsLocated, SpoolRecord
  <2>3. (EventInHand /\ BatchInHand)'
    BY <1>8 DEF Answer, WellFormed, TypeOK, EventInHand, BatchInHand, Goto, IngestLabels, SpoolRecord
  <2>4. QED  BY <2>1, <2>2, <2>3 DEF WellFormed
<1>9. QED
  BY <1>1, <1>2, <1>3, <1>4, <1>5, <1>6, <1>7, <1>8 DEF Ingest

(* The steps of enqueueIfNeeded and enqueuePendingFromSpool, whoever takes them. *)
LEMMA EnqueueWellFormed ==
    ASSUME WellFormed, NEW a \in Actors, Enqueue(a)
    PROVE  WellFormed'
<1> USE ActorsAssumption
<1>0. Worker \in Actors /\ Worker \notin Ingesters  BY DEF Actors
<1>1. CASE CheckInflight(a)
  <2>0. PICK o \in todo[a] :
          IF SpoolRecord(o) \in inflight THEN Skip(a, o) ELSE Goto(a, "push") /\ UNCHANGED todo
    BY <1>1 DEF CheckInflight
  <2>a. todo' \in [Actors -> SUBSET Nat] /\ \A b \in Actors : todo'[b] \subseteq todo[b]
    <3>1. todo \in [Actors -> SUBSET Nat]  BY DEF WellFormed, TypeOK
    <3>2. todo' \in {todo, [todo EXCEPT ![a] = @ \ {o}]}  BY <2>0 DEF Skip
    <3>3. QED  BY <3>1, <3>2
  <2>b. pc' \in {[pc EXCEPT ![a] = "check"], [pc EXCEPT ![a] = "push"]}
    BY <2>0 DEF Skip, Goto
  <2>1. TypeOK'  BY <1>1, <2>a, <2>b DEF CheckInflight, WellFormed, TypeOK, Labels
  <2>2. OffsetsLocated'
    BY <1>1, <2>a DEF CheckInflight, WellFormed, TypeOK, OffsetsLocated, SpoolRecord
  <2>3. (EventInHand /\ BatchInHand)'
    BY <1>1, <2>a, <2>b, <1>0 DEF CheckInflight, WellFormed, TypeOK, EventInHand, BatchInHand,
       IngestLabels, SpoolRecord, Actors
  <2>4. QED  BY <2>1, <2>2, <2>3 DEF WellFormed
<1>2. CASE Push(a)
  <2>0. PICK o \in todo[a] :
          IF Len(queue) < QueueCap
          THEN queue' = Append(queue, SpoolRecord(o)) /\ Goto(a, "mark") /\ UNCHANGED todo
          ELSE Skip(a, o) /\ UNCHANGED queue
    BY <1>2 DEF Push
  <2>a. todo' \in [Actors -> SUBSET Nat] /\ \A b \in Actors : todo'[b] \subseteq todo[b]
    <3>1. todo \in [Actors -> SUBSET Nat]  BY DEF WellFormed, TypeOK
    <3>2. todo' \in {todo, [todo EXCEPT ![a] = @ \ {o}]}  BY <2>0 DEF Skip
    <3>3. QED  BY <3>1, <3>2
  <2>b. pc' \in {[pc EXCEPT ![a] = "check"], [pc EXCEPT ![a] = "mark"]}
    BY <2>0 DEF Skip, Goto
  <2>c. queue' \in Seq(Ids) /\ Len(queue') <= QueueCap
    <3>1. SpoolRecord(o) \in Ids  BY DEF WellFormed, OffsetsLocated
    <3>2. CASE Len(queue) < QueueCap
      <4>1. queue' = Append(queue, SpoolRecord(o))  BY <2>0, <3>2
      <4>2. QED  BY <3>1, <3>2, <4>1, AppendProperties, SizesAssumption DEF WellFormed, TypeOK
    <3>3. CASE ~(Len(queue) < QueueCap)  BY <2>0, <3>3 DEF WellFormed, TypeOK
    <3>4. QED  BY <3>2, <3>3
  <2>1. TypeOK'  BY <1>2, <2>a, <2>b, <2>c DEF Push, WellFormed, TypeOK, Labels
  <2>2. OffsetsLocated'
    BY <1>2, <2>a DEF Push, WellFormed, TypeOK, OffsetsLocated, SpoolRecord
  <2>3. (EventInHand /\ BatchInHand)'
    BY <1>2, <2>a, <2>b, <1>0 DEF Push, WellFormed, TypeOK, EventInHand, BatchInHand,
       IngestLabels, SpoolRecord, Actors
  <2>4. QED  BY <2>1, <2>2, <2>3 DEF WellFormed
<1>3. CASE MarkInflight(a)
  <2>0. PICK o \in todo[a] :
          /\ inflight' = inflight \cup {SpoolRecord(o)}
          /\ offsetByID' = [offsetByID EXCEPT ![SpoolRecord(o)] = o]
          /\ Skip(a, o)
    BY <1>3 DEF MarkInflight
  <2>a. /\ o \in Nat /\ o < Len(spoolFile) /\ SpoolRecord(o) \in Ids
        /\ todo' \in [Actors -> SUBSET Nat]
        /\ \A b \in Actors : todo'[b] \subseteq todo[b]
        /\ pc' = [pc EXCEPT ![a] = "check"]
    BY <2>0 DEF Skip, Goto, WellFormed, TypeOK, OffsetsLocated
  <2>1. TypeOK'  BY <1>3, <2>0, <2>a DEF MarkInflight, WellFormed, TypeOK, Labels
  <2>2. OffsetsLocated'
    <3>0. spoolFile' = spoolFile  BY <1>3 DEF MarkInflight
    <3>1. \A b \in Actors : \A p \in todo'[b] :
            p < Len(spoolFile') /\ spoolFile'[p + 1] \in Ids
      BY <2>a, <3>0 DEF WellFormed, OffsetsLocated, SpoolRecord
    <3>2. ASSUME NEW e \in Ids, offsetByID'[e] # NoOffset
          PROVE  offsetByID'[e] < Len(spoolFile') /\ spoolFile'[offsetByID'[e] + 1] = e
      <4>1. CASE e = SpoolRecord(o)
        BY <2>0, <2>a, <3>0, <4>1 DEF WellFormed, TypeOK, SpoolRecord
      <4>2. CASE e # SpoolRecord(o)
        <5>1. offsetByID'[e] = offsetByID[e]  BY <2>0, <4>2 DEF WellFormed, TypeOK
        <5>2. QED  BY <3>0, <3>2, <5>1 DEF WellFormed, OffsetsLocated, SpoolRecord
      <4>3. QED  BY <4>1, <4>2
    <3>3. QED  BY <3>1, <3>2 DEF OffsetsLocated, SpoolRecord
  <2>3. (EventInHand /\ BatchInHand)'
    BY <1>3, <2>a, <1>0 DEF MarkInflight, WellFormed, TypeOK, EventInHand, BatchInHand,
       IngestLabels, SpoolRecord, Actors
  <2>4. QED  BY <2>1, <2>2, <2>3 DEF WellFormed
<1>4. CASE LoadBacklog(a)
  <2>0. /\ todo' = [todo EXCEPT ![a] = LoadPending(spoolFile, checkpoint)]
        /\ LoadPending(spoolFile, checkpoint) \subseteq Nat
        /\ \A o \in LoadPending(spoolFile, checkpoint) :
              o < Len(spoolFile) /\ SpoolRecord(o) \in Ids
    BY <1>4, LoadedOffsets DEF LoadBacklog, WellFormed, TypeOK, SpoolRecord
  <2>1. TypeOK'  BY <1>4, <2>0 DEF LoadBacklog, WellFormed, TypeOK, Goto, Labels
  <2>2. OffsetsLocated'
    BY <1>4, <2>0 DEF LoadBacklog, WellFormed, TypeOK, OffsetsLocated, SpoolRecord
  <2>3. (EventInHand /\ BatchInHand)'
    BY <1>4, <2>0, <1>0 DEF LoadBacklog, WellFormed, TypeOK, EventInHand, BatchInHand, Goto,
       IngestLabels, SpoolRecord, Actors
  <2>4. QED  BY <2>1, <2>2, <2>3 DEF WellFormed
<1>5. CASE BacklogDone(a)
  <2>1. TypeOK'  BY <1>5 DEF BacklogDone, WellFormed, TypeOK, Goto, Labels
  <2>2. OffsetsLocated'  BY <1>5 DEF BacklogDone, WellFormed, OffsetsLocated, SpoolRecord
  <2>3. (EventInHand /\ BatchInHand)'
    BY <1>5, <1>0 DEF BacklogDone, WellFormed, TypeOK, EventInHand, BatchInHand, Goto,
       IngestLabels, SpoolRecord, Actors
  <2>4. QED  BY <2>1, <2>2, <2>3 DEF WellFormed
<1>6. QED  BY <1>1, <1>2, <1>3, <1>4, <1>5 DEF Enqueue

(* The steps of the forward worker. *)
LEMMA WorkWellFormed == ASSUME WellFormed, Work PROVE WellFormed'
<1> USE ActorsAssumption
<1>0. Worker \in Actors /\ Worker \notin Ingesters  BY DEF Actors
<1>1. CASE ReadConfig
  <2>1. TypeOK'  BY <1>1, <1>0 DEF ReadConfig, WellFormed, TypeOK, Goto, Labels
  <2>2. OffsetsLocated'
    BY <1>1, <1>0 DEF ReadConfig, WellFormed, TypeOK, OffsetsLocated, SpoolRecord
  <2>3. (EventInHand /\ BatchInHand)'
    BY <1>1, <1>0 DEF ReadConfig, WellFormed, TypeOK, EventInHand, BatchInHand, Goto, IngestLabels,
       SpoolRecord, Actors
  <2>4. QED  BY <2>1, <2>2, <2>3 DEF WellFormed
<1>2. CASE Pop
  <2>0. pending' \in Seq(Ids) /\ Len(pending') = Len(pending) + 1 /\ queue' \in Seq(Ids)
        /\ Len(queue') <= QueueCap
    <3>1. Head(queue) \in Ids /\ Tail(queue) \in Seq(Ids) /\ Len(Tail(queue)) = Len(queue) - 1
      BY <1>2, HeadTailProperties DEF Pop, WellFormed, TypeOK
    <3>2. QED
      BY <1>2, <3>1, AppendProperties, SizesAssumption DEF Pop, WellFormed, TypeOK
  <2>1. TypeOK'  BY <1>2, <1>0, <2>0, SizesAssumption DEF Pop, WellFormed, TypeOK, Goto, Labels
  <2>2. OffsetsLocated'
    BY <1>2, <1>0, <2>0, SizesAssumption DEF Pop, WellFormed, TypeOK, OffsetsLocated, SpoolRecord
  <2>3. (EventInHand /\ BatchInHand)'
    BY <1>2, <1>0, <2>0, SizesAssumption DEF Pop, WellFormed, TypeOK, EventInHand, BatchInHand, Goto, IngestLabels,
       SpoolRecord, Actors
  <2>4. QED  BY <2>1, <2>2, <2>3 DEF WellFormed
<1>3. CASE PopDone
  <2>1. TypeOK'  BY <1>3, <1>0 DEF PopDone, WellFormed, TypeOK, Goto, Labels
  <2>2. OffsetsLocated'
    BY <1>3, <1>0 DEF PopDone, WellFormed, TypeOK, OffsetsLocated, SpoolRecord
  <2>3. (EventInHand /\ BatchInHand)'
    BY <1>3, <1>0 DEF PopDone, WellFormed, TypeOK, EventInHand, BatchInHand, Goto, IngestLabels,
       SpoolRecord, Actors
  <2>4. QED  BY <2>1, <2>2, <2>3 DEF WellFormed
<1>4. CASE HoldBatch
  <2>1. TypeOK'  BY <1>4, <1>0 DEF HoldBatch, WellFormed, TypeOK, Goto, Labels
  <2>2. OffsetsLocated'
    BY <1>4, <1>0 DEF HoldBatch, WellFormed, TypeOK, OffsetsLocated, SpoolRecord
  <2>3. (EventInHand /\ BatchInHand)'
    BY <1>4, <1>0 DEF HoldBatch, WellFormed, TypeOK, EventInHand, BatchInHand, Goto, IngestLabels,
       SpoolRecord, Actors
  <2>4. QED  BY <2>1, <2>2, <2>3 DEF WellFormed
<1>5. CASE StartBatch
  <2>0. pending' \in Seq(Ids) /\ Len(pending') = Len(pending)
    <3>1. PICK perm \in [DOMAIN pending -> DOMAIN pending] :
            pending' = [i \in DOMAIN pending |-> pending[perm[i]]]
      BY <1>5 DEF StartBatch, Bijection, Injection
    <3>2. DOMAIN pending = 1 .. Len(pending) /\ Len(pending) \in Nat  BY DEF WellFormed, TypeOK
    <3>3. \A i \in 1 .. Len(pending) : pending[perm[i]] \in Ids
      BY <3>2, ElementOfSeq DEF WellFormed, TypeOK
    <3>4. pending' = [i \in 1 .. Len(pending) |-> pending[perm[i]]]  BY <3>1, <3>2
    <3>5. QED  BY <3>2, <3>3, <3>4
  <2>1. TypeOK'  BY <1>5, <1>0, <2>0 DEF StartBatch, WellFormed, TypeOK, Goto, Labels
  <2>2. OffsetsLocated'
    BY <1>5, <1>0, <2>0 DEF StartBatch, WellFormed, TypeOK, OffsetsLocated, SpoolRecord
  <2>3. (EventInHand /\ BatchInHand)'
    BY <1>5, <1>0, <2>0 DEF StartBatch, WellFormed, TypeOK, EventInHand, BatchInHand, Goto, IngestLabels,
       SpoolRecord, Actors
  <2>4. QED  BY <2>1, <2>2, <2>3 DEF WellFormed
<1>6. CASE SendOk
  <2>0. pending[sendIndex + 1] \in Ids /\ sendIndex + 1 \in Nat
    BY <1>6 DEF SendOk, WellFormed, TypeOK, BatchInHand
  <2>1. TypeOK'  BY <1>6, <1>0, <2>0 DEF SendOk, WellFormed, TypeOK, Goto, Labels
  <2>2. OffsetsLocated'
    BY <1>6, <1>0, <2>0 DEF SendOk, WellFormed, TypeOK, OffsetsLocated, SpoolRecord
  <2>3. (EventInHand /\ BatchInHand)'
    BY <1>6, <1>0, <2>0 DEF SendOk, WellFormed, TypeOK, EventInHand, BatchInHand, Goto, IngestLabels,
       SpoolRecord, Actors
  <2>4. QED  BY <2>1, <2>2, <2>3 DEF WellFormed
<1>7. CASE SendError
  <2>1. TypeOK'  BY <1>7, <1>0 DEF SendError, WellFormed, TypeOK, Goto, Labels
  <2>2. OffsetsLocated'
    BY <1>7, <1>0 DEF SendError, WellFormed, TypeOK, OffsetsLocated, SpoolRecord
  <2>3. (EventInHand /\ BatchInHand)'
    BY <1>7, <1>0 DEF SendError, WellFormed, TypeOK, EventInHand, BatchInHand, Goto, IngestLabels,
       SpoolRecord, Actors
  <2>4. QED  BY <2>1, <2>2, <2>3 DEF WellFormed
<1>8. CASE MarkBatchForwarded
  <2>0. checkpoint' \in Nat
    <3>1. BatchOffsets \subseteq Nat
      <4>1. \A e \in Range(pending) : e \in Ids  BY ElementOfSeq DEF WellFormed, TypeOK, Range
      <4>2. QED  BY <4>1 DEF BatchOffsets, WellFormed, TypeOK
    <3>2. QED  BY <1>8, <3>1 DEF MarkBatchForwarded, WellFormed, TypeOK
  <2>1. TypeOK'  BY <1>8, <1>0, <2>0 DEF MarkBatchForwarded, WellFormed, TypeOK, Goto, Labels
  <2>2. OffsetsLocated'
    BY <1>8, <1>0, <2>0 DEF MarkBatchForwarded, WellFormed, TypeOK, OffsetsLocated, SpoolRecord
  <2>3. (EventInHand /\ BatchInHand)'
    BY <1>8, <1>0, <2>0 DEF MarkBatchForwarded, WellFormed, TypeOK, EventInHand, BatchInHand, Goto, IngestLabels,
       SpoolRecord, Actors
  <2>4. QED  BY <2>1, <2>2, <2>3 DEF WellFormed
<1>9. CASE MarkForwardedFails
  <2>1. TypeOK'  BY <1>9, <1>0 DEF MarkForwardedFails, WellFormed, TypeOK, Goto, Labels, Fail
  <2>2. OffsetsLocated'
    BY <1>9, <1>0 DEF MarkForwardedFails, WellFormed, TypeOK, OffsetsLocated, SpoolRecord
  <2>3. (EventInHand /\ BatchInHand)'
    BY <1>9, <1>0 DEF MarkForwardedFails, WellFormed, TypeOK, EventInHand, BatchInHand, Goto, IngestLabels,
       SpoolRecord, Actors
  <2>4. QED  BY <2>1, <2>2, <2>3 DEF WellFormed
<1>10. CASE ForgetInflight
  <2>0. pending' \in Seq(Ids) /\ Len(pending') = 0  BY <1>10 DEF ForgetInflight
  <2>1. TypeOK'  BY <1>10, <1>0, <2>0, SizesAssumption DEF ForgetInflight, WellFormed, TypeOK, Goto, Labels
  <2>2. OffsetsLocated'
    BY <1>10, <1>0, <2>0, SizesAssumption DEF ForgetInflight, WellFormed, TypeOK, OffsetsLocated, SpoolRecord
  <2>3. (EventInHand /\ BatchInHand)'
    BY <1>10, <1>0, <2>0, SizesAssumption DEF ForgetInflight, WellFormed, TypeOK, EventInHand, BatchInHand, Goto, IngestLabels,
       SpoolRecord, Actors
  <2>4. QED  BY <2>1, <2>2, <2>3 DEF WellFormed
<1>11. QED
  BY <1>1, <1>2, <1>3, <1>4, <1>5, <1>6, <1>7, <1>8, <1>9, <1>10
  DEF Work, Send

(* The operators' calls. *)
LEMMA OperateWellFormed ==
    ASSUME WellFormed, NEW p \in Operators, Operate(p)
    PROVE  WellFormed'
<1> USE ActorsAssumption
<1>0. p \in Actors /\ p \notin Ingesters /\ p # Worker  BY DEF Actors
<1>1. ASSUME NEW c \in Configs, UpdateConfig(p, c) PROVE WellFormed'
  <2>1. TypeOK'  BY <1>1, <1>0 DEF UpdateConfig, WellFormed, TypeOK, Goto, Labels
  <2>2. OffsetsLocated'  BY <1>1 DEF UpdateConfig, WellFormed, OffsetsLocated, SpoolRecord
  <2>3. (EventInHand /\ BatchInHand)'
    BY <1>1, <1>0 DEF UpdateConfig, WellFormed, TypeOK, EventInHand, BatchInHand, Goto,
       IngestLabels, SpoolRecord, Actors
  <2>4. QED  BY <2>1, <2>2, <2>3 DEF WellFormed
<1>2. ASSUME NEW c \in Configs, UpdateConfigFails(p, c) PROVE WellFormed'
  <2>1. TypeOK'
    BY <1>2, <1>0, ConfigsAssumption DEF UpdateConfigFails, WellFormed, TypeOK, Goto, Labels, Fail
  <2>2. OffsetsLocated'  BY <1>2 DEF UpdateConfigFails, WellFormed, OffsetsLocated, SpoolRecord
  <2>3. (EventInHand /\ BatchInHand)'
    BY <1>2, <1>0 DEF UpdateConfigFails, WellFormed, TypeOK, EventInHand, BatchInHand, Goto,
       IngestLabels, SpoolRecord, Actors
  <2>4. QED  BY <2>1, <2>2, <2>3 DEF WellFormed
<1>3. CASE Flush(p)
  <2>1. TypeOK'  BY <1>3, <1>0 DEF Flush, WellFormed, TypeOK, Goto, Labels
  <2>2. OffsetsLocated'
    BY <1>3, <1>0 DEF Flush, WellFormed, TypeOK, OffsetsLocated, SpoolRecord
  <2>3. (EventInHand /\ BatchInHand)'
    BY <1>3, <1>0 DEF Flush, WellFormed, TypeOK, EventInHand, BatchInHand, Goto, IngestLabels,
       SpoolRecord, Actors
  <2>4. QED  BY <2>1, <2>2, <2>3 DEF WellFormed
<1>4. QED  BY <1>1, <1>2, <1>3 DEF Operate

(* A crash with its restart. *)
LEMMA CrashWellFormed == ASSUME WellFormed, Crash PROVE WellFormed'
<1> USE ActorsAssumption, EventsAssumption, SizesAssumption, BoundsAssumption DEF Crash
<1>1. eventsFile' \in Seq(Ids \cup {Torn}) /\ spoolFile' \in Seq(Ids \cup {Torn})
  BY TornAppend DEF Interrupted, WellFormed, TypeOK
<1>2. checkpoint' \in Nat  BY DEF WellFormed, TypeOK
<1>3. seenIDs' \subseteq Ids  BY <1>1, LoadedIDs
<1>4. /\ todo' \in [Actors -> SUBSET Nat]
      /\ \A a \in Actors : \A o \in todo'[a] : o < Len(spoolFile') /\ spoolFile'[o + 1] \in Ids
  BY <1>1, <1>2, LoadedOffsets
<1>5. pc' \in [Actors -> {"loop", "check", "idle"}]  OBVIOUS
<1>6. TypeOK'
  <2>1. /\ offsetByID' \in [Ids -> Nat \cup {NoOffset}] /\ ev' \in [Ingesters -> Ids \cup {NoEvent}]
        /\ pc' \in [Actors -> Labels]
    BY <1>5 DEF NoOffset, Labels
  <2>2. /\ queue' \in Seq(Ids) /\ Len(queue') <= QueueCap
        /\ pending' \in Seq(Ids) /\ Len(pending') <= BatchSize
        /\ sendIndex' \in Nat /\ inflight' \subseteq Ids
    OBVIOUS
  <2>3. /\ savedConfig' \in Configs /\ config' \in Configs /\ workerConfig' \in Configs
        /\ acked' \subseteq Ids /\ forwarded' \subseteq Ids
        /\ pausedStarts' \in Nat /\ failures' \in Nat /\ crashes' \in Nat
    BY DEF WellFormed, TypeOK
  <2>4. QED  BY <1>1, <1>2, <1>3, <1>4, <2>1, <2>2, <2>3 DEF TypeOK
<1>7. OffsetsLocated'  BY <1>4 DEF OffsetsLocated, SpoolRecord
<1>8. \A i \in Ingesters : pc'[i] = "idle"  BY DEF Actors
<1>9. pc'[Worker] = "loop"  BY DEF Actors
<1>10. QED
  BY <1>6, <1>7, <1>8, <1>9 DEF WellFormed, EventInHand, BatchInHand, IngestLabels

LEMMA NextWellFormed == WellFormed /\ [Next]_vars => WellFormed'
<1> SUFFICES ASSUME WellFormed, [Next]_vars PROVE WellFormed'
  OBVIOUS
<1>1. ASSUME NEW i \in Ingesters, Ingest(i) PROVE WellFormed'  BY <1>1, IngestWellFormed
<1>2. ASSUME NEW a \in Actors, Enqueue(a) PROVE WellFormed'  BY <1>2, EnqueueWellFormed
<1>3. CASE Work  BY <1>3, WorkWellFormed
<1>4. ASSUME NEW p \in Operators, Operate(p) PROVE WellFormed'  BY <1>4, OperateWellFormed
<1>5. CASE Crash  BY <1>5, CrashWellFormed
<1>6. CASE UNCHANGED vars
  BY <1>6 DEF WellFormed, TypeOK, OffsetsLocated, EventInHand, BatchInHand, SpoolRecord
<1>7. QED  BY <1>1, <1>2, <1>3, <1>4, <1>5, <1>6 DEF Next

LEMMA AlwaysWellFormed == Spec => []WellFormed
BY InitWellFormed, NextWellFormed, PTL DEF Spec

(* Every state of the pipeline is well typed: the queue never exceeds its
   capacity and a batch never its size (main.go:571-619, queue.go:35-66). *)
THEOREM TypeCorrect == Spec => []TypeOK
<1>1. WellFormed => TypeOK  BY DEF WellFormed
<1>2. QED  BY <1>1, AlwaysWellFormed, PTL
-----------------------------------------------------------------------------
(***************************************************************************)
(* Second layer: what the goroutines hold is in the files.  It gives the   *)
(* guards of EventRelay's actions: nothing is spooled that is not stored,  *)
(* and nothing is acknowledged or sent that is not spooled.                *)
(***************************************************************************)
HeldIsSpooled ==
    /\ Range(queue) \subseteq Written(spoolFile)
    /\ Range(pending) \subseteq Written(spoolFile)
    /\ \A i \in Ingesters :
          /\ pc[i] = "spool" => ev[i] \in Written(eventsFile)
          /\ pc[i] \in {"record", "enabled", "check", "push", "mark"} =>
                ev[i] \in Written(spoolFile)

LEMMA WrittenAppend ==
    ASSUME NEW f \in Seq(Ids \cup {Torn}), NEW x \in Ids
    PROVE  Written(Append(f, x)) = Written(f) \cup {x}
<1>1. x \in Ids \cup {Torn}  OBVIOUS
<1>2. QED  BY <1>1, AppendProperties DEF Written

LEMMA WrittenTorn ==
    ASSUME NEW f \in Seq(Ids \cup {Torn}), NEW g \in {f, Append(f, Torn)}
    PROVE  Written(g) = Written(f)
<1>1. CASE g = f  BY <1>1
<1>2. CASE g = Append(f, Torn)
  <2>1. Torn \in Ids \cup {Torn}  OBVIOUS
  <2>2. QED  BY <1>2, <2>1, AppendProperties, EventsAssumption DEF Written
<1>3. QED  BY <1>1, <1>2

(* What a goroutine takes from the spool was written there. *)
LEMMA RecordIsWritten ==
    ASSUME WellFormed, NEW a \in Actors, NEW o \in todo[a]
    PROVE  SpoolRecord(o) \in Written(spoolFile)
BY DEF WellFormed, TypeOK, OffsetsLocated, SpoolRecord, Written

LEMMA InitHeldIsSpooled == Init => HeldIsSpooled
BY ActorsAssumption DEF Init, HeldIsSpooled, Range, Actors

LEMMA NextHeldIsSpooled == WellFormed /\ HeldIsSpooled /\ [Next]_vars => HeldIsSpooled'
<1> SUFFICES ASSUME WellFormed, HeldIsSpooled, [Next]_vars PROVE HeldIsSpooled'
  OBVIOUS
<1> USE ActorsAssumption
<1>0. /\ Worker \in Actors /\ Worker \notin Ingesters /\ Ingesters \subseteq Actors
      /\ Operators \subseteq Actors /\ Operators \cap Ingesters = {} /\ pc \in [Actors -> Labels]
      /\ ev \in [Ingesters -> Ids \cup {NoEvent}]
  BY DEF Actors, WellFormed, TypeOK
<1>1. ASSUME NEW i \in Ingesters, Ingest(i) PROVE HeldIsSpooled'
  <2>1. ASSUME NEW e \in Ids, Receive(i, e) PROVE HeldIsSpooled'
    BY <2>1, <1>0 DEF Receive, HeldIsSpooled, Goto
  <2>2. CASE StoreAppend(i)
    <3>1. Written(eventsFile') = Written(eventsFile) \cup {ev[i]}
      <4>1. ev[i] \in Ids  BY <2>2 DEF StoreAppend, WellFormed, EventInHand
      <4>2. QED  BY <2>2, <4>1, WrittenAppend DEF StoreAppend, WellFormed, TypeOK
    <3>2. QED  BY <2>2, <3>1, <1>0 DEF StoreAppend, HeldIsSpooled, Goto
  <2>3. CASE StoreFail(i)
    <3>1. Written(eventsFile') = Written(eventsFile)
      BY <2>3, WrittenTorn DEF StoreFail, WellFormed, TypeOK
    <3>2. QED  BY <2>3, <3>1, <1>0 DEF StoreFail, HeldIsSpooled, Goto
  <2>4. CASE SpoolAppend(i)
    <3>1. Written(spoolFile') = Written(spoolFile) \cup {ev[i]}
      <4>1. ev[i] \in Ids  BY <2>4 DEF SpoolAppend, WellFormed, EventInHand
      <4>2. QED  BY <2>4, <4>1, WrittenAppend DEF SpoolAppend, WellFormed, TypeOK
    <3>2. QED  BY <2>4, <3>1, <1>0 DEF SpoolAppend, HeldIsSpooled, Goto
  <2>5. CASE SpoolFail(i)
    <3>1. Written(spoolFile') = Written(spoolFile)
      BY <2>5, WrittenTorn DEF SpoolFail, WellFormed, TypeOK
    <3>2. QED  BY <2>5, <3>1, <1>0 DEF SpoolFail, HeldIsSpooled, Goto
  <2>6. CASE RecordOffset(i)  BY <2>6, <1>0 DEF RecordOffset, HeldIsSpooled, Goto
  <2>7. CASE CheckEnabled(i)  BY <2>7, <1>0 DEF CheckEnabled, HeldIsSpooled, Goto
  <2>8. CASE Answer(i)  BY <2>8, <1>0 DEF Answer, HeldIsSpooled, Goto
  <2>9. QED  BY <1>1, <2>1, <2>2, <2>3, <2>4, <2>5, <2>6, <2>7, <2>8 DEF Ingest
<1>2. ASSUME NEW a \in Actors, Enqueue(a) PROVE HeldIsSpooled'
  <2>1. CASE CheckInflight(a)  BY <2>1, <1>0 DEF CheckInflight, Skip, HeldIsSpooled, Goto
  <2>2. CASE Push(a)
    <3>1. Range(queue') \subseteq Written(spoolFile)
      <4>1. PICK o \in todo[a] : queue' = Append(queue, SpoolRecord(o)) \/ queue' = queue
        BY <2>2 DEF Push
      <4>2. SpoolRecord(o) \in Ids  BY DEF WellFormed, OffsetsLocated
      <4>3. SpoolRecord(o) \in Written(spoolFile)  BY RecordIsWritten
      <4>4. Range(Append(queue, SpoolRecord(o))) = Range(queue) \cup {SpoolRecord(o)}
        BY <4>2, RangeAppend DEF WellFormed, TypeOK
      <4>5. QED  BY <4>1, <4>3, <4>4 DEF HeldIsSpooled
    <3>2. QED  BY <2>2, <3>1, <1>0 DEF Push, Skip, HeldIsSpooled, Goto
  <2>3. CASE MarkInflight(a)  BY <2>3, <1>0 DEF MarkInflight, Skip, HeldIsSpooled, Goto
  <2>4. CASE LoadBacklog(a)
    <3>1. a \notin Ingesters  BY <2>4 DEF LoadBacklog, WellFormed, EventInHand, IngestLabels
    <3>2. QED  BY <2>4, <3>1, <1>0 DEF LoadBacklog, HeldIsSpooled, Goto
  <2>5. CASE BacklogDone(a)  BY <2>5, <1>0 DEF BacklogDone, HeldIsSpooled, Goto
  <2>6. QED  BY <1>2, <2>1, <2>2, <2>3, <2>4, <2>5 DEF Enqueue
<1>3. CASE Work
  <2>1. CASE ReadConfig  BY <2>1, <1>0 DEF ReadConfig, HeldIsSpooled, Goto
  <2>2. CASE Pop
    <3>1. Range(pending') \subseteq Range(pending) \cup Range(queue)
      BY <2>2, RangeAppend, RangeTail, HeadTailProperties DEF Pop, WellFormed, TypeOK
    <3>2. Range(queue') \subseteq Range(queue)  BY <2>2, RangeTail DEF Pop, WellFormed, TypeOK
    <3>3. QED  BY <2>2, <3>1, <3>2 DEF Pop, HeldIsSpooled
  <2>3. CASE PopDone  BY <2>3, <1>0 DEF PopDone, HeldIsSpooled, Goto
  <2>4. CASE HoldBatch  BY <2>4, <1>0 DEF HoldBatch, HeldIsSpooled, Goto
  <2>5. CASE StartBatch
    <3>1. Range(pending') \subseteq Range(pending)
      BY <2>5 DEF StartBatch, Bijection, Injection, WellFormed, TypeOK, Range
    <3>2. QED  BY <2>5, <3>1, <1>0 DEF StartBatch, HeldIsSpooled, Goto
  <2>6. CASE SendOk  BY <2>6, <1>0 DEF SendOk, HeldIsSpooled, Goto
  <2>7. CASE SendError  BY <2>7, <1>0 DEF SendError, HeldIsSpooled, Goto
  <2>8. CASE MarkBatchForwarded  BY <2>8, <1>0 DEF MarkBatchForwarded, HeldIsSpooled, Goto
  <2>9. CASE MarkForwardedFails  BY <2>9, <1>0 DEF MarkForwardedFails, HeldIsSpooled, Goto
  <2>10. CASE ForgetInflight
    <3>1. Range(pending') = {}  BY <2>10 DEF ForgetInflight, Range
    <3>2. QED  BY <2>10, <3>1, <1>0 DEF ForgetInflight, HeldIsSpooled, Goto
  <2>11. QED
    BY <1>3, <2>1, <2>2, <2>3, <2>4, <2>5, <2>6, <2>7, <2>8, <2>9, <2>10 DEF Work, Send
<1>4. ASSUME NEW p \in Operators, Operate(p) PROVE HeldIsSpooled'
  BY <1>4, <1>0 DEF Operate, UpdateConfig, UpdateConfigFails, Flush, HeldIsSpooled, Goto
<1>5. CASE Crash
  <2>1. Range(queue') = {} /\ Range(pending') = {}  BY <1>5 DEF Crash, Range
  <2>2. \A i \in Ingesters : pc'[i] = "idle"  BY <1>5, <1>0 DEF Crash
  <2>3. QED  BY <2>1, <2>2 DEF HeldIsSpooled
<1>6. CASE UNCHANGED vars  BY <1>6 DEF HeldIsSpooled
<1>7. QED  BY <1>1, <1>2, <1>3, <1>4, <1>5, <1>6 DEF Next

LEMMA AlwaysHeldIsSpooled == Spec => []HeldIsSpooled
<1>1. WellFormed /\ HeldIsSpooled /\ [Next]_vars => HeldIsSpooled'  BY NextHeldIsSpooled
<1>2. QED  BY <1>1, InitHeldIsSpooled, AlwaysWellFormed, PTL DEF Spec

(* A pipeline step is a step of EventRelay or changes nothing EventRelay sees. *)
LEMMA StepRefinement ==
    WellFormed /\ HeldIsSpooled /\ [Next]_vars => [Relay!Next]_(Relay!vars)
<1> SUFFICES ASSUME WellFormed, HeldIsSpooled, [Next]_vars
             PROVE  Relay!Next \/ UNCHANGED Relay!vars
  OBVIOUS
<1> DEFINE Same == /\ Written(eventsFile') = Written(eventsFile)
                   /\ Written(spoolFile') = Written(spoolFile)
                   /\ UNCHANGED <<acked, forwarded>>
<1>0. Same => UNCHANGED Relay!vars  BY DEF Relay!vars, Written
<1>1. ASSUME NEW i \in Ingesters, Ingest(i) PROVE Relay!Next \/ Same
  <2>1. CASE StoreAppend(i)
    <3>1. ev[i] \in Ids /\ Written(eventsFile') = Written(eventsFile) \cup {ev[i]}
      <4>1. ev[i] \in Ids  BY <2>1 DEF StoreAppend, WellFormed, EventInHand
      <4>2. QED  BY <2>1, <4>1, WrittenAppend DEF StoreAppend, WellFormed, TypeOK
    <3>2. Relay!Store(ev[i])  BY <2>1, <3>1 DEF StoreAppend, Relay!Store, Written
    <3>3. QED  BY <3>1, <3>2 DEF Relay!Next
  <2>2. CASE SpoolAppend(i)
    <3>1. ev[i] \in Ids /\ Written(spoolFile') = Written(spoolFile) \cup {ev[i]}
      <4>1. ev[i] \in Ids  BY <2>2 DEF SpoolAppend, WellFormed, EventInHand
      <4>2. QED  BY <2>2, <4>1, WrittenAppend DEF SpoolAppend, WellFormed, TypeOK
    <3>2. Relay!Spool(ev[i])
      BY <2>2, <3>1 DEF SpoolAppend, Relay!Spool, HeldIsSpooled, Written
    <3>3. QED  BY <3>1, <3>2 DEF Relay!Next
  <2>3. CASE Answer(i)
    <3>1. ev[i] \in Ids /\ ev[i] \in Written(spoolFile)
      BY <2>3 DEF Answer, WellFormed, EventInHand, HeldIsSpooled
    <3>2. Relay!Acknowledge(ev[i])  BY <2>3, <3>1 DEF Answer, Relay!Acknowledge
    <3>3. QED  BY <3>1, <3>2 DEF Relay!Next
  <2>4. CASE StoreFail(i)
    BY <2>4, WrittenTorn DEF StoreFail, WellFormed, TypeOK
  <2>5. CASE SpoolFail(i)
    BY <2>5, WrittenTorn DEF SpoolFail, WellFormed, TypeOK
  <2>6. CASE (\E e \in Ids : Receive(i, e)) \/ RecordOffset(i) \/ CheckEnabled(i)
    BY <2>6 DEF Receive, RecordOffset, CheckEnabled
  <2>7. QED  BY <1>1, <2>1, <2>2, <2>3, <2>4, <2>5, <2>6 DEF Ingest
<1>2. ASSUME NEW a \in Actors, Enqueue(a) PROVE Same
  BY <1>2 DEF Enqueue, CheckInflight, Push, MarkInflight, LoadBacklog, BacklogDone
<1>3. CASE Work
  <2>1. CASE SendOk
    <3>1. pending[sendIndex + 1] \in Ids /\ pending[sendIndex + 1] \in Range(pending)
      BY <2>1, ElementOfSeq DEF SendOk, WellFormed, TypeOK, BatchInHand, Range
    <3>2. Relay!Forward(pending[sendIndex + 1])
      BY <2>1, <3>1 DEF SendOk, Relay!Forward, HeldIsSpooled
    <3>3. QED  BY <3>1, <3>2 DEF Relay!Next
  <2>2. CASE Work /\ ~SendOk
    BY <2>2, <1>0 DEF Work, Send, ReadConfig, Pop, PopDone, HoldBatch, StartBatch, SendError,
       MarkBatchForwarded, MarkForwardedFails, ForgetInflight
  <2>3. QED  BY <1>3, <2>1, <2>2
<1>4. ASSUME NEW p \in Operators, Operate(p) PROVE Same
  BY <1>4 DEF Operate, UpdateConfig, UpdateConfigFails, Flush
<1>5. CASE Crash
  <2>1. /\ eventsFile' \in {eventsFile, Append(eventsFile, Torn)}
        /\ spoolFile' \in {spoolFile, Append(spoolFile, Torn)}
        /\ UNCHANGED <<acked, forwarded>>
    BY <1>5 DEF Crash, Interrupted
  <2>2. QED  BY <2>1, <1>0, WrittenTorn DEF WellFormed, TypeOK
<1>6. CASE UNCHANGED vars  BY <1>6, <1>0
<1>7. QED  BY <1>0, <1>1, <1>2, <1>3, <1>4, <1>5, <1>6 DEF Next

LEMMA InitRefinement == Init => Relay!Init
BY DEF Init, Relay!Init, Written

(* The collector implements EventRelay: whatever fails, crashes or repeats,
   nothing is forwarded or acknowledged that is not in the spool, nothing is
   spooled that is not in the events file, and none of this is ever undone. *)
THEOREM Refinement == Spec => ImplementsEventRelay
BY InitRefinement, StepRefinement, AlwaysWellFormed, AlwaysHeldIsSpooled, PTL
   DEF Spec, ImplementsEventRelay, Relay!Spec
-----------------------------------------------------------------------------
(***************************************************************************)
(* The checkpoint: forwardBatch returns without an error only after every  *)
(* event of the batch was sent, and offsetByID names records of the very   *)
(* events of the batch.                                                    *)
(***************************************************************************)
SentIsForwarded ==
    /\ CheckpointIsForwarded
    /\ pc[Worker] = "send" => \A k \in 1 .. sendIndex : pending[k] \in forwarded
    /\ pc[Worker] = "checkpoint" => Range(pending) \subseteq forwarded

LEMMA NextSentIsForwarded == WellFormed /\ SentIsForwarded /\ [Next]_vars => SentIsForwarded'
<1> SUFFICES ASSUME WellFormed, SentIsForwarded, [Next]_vars PROVE SentIsForwarded'
  OBVIOUS
<1> USE ActorsAssumption
<1>0. /\ Worker \in Actors /\ Worker \notin Ingesters /\ Worker \notin Operators
      /\ Ingesters \subseteq Actors /\ Operators \subseteq Actors /\ pc \in [Actors -> Labels]
      /\ checkpoint \in Nat /\ spoolFile \in Seq(Ids \cup {Torn}) /\ Len(spoolFile) \in Nat
  BY DEF Actors, WellFormed, TypeOK
<1>1. ASSUME NEW i \in Ingesters, Ingest(i) PROVE SentIsForwarded'
  <2>1. pc'[Worker] = pc[Worker] /\ UNCHANGED <<checkpoint, pending, sendIndex, forwarded>>
    BY <1>0, <1>1 DEF Ingest, Receive, StoreAppend, StoreFail, SpoolAppend, SpoolFail,
       RecordOffset, CheckEnabled, Answer, Goto
  <2>2. /\ Len(spoolFile) <= Len(spoolFile') /\ Len(spoolFile') \in Nat
        /\ \A o \in Nat : o < Len(spoolFile) => spoolFile'[o + 1] = spoolFile[o + 1]
    <3>1. CASE SpoolAppend(i)
      <4>1. ev[i] \in Ids \cup {Torn}  BY <3>1 DEF SpoolAppend, WellFormed, EventInHand
      <4>2. QED  BY <1>0, <3>1, <4>1, AppendProperties DEF SpoolAppend
    <3>2. CASE SpoolFail(i)
      <4>1. spoolFile' \in Seq(Ids \cup {Torn})  BY <1>0, <3>2, TornAppend DEF SpoolFail
      <4>2. QED  BY <1>0, <3>2, <4>1, TornAppend DEF SpoolFail
    <3>3. CASE spoolFile' = spoolFile  BY <1>0, <3>3
    <3>4. QED
      BY <1>1, <3>1, <3>2, <3>3 DEF Ingest, Receive, StoreAppend, StoreFail, RecordOffset,
         CheckEnabled, Answer
  <2>3. CheckpointIsForwarded'
    BY <1>0, <2>1, <2>2 DEF SentIsForwarded, CheckpointIsForwarded, SpoolRecord
  <2>4. QED  BY <2>1, <2>3 DEF SentIsForwarded
<1>2. ASSUME NEW a \in Actors, Enqueue(a) PROVE SentIsForwarded'
  <2>1. /\ UNCHANGED <<checkpoint, spoolFile, pending, sendIndex, forwarded>>
        /\ pc'[Worker] \in {"send", "checkpoint"} => pc'[Worker] = pc[Worker]
    BY <1>0, <1>2 DEF Enqueue, CheckInflight, Push, MarkInflight, LoadBacklog, BacklogDone,
       Skip, Goto
  <2>2. QED  BY <2>1 DEF SentIsForwarded, CheckpointIsForwarded, SpoolRecord
<1>3. CASE Work
  <2>1. CASE ReadConfig \/ Pop \/ PopDone \/ HoldBatch \/ SendError \/ ForgetInflight
    <3>1. /\ UNCHANGED <<checkpoint, spoolFile, forwarded>>
          /\ pc'[Worker] \notin {"send", "checkpoint"}
      BY <1>0, <2>1 DEF ReadConfig, Pop, PopDone, HoldBatch, SendError, ForgetInflight, Goto
    <3>2. QED  BY <3>1 DEF SentIsForwarded, CheckpointIsForwarded, SpoolRecord
  <2>2. CASE StartBatch
    <3>1. /\ UNCHANGED <<checkpoint, spoolFile, forwarded>>
          /\ pc'[Worker] = "send" /\ sendIndex' = 0
      BY <1>0, <2>2 DEF StartBatch, Goto
    <3>2. QED  BY <3>1 DEF SentIsForwarded, CheckpointIsForwarded, SpoolRecord
  <2>3. CASE SendOk
    <3>1. /\ UNCHANGED <<checkpoint, spoolFile, pending>>
          /\ forwarded' = forwarded \cup {pending[sendIndex + 1]}
          /\ sendIndex' = sendIndex + 1 /\ sendIndex \in Nat
          /\ \A k \in 1 .. sendIndex : pending[k] \in forwarded
          /\ Len(pending) \in Nat /\ DOMAIN pending = 1 .. Len(pending)
      BY <2>3 DEF SendOk, SentIsForwarded, WellFormed, TypeOK
    <3>2. \A k \in 1 .. sendIndex' : pending'[k] \in forwarded'  BY <3>1
    <3>3. pc'[Worker] = "checkpoint" => sendIndex' = Len(pending')
      BY <1>0, <2>3, <3>1 DEF SendOk, Goto
    <3>4. CheckpointIsForwarded'
      BY <3>1 DEF SentIsForwarded, CheckpointIsForwarded, SpoolRecord
    <3>5. pc'[Worker] = "checkpoint" => Range(pending') \subseteq forwarded'
      BY <3>1, <3>2, <3>3 DEF Range
    <3>6. QED  BY <3>2, <3>4, <3>5 DEF SentIsForwarded
  <2>4. CASE MarkBatchForwarded
    <3>1. /\ UNCHANGED <<spoolFile, forwarded>> /\ pc'[Worker] = "forget"
          /\ Range(pending) \subseteq forwarded
          /\ checkpoint' = checkpoint \/ checkpoint' \in BatchOffsets
      BY <1>0, <2>4 DEF MarkBatchForwarded, SentIsForwarded, Goto
    <3>2. \A o \in BatchOffsets : o < Len(spoolFile) /\ SpoolRecord(o) \in forwarded
      <4>1. \A e \in Range(pending) : e \in Ids  BY RangeOfSeq DEF WellFormed, TypeOK
      <4>2. QED  BY <3>1, <4>1 DEF BatchOffsets, WellFormed, OffsetsLocated
    <3>3. CheckpointIsForwarded'
      BY <3>1, <3>2 DEF SentIsForwarded, CheckpointIsForwarded, SpoolRecord
    <3>4. QED  BY <3>1, <3>3 DEF SentIsForwarded
  <2>5. CASE MarkForwardedFails
    <3>1. /\ UNCHANGED <<spoolFile, forwarded>> /\ pc'[Worker] = "forget"
          /\ checkpoint' \in {checkpoint, 0}
      BY <1>0, <2>5 DEF MarkForwardedFails, Goto
    <3>2. QED  BY <3>1 DEF SentIsForwarded, CheckpointIsForwarded, SpoolRecord
  <2>6. QED  BY <1>3, <2>1, <2>2, <2>3, <2>4, <2>5 DEF Work, Send
<1>4. ASSUME NEW p \in Operators, Operate(p) PROVE SentIsForwarded'
  <2>1. /\ UNCHANGED <<checkpoint, spoolFile, pending, sendIndex, forwarded>>
        /\ pc'[Worker] = pc[Worker]
    BY <1>0, <1>4 DEF Operate, UpdateConfig, UpdateConfigFails, Flush, Goto
  <2>2. QED  BY <2>1 DEF SentIsForwarded, CheckpointIsForwarded, SpoolRecord
<1>5. CASE Crash
  <2>1. /\ checkpoint' \in {checkpoint, 0} /\ UNCHANGED forwarded
        /\ spoolFile' \in {spoolFile, Append(spoolFile, Torn)}
        /\ pc'[Worker] = "loop"
    BY <1>0, <1>5 DEF Crash, Interrupted
  <2>2. /\ Len(spoolFile) <= Len(spoolFile') /\ Len(spoolFile') \in Nat
        /\ \A o \in Nat : o < Len(spoolFile) => spoolFile'[o + 1] = spoolFile[o + 1]
    <3>1. spoolFile' \in Seq(Ids \cup {Torn})  BY <1>0, <2>1, TornAppend
    <3>2. spoolFile \in Seq(Ids \cup {Torn}) /\ spoolFile' \in {spoolFile, Append(spoolFile, Torn)}
      BY <1>0, <2>1
    <3>3. Len(spoolFile') \in Nat  BY <3>1
    <3>4. Len(spoolFile) <= Len(spoolFile')  BY ONLY <3>2, TornAppend
    <3>5. \A o \in Nat : o < Len(spoolFile) => spoolFile'[o + 1] = spoolFile[o + 1]
      BY ONLY <3>2, TornAppend
    <3>6. QED  BY <3>3, <3>4, <3>5
  <2>3. CheckpointIsForwarded'
    BY <1>0, <2>1, <2>2 DEF SentIsForwarded, CheckpointIsForwarded, SpoolRecord
  <2>4. QED  BY <2>1, <2>3 DEF SentIsForwarded
<1>6. CASE UNCHANGED vars  BY <1>6 DEF SentIsForwarded, CheckpointIsForwarded, SpoolRecord
<1>7. QED  BY <1>1, <1>2, <1>3, <1>4, <1>5, <1>6 DEF Next

(* The checkpoint always names a record that was forwarded, so what
   LoadPending skips at that offset needs no second delivery. *)
THEOREM CheckpointCorrect == Spec => []CheckpointIsForwarded
<1>1. Init => SentIsForwarded
  BY ActorsAssumption DEF Init, SentIsForwarded, CheckpointIsForwarded, Actors
<1>2. WellFormed /\ SentIsForwarded /\ [Next]_vars => SentIsForwarded'  BY NextSentIsForwarded
<1>3. SentIsForwarded => CheckpointIsForwarded  BY DEF SentIsForwarded
<1>4. QED  BY <1>1, <1>2, <1>3, AlwaysWellFormed, PTL DEF Spec
-----------------------------------------------------------------------------
(***************************************************************************)
(* Deduplication: seenIDs covers the readable records of the events file   *)
(* and the ids about to be appended to it, and these are all different.    *)
(***************************************************************************)
BeingStored(i) == pc[i] = "store"

SeenCovers ==
    /\ StoredOnce
    /\ Scannable(eventsFile) =>
          \A j \in DOMAIN eventsFile : Readable(eventsFile, j) =>
              /\ eventsFile[j] \in seenIDs
              /\ \A i \in Ingesters : BeingStored(i) => eventsFile[j] # ev[i]
    /\ \A i \in Ingesters : BeingStored(i) => ev[i] \in seenIDs
    /\ \A i, k \in Ingesters : BeingStored(i) /\ BeingStored(k) /\ ev[i] = ev[k] => i = k

(* An append leaves every earlier record as readable as it was. *)
LEMMA AppendReadable ==
    ASSUME NEW f \in Seq(Ids \cup {Torn}), NEW x \in Ids \cup {Torn}
    PROVE  /\ DOMAIN Append(f, x) = DOMAIN f \cup {Len(f) + 1}
           /\ Len(f) + 1 \notin DOMAIN f
           /\ Append(f, x)[Len(f) + 1] = x
           /\ \A j \in DOMAIN f :
                 /\ Append(f, x)[j] = f[j]
                 /\ Readable(Append(f, x), j) <=> Readable(f, j)
           /\ Scannable(Append(f, x)) => Scannable(f)
<1>1. /\ Len(f) \in Nat /\ DOMAIN f = 1 .. Len(f)
      /\ DOMAIN Append(f, x) = 1 .. Len(f) + 1
      /\ Append(f, x)[Len(f) + 1] = x
      /\ \A j \in 1 .. Len(f) : Append(f, x)[j] = f[j]
  BY AppendProperties
<1>2. \A j \in DOMAIN f : Readable(Append(f, x), j) <=> Readable(f, j)
  BY <1>1 DEF Readable
<1>3. Written(f) \subseteq Written(Append(f, x))  BY <1>1 DEF Written
<1>4. QED  BY <1>1, <1>2, <1>3 DEF Scannable

(* A torn write adds no readable record, so the parts of SeenCovers about the
   file survive it. *)
LEMMA TornReadable ==
    ASSUME NEW f \in Seq(Ids \cup {Torn}), NEW g, g \in {f, Append(f, Torn)}
    PROVE  /\ Scannable(g) => Scannable(f)
           /\ \A j \in DOMAIN g : Readable(g, j) =>
                 j \in DOMAIN f /\ Readable(f, j) /\ g[j] = f[j]
<1>1. CASE g = f  BY <1>1
<1>2. CASE g = Append(f, Torn)
  <2>1. Torn \in Ids \cup {Torn}  OBVIOUS
  <2>2. ~Readable(Append(f, Torn), Len(f) + 1)
    BY <2>1, AppendReadable, EventsAssumption DEF Readable
  <2>3. QED  BY <1>2, <2>1, <2>2, AppendReadable
<1>3. QED  BY <1>1, <1>2

LEMMA NextSeenCovers == WellFormed /\ SeenCovers /\ [Next]_vars => SeenCovers'
<1> SUFFICES ASSUME WellFormed, SeenCovers, [Next]_vars PROVE SeenCovers'
  OBVIOUS
<1> USE ActorsAssumption
<1>0. /\ Ingesters \subseteq Actors /\ pc \in [Actors -> Labels]
      /\ Worker \notin Ingesters /\ Operators \cap Ingesters = {}
      /\ ev \in [Ingesters -> Ids \cup {NoEvent}]
      /\ eventsFile \in Seq(Ids \cup {Torn})
  BY DEF Actors, WellFormed, TypeOK
<1>a. ASSUME UNCHANGED <<eventsFile, seenIDs>>,
             \A k \in Ingesters : BeingStored(k)' => BeingStored(k) /\ ev'[k] = ev[k]
      PROVE  SeenCovers'
  BY <1>a DEF SeenCovers, StoredOnce
<1>1. ASSUME NEW i \in Ingesters, Ingest(i) PROVE SeenCovers'
  <2>1. ASSUME NEW e \in Ids, Receive(i, e) PROVE SeenCovers'
    <3>1. /\ eventsFile' = eventsFile /\ seenIDs' = seenIDs \cup {e} /\ e \notin seenIDs
          /\ ev'[i] = e /\ ~BeingStored(i) /\ BeingStored(i)'
          /\ \A k \in Ingesters : k # i => (BeingStored(k)' <=> BeingStored(k)) /\ ev'[k] = ev[k]
      BY <1>0, <2>1 DEF Receive, Goto, BeingStored
    <3>2. StoredOnce'  BY <3>1 DEF SeenCovers, StoredOnce
    <3>3. \A k \in Ingesters : BeingStored(k)' => ev'[k] \in seenIDs'
      BY <3>1 DEF SeenCovers
    <3>4. \A k, l \in Ingesters :
            BeingStored(k)' /\ BeingStored(l)' /\ ev'[k] = ev'[l] => k = l
      BY <3>1 DEF SeenCovers
    <3>5. Scannable(eventsFile') =>
            \A j \in DOMAIN eventsFile' : Readable(eventsFile', j) =>
              /\ eventsFile'[j] \in seenIDs'
              /\ \A k \in Ingesters : BeingStored(k)' => eventsFile'[j] # ev'[k]
      BY <3>1 DEF SeenCovers
    <3>6. QED  BY <3>2, <3>3, <3>4, <3>5 DEF SeenCovers
  <2>2. CASE StoreAppend(i)
    <3>1. /\ ev[i] \in Ids /\ eventsFile' = Append(eventsFile, ev[i])
          /\ UNCHANGED <<seenIDs, ev>> /\ BeingStored(i) /\ ~BeingStored(i)'
          /\ \A k \in Ingesters : BeingStored(k)' => BeingStored(k) /\ k # i
      BY <1>0, <2>2 DEF StoreAppend, Goto, BeingStored, WellFormed, EventInHand
    <3> DEFINE last == Len(eventsFile) + 1
    <3>2. /\ DOMAIN eventsFile' = DOMAIN eventsFile \cup {last}
          /\ last \notin DOMAIN eventsFile
          /\ eventsFile'[last] = ev[i]
          /\ \A j \in DOMAIN eventsFile :
                eventsFile'[j] = eventsFile[j] /\ (Readable(eventsFile', j) <=> Readable(eventsFile, j))
          /\ Scannable(eventsFile') => Scannable(eventsFile)
      BY <1>0, <3>1, AppendReadable
    <3> HIDE DEF last
    <3>3. StoredOnce'
      BY <3>1, <3>2 DEF SeenCovers, StoredOnce
    <3>4. Scannable(eventsFile') =>
            \A j \in DOMAIN eventsFile' : Readable(eventsFile', j) =>
              /\ eventsFile'[j] \in seenIDs'
              /\ \A k \in Ingesters : BeingStored(k)' => eventsFile'[j] # ev'[k]
      BY <3>1, <3>2 DEF SeenCovers
    <3>5. QED  BY <3>1, <3>3, <3>4 DEF SeenCovers
  <2>3. CASE StoreFail(i)
    <3>1. /\ eventsFile' \in {eventsFile, Append(eventsFile, Torn)}
          /\ UNCHANGED seenIDs
          /\ \A k \in Ingesters : BeingStored(k)' => BeingStored(k) /\ ev'[k] = ev[k]
      BY <1>0, <2>3 DEF StoreFail, Goto, BeingStored
    <3>2. /\ Scannable(eventsFile') => Scannable(eventsFile)
          /\ \A j \in DOMAIN eventsFile' : Readable(eventsFile', j) =>
                /\ j \in DOMAIN eventsFile /\ Readable(eventsFile, j)
                /\ eventsFile'[j] = eventsFile[j]
      <4>1. eventsFile \in Seq(Ids \cup {Torn})  BY <1>0
      <4>2. eventsFile' \in {eventsFile, Append(eventsFile, Torn)}  BY <3>1
      <4>3. QED  BY ONLY <4>1, <4>2, TornReadable
    <3>3. StoredOnce'  BY <3>2 DEF SeenCovers, StoredOnce
    <3>4. QED  BY <3>1, <3>2, <3>3 DEF SeenCovers
  <2>4. CASE SpoolAppend(i) \/ SpoolFail(i) \/ RecordOffset(i) \/ CheckEnabled(i) \/ Answer(i)
    <3>1. /\ UNCHANGED <<eventsFile, seenIDs>>
          /\ \A k \in Ingesters : BeingStored(k)' => BeingStored(k) /\ ev'[k] = ev[k]
      BY <1>0, <2>4
      DEF SpoolAppend, SpoolFail, RecordOffset, CheckEnabled, Answer, Goto, BeingStored
    <3>2. QED  BY <3>1, <1>a
  <2>5. QED  BY <1>1, <2>1, <2>2, <2>3, <2>4 DEF Ingest
<1>2. ASSUME NEW a \in Actors, Enqueue(a) PROVE SeenCovers'
  <2>1. /\ UNCHANGED <<eventsFile, seenIDs>>
        /\ \A k \in Ingesters : BeingStored(k)' => BeingStored(k) /\ ev'[k] = ev[k]
    BY <1>0, <1>2 DEF Enqueue, CheckInflight, Push, MarkInflight, LoadBacklog, BacklogDone,
       Skip, Goto, BeingStored
  <2>2. QED  BY <2>1, <1>a
<1>3. CASE Work
  <2>1. /\ UNCHANGED <<eventsFile, seenIDs>>
        /\ \A k \in Ingesters : BeingStored(k)' => BeingStored(k) /\ ev'[k] = ev[k]
    BY <1>0, <1>3 DEF Work, Send, ReadConfig, Pop, PopDone, HoldBatch, StartBatch, SendOk,
       SendError, MarkBatchForwarded, MarkForwardedFails, ForgetInflight, Goto, BeingStored
  <2>2. QED  BY <2>1, <1>a
<1>4. ASSUME NEW p \in Operators, Operate(p) PROVE SeenCovers'
  <2>1. /\ UNCHANGED <<eventsFile, seenIDs>>
        /\ \A k \in Ingesters : BeingStored(k)' => BeingStored(k) /\ ev'[k] = ev[k]
    BY <1>0, <1>4 DEF Operate, UpdateConfig, UpdateConfigFails, Flush, Goto, BeingStored
  <2>2. QED  BY <2>1, <1>a
<1>5. CASE Crash
  <2>1. /\ eventsFile' \in {eventsFile, Append(eventsFile, Torn)}
        /\ seenIDs' = LoadIDSet(eventsFile')
        /\ \A k \in Ingesters : ~BeingStored(k)'
    BY <1>0, <1>5 DEF Crash, Interrupted, BeingStored
  <2>2. /\ Scannable(eventsFile') => Scannable(eventsFile)
        /\ \A j \in DOMAIN eventsFile' : Readable(eventsFile', j) =>
              /\ j \in DOMAIN eventsFile /\ Readable(eventsFile, j)
              /\ eventsFile'[j] = eventsFile[j]
    <3>1. eventsFile \in Seq(Ids \cup {Torn})  BY <1>0
    <3>2. eventsFile' \in {eventsFile, Append(eventsFile, Torn)}  BY <2>1
    <3>3. QED  BY ONLY <3>1, <3>2, TornReadable
  <2>3. StoredOnce'  BY <2>2 DEF SeenCovers, StoredOnce
  <2>4. Scannable(eventsFile') =>
          \A j \in DOMAIN eventsFile' : Readable(eventsFile', j) => eventsFile'[j] \in seenIDs'
    BY <2>1 DEF LoadIDSet
  <2>5. QED  BY <2>1, <2>3, <2>4 DEF SeenCovers
<1>6. CASE UNCHANGED vars  BY <1>6, <1>a DEF BeingStored
<1>7. QED  BY <1>1, <1>2, <1>3, <1>4, <1>5, <1>6 DEF Next

(* Deduplication by id is exact as long as the events file can be scanned:
   any number of goroutines, failed writes and restarts leave at most one
   readable record of an event. *)
THEOREM StoredAtMostOnce == Spec => []StoredOnce
<1>1. Init => SeenCovers
  BY ActorsAssumption DEF Init, SeenCovers, StoredOnce, BeingStored, Actors
<1>2. WellFormed /\ SeenCovers /\ [Next]_vars => SeenCovers'  BY NextSeenCovers
<1>3. SeenCovers => StoredOnce  BY DEF SeenCovers
<1>4. QED  BY <1>1, <1>2, <1>3, AlwaysWellFormed, PTL DEF Spec

(* The other half of the idempotency key: an id that is seen is in the events
   file or about to be, unless an append may fail. *)
SeenIsAccounted ==
    \A e \in seenIDs :
        e \in Written(eventsFile) \/ \E i \in Ingesters : BeingStored(i) /\ ev[i] = e

LEMMA NextSeenIsAccounted ==
    ASSUME "store" \notin MayFail, WellFormed, SeenIsAccounted, [Next]_vars
    PROVE  SeenIsAccounted'
<1> USE ActorsAssumption
<1>0. /\ Ingesters \subseteq Actors /\ pc \in [Actors -> Labels]
      /\ Worker \notin Ingesters /\ Operators \cap Ingesters = {}
      /\ ev \in [Ingesters -> Ids \cup {NoEvent}]
      /\ eventsFile \in Seq(Ids \cup {Torn})
  BY DEF Actors, WellFormed, TypeOK
<1>a. ASSUME UNCHANGED <<eventsFile, seenIDs>>,
             \A k \in Ingesters : BeingStored(k) => BeingStored(k)' /\ ev'[k] = ev[k]
      PROVE  SeenIsAccounted'
  BY <1>a DEF SeenIsAccounted, Written
<1>1. ASSUME NEW i \in Ingesters, Ingest(i) PROVE SeenIsAccounted'
  <2>1. ASSUME NEW e \in Ids, Receive(i, e) PROVE SeenIsAccounted'
    <3>1. /\ eventsFile' = eventsFile /\ seenIDs' = seenIDs \cup {e}
          /\ ev'[i] = e /\ ~BeingStored(i) /\ BeingStored(i)'
          /\ \A k \in Ingesters : k # i => (BeingStored(k)' <=> BeingStored(k)) /\ ev'[k] = ev[k]
      BY <1>0, <2>1 DEF Receive, Goto, BeingStored
    <3>2. QED  BY <3>1 DEF SeenIsAccounted, Written
  <2>2. CASE StoreAppend(i)
    <3>1. /\ ev[i] \in Ids /\ eventsFile' = Append(eventsFile, ev[i])
          /\ UNCHANGED <<seenIDs, ev>>
          /\ \A k \in Ingesters : k # i => (BeingStored(k)' <=> BeingStored(k))
      BY <1>0, <2>2 DEF StoreAppend, Goto, BeingStored, WellFormed, EventInHand
    <3>2. Written(eventsFile)' = Written(eventsFile) \cup {ev[i]}
      <4>1. Written(Append(eventsFile, ev[i])) = Written(eventsFile) \cup {ev[i]}
        BY <1>0, <3>1, WrittenAppend
      <4>2. QED  BY <3>1, <4>1 DEF Written
    <3>3. QED  BY <3>1, <3>2 DEF SeenIsAccounted
  <2>3. CASE SpoolAppend(i) \/ SpoolFail(i) \/ RecordOffset(i) \/ CheckEnabled(i) \/ Answer(i)
    <3>1. /\ UNCHANGED <<eventsFile, seenIDs>>
          /\ \A k \in Ingesters : BeingStored(k) => BeingStored(k)' /\ ev'[k] = ev[k]
      BY <1>0, <2>3
      DEF SpoolAppend, SpoolFail, RecordOffset, CheckEnabled, Answer, Goto, BeingStored
    <3>2. QED  BY <3>1, <1>a
  <2>4. ~StoreFail(i)  BY DEF StoreFail, Fail
  <2>5. QED  BY <1>1, <2>1, <2>2, <2>3, <2>4 DEF Ingest
<1>2. ASSUME NEW a \in Actors, Enqueue(a) PROVE SeenIsAccounted'
  <2>1. /\ UNCHANGED <<eventsFile, seenIDs>>
        /\ \A k \in Ingesters : BeingStored(k) => BeingStored(k)' /\ ev'[k] = ev[k]
    BY <1>0, <1>2 DEF Enqueue, CheckInflight, Push, MarkInflight, LoadBacklog, BacklogDone,
       Skip, Goto, BeingStored
  <2>2. QED  BY <2>1, <1>a
<1>3. CASE Work
  <2>1. /\ UNCHANGED <<eventsFile, seenIDs>>
        /\ \A k \in Ingesters : BeingStored(k) => BeingStored(k)' /\ ev'[k] = ev[k]
    BY <1>0, <1>3 DEF Work, Send, ReadConfig, Pop, PopDone, HoldBatch, StartBatch, SendOk,
       SendError, MarkBatchForwarded, MarkForwardedFails, ForgetInflight, Goto, BeingStored
  <2>2. QED  BY <2>1, <1>a
<1>4. ASSUME NEW p \in Operators, Operate(p) PROVE SeenIsAccounted'
  <2>1. /\ UNCHANGED <<eventsFile, seenIDs>>
        /\ \A k \in Ingesters : BeingStored(k) => BeingStored(k)' /\ ev'[k] = ev[k]
    BY <1>0, <1>4 DEF Operate, UpdateConfig, UpdateConfigFails, Flush, Goto, BeingStored
  <2>2. QED  BY <2>1, <1>a
<1>5. CASE Crash
  <2>1. /\ eventsFile' \in Seq(Ids \cup {Torn}) /\ seenIDs' = LoadIDSet(eventsFile')
    BY <1>0, <1>5, TornAppend DEF Crash, Interrupted
  <2>2. LoadIDSet(eventsFile') \subseteq Written(eventsFile')
    BY <2>1 DEF LoadIDSet, Written, Readable
  <2>3. QED  BY <2>1, <2>2 DEF SeenIsAccounted, Written
<1>6. CASE UNCHANGED vars  BY <1>6, <1>a DEF BeingStored
<1>7. QED  BY <1>1, <1>2, <1>3, <1>4, <1>5, <1>6 DEF Next

(* A failing append to the events file is the only thing that makes the
   collector answer "duplicate" for an event it does not have: with appends
   that succeed, every id in seenIDs is in the file whenever no ingestion is
   under way, whatever else fails and however often the process restarts. *)
THEOREM SeenIsStoredUnlessAppendsFail ==
    ASSUME "store" \notin MayFail
    PROVE  Spec => []SeenIsStored
<1>1. Init => SeenIsAccounted  BY DEF Init, SeenIsAccounted
<1>2. WellFormed /\ SeenIsAccounted /\ [Next]_vars => SeenIsAccounted'
  BY NextSeenIsAccounted
<1>3. SeenIsAccounted => SeenIsStored  BY DEF SeenIsAccounted, SeenIsStored, BeingStored
<1>4. QED  BY <1>1, <1>2, <1>3, AlwaysWellFormed, PTL DEF Spec
-----------------------------------------------------------------------------
(***************************************************************************)
(* The inflight marks.  The push precedes the mark, so while a goroutine   *)
(* stands between the two its event is already held, or even forwarded.    *)
(***************************************************************************)
HeldOrForwarded(e) == Held(e) \/ e \in forwarded

MarksAreHeld ==
    /\ \A e \in inflight : HeldOrForwarded(e)
    /\ \A a \in Actors : pc[a] = "mark" =>
          \A o \in todo[a] : IsNext(a, o) => HeldOrForwarded(SpoolRecord(o))
    /\ pc[Worker] = "forget" => Range(pending) \subseteq forwarded

LEMMA PushedIsHeld ==
    ASSUME WellFormed, NEW a \in Actors, NEW o \in todo[a]
    PROVE  /\ SpoolRecord(o) \in Ids
           /\ Range(Append(queue, SpoolRecord(o))) = Range(queue) \cup {SpoolRecord(o)}
<1>1. SpoolRecord(o) \in Ids  BY DEF WellFormed, OffsetsLocated
<1>2. QED  BY <1>1, RangeAppend DEF WellFormed, TypeOK

LEMMA NextMarksAreHeld ==
    WellFormed /\ SentIsForwarded /\ MarksAreHeld /\ [Next]_vars => MarksAreHeld'
<1> SUFFICES ASSUME WellFormed, SentIsForwarded, MarksAreHeld, [Next]_vars PROVE MarksAreHeld'
  OBVIOUS
<1> USE ActorsAssumption
<1>0. /\ Worker \in Actors /\ Worker \notin Ingesters /\ Worker \notin Operators
      /\ Ingesters \subseteq Actors /\ Operators \subseteq Actors
      /\ pc \in [Actors -> Labels] /\ todo \in [Actors -> SUBSET Nat]
  BY DEF Actors, WellFormed, TypeOK
(* A step that keeps the spooled records, the marks and what is held. *)
<1>a. ASSUME UNCHANGED inflight,
             \A e \in Ids : HeldOrForwarded(e) => HeldOrForwarded(e)',
             \A a \in Actors : pc'[a] = "mark" => pc[a] = "mark" /\ todo'[a] = todo[a],
             \A a \in Actors : \A o \in todo[a] : SpoolRecord(o)' = SpoolRecord(o),
             pc'[Worker] = "forget" => Range(pending') \subseteq forwarded'
      PROVE  MarksAreHeld'
  <2>1. \A e \in inflight' : HeldOrForwarded(e)'
    BY <1>a DEF MarksAreHeld, WellFormed, TypeOK
  <2>2. ASSUME NEW a \in Actors, pc'[a] = "mark", NEW o \in todo'[a], IsNext(a, o)'
        PROVE  HeldOrForwarded(SpoolRecord(o))'
    <3>1. pc[a] = "mark" /\ o \in todo[a] /\ IsNext(a, o)  BY <1>a, <2>2 DEF IsNext
    <3>2. SpoolRecord(o) \in Ids /\ HeldOrForwarded(SpoolRecord(o))
      BY <3>1 DEF MarksAreHeld, WellFormed, OffsetsLocated
    <3>3. SpoolRecord(o)' = SpoolRecord(o)  BY <1>a, <3>1
    <3>4. QED  BY <1>a, <3>2, <3>3 DEF HeldOrForwarded, Held
  <2>3. QED  BY <1>a, <2>1, <2>2 DEF MarksAreHeld
<1>1. ASSUME NEW i \in Ingesters, Ingest(i) PROVE MarksAreHeld'
  <2>1. /\ UNCHANGED <<inflight, queue, pending, forwarded>> /\ pc'[Worker] = pc[Worker]
        /\ \A a \in Actors : pc'[a] = "mark" => pc[a] = "mark" /\ todo'[a] = todo[a]
    BY <1>0, <1>1 DEF Ingest, Receive, StoreAppend, StoreFail, SpoolAppend, SpoolFail,
       RecordOffset, CheckEnabled, Answer, Goto
  <2>2. \A a \in Actors : \A o \in todo[a] : SpoolRecord(o)' = SpoolRecord(o)
    <3>1. \A a \in Actors : \A o \in todo[a] : o \in Nat /\ o < Len(spoolFile)
      BY <1>0 DEF WellFormed, OffsetsLocated
    <3>2. CASE SpoolAppend(i)
      <4>1. ev[i] \in Ids \cup {Torn}  BY <3>2 DEF SpoolAppend, WellFormed, EventInHand
      <4>2. QED
        BY <3>1, <3>2, <4>1, AppendProperties DEF SpoolAppend, SpoolRecord, WellFormed, TypeOK
    <3>3. CASE SpoolFail(i)
      BY <3>1, <3>3, TornAppend DEF SpoolFail, SpoolRecord, WellFormed, TypeOK
    <3>4. CASE spoolFile' = spoolFile  BY <3>4 DEF SpoolRecord
    <3>5. QED
      BY <1>1, <3>2, <3>3, <3>4 DEF Ingest, Receive, StoreAppend, StoreFail, RecordOffset,
         CheckEnabled, Answer
  <2>3. QED  BY <1>a, <2>1, <2>2 DEF HeldOrForwarded, Held, MarksAreHeld
<1>2. ASSUME NEW a \in Actors, Enqueue(a) PROVE MarksAreHeld'
  <2>0. UNCHANGED <<spoolFile, pending, forwarded>>
    BY <1>2 DEF Enqueue, CheckInflight, Push, MarkInflight, LoadBacklog, BacklogDone
  <2>1. CASE CheckInflight(a) \/ LoadBacklog(a) \/ BacklogDone(a)
    <3>1. /\ UNCHANGED <<inflight, queue>>
          /\ pc'[Worker] = "forget" => pc[Worker] = "forget"
          /\ \A b \in Actors : pc'[b] = "mark" => pc[b] = "mark" /\ todo'[b] = todo[b]
      BY <1>0, <2>1 DEF CheckInflight, LoadBacklog, BacklogDone, Skip, Goto
    <3>2. pc'[Worker] = "forget" => Range(pending') \subseteq forwarded'
      BY <2>0, <3>1 DEF MarksAreHeld
    <3>3. \A e \in Ids : HeldOrForwarded(e) => HeldOrForwarded(e)'
      BY <2>0, <3>1 DEF HeldOrForwarded, Held
    <3>4. \A b \in Actors : \A o \in todo[b] : SpoolRecord(o)' = SpoolRecord(o)
      BY <2>0 DEF SpoolRecord
    <3>5. QED  BY <1>a, <3>1, <3>2, <3>3, <3>4
  <2>2. CASE Push(a)
    <3>1. PICK o \in todo[a] :
            /\ IsNext(a, o)
            /\ \/ /\ queue' = Append(queue, SpoolRecord(o)) /\ UNCHANGED todo
                  /\ pc' = [pc EXCEPT ![a] = "mark"]
               \/ /\ queue' = queue /\ todo' = [todo EXCEPT ![a] = @ \ {o}]
                  /\ pc' = [pc EXCEPT ![a] = "check"]
      BY <2>2 DEF Push, Skip, Goto
    <3>2. UNCHANGED inflight /\ (pc'[Worker] = "forget" => pc[Worker] = "forget")
      BY <1>0, <2>2, <3>1 DEF Push
    <3>3. CASE queue' = queue /\ pc' = [pc EXCEPT ![a] = "check"] /\ todo' = [todo EXCEPT ![a] = @ \ {o}]
      <4>1. \A b \in Actors : pc'[b] = "mark" => pc[b] = "mark" /\ todo'[b] = todo[b]
        BY <1>0, <3>3
      <4>2. QED  BY <1>a, <2>0, <3>2, <3>3, <4>1 DEF HeldOrForwarded, Held, MarksAreHeld, SpoolRecord
    <3>4. CASE queue' = Append(queue, SpoolRecord(o)) /\ UNCHANGED todo /\ pc' = [pc EXCEPT ![a] = "mark"]
      <4>1. Range(queue') = Range(queue) \cup {SpoolRecord(o)}  BY <3>4, PushedIsHeld
      <4>2. \A e : HeldOrForwarded(e) => HeldOrForwarded(e)'
        BY <2>0, <4>1 DEF HeldOrForwarded, Held
      <4>3. \A e \in inflight' : HeldOrForwarded(e)'  BY <3>2, <4>2 DEF MarksAreHeld
      <4>4. ASSUME NEW b \in Actors, pc'[b] = "mark", NEW p \in todo'[b], IsNext(b, p)'
            PROVE  HeldOrForwarded(SpoolRecord(p))'
        <5>1. IsNext(b, p) /\ SpoolRecord(p)' = SpoolRecord(p)
          BY <2>0, <3>4, <4>4 DEF IsNext, SpoolRecord
        <5>2. CASE b = a
          <6>1. p = o  BY <1>0, <3>1, <5>1, <5>2 DEF IsNext
          <6>2. QED  BY <2>0, <4>1, <5>1, <6>1 DEF HeldOrForwarded, Held
        <5>3. CASE b # a
          <6>1. pc[b] = "mark" /\ p \in todo[b]  BY <1>0, <3>4, <4>4, <5>3
          <6>2. HeldOrForwarded(SpoolRecord(p))  BY <5>1, <6>1 DEF MarksAreHeld
          <6>3. QED  BY <2>0, <4>1, <5>1, <6>2 DEF HeldOrForwarded, Held
        <5>4. QED  BY <5>2, <5>3
      <4>5. QED  BY <2>0, <3>2, <4>3, <4>4 DEF MarksAreHeld
    <3>5. QED  BY <3>1, <3>3, <3>4
  <2>3. CASE MarkInflight(a)
    <3>1. PICK o \in todo[a] :
            /\ IsNext(a, o) /\ inflight' = inflight \cup {SpoolRecord(o)}
            /\ todo' = [todo EXCEPT ![a] = @ \ {o}] /\ pc' = [pc EXCEPT ![a] = "check"]
      BY <2>3 DEF MarkInflight, Skip, Goto
    <3>2. pc[a] = "mark" /\ queue' = queue  BY <2>3 DEF MarkInflight
    <3>3. \A e : HeldOrForwarded(e)' <=> HeldOrForwarded(e)
      BY <2>0, <3>2 DEF HeldOrForwarded, Held
    <3>4. \A e \in inflight' : HeldOrForwarded(e)'  BY <3>1, <3>2, <3>3 DEF MarksAreHeld
    <3>5. \A b \in Actors : pc'[b] = "mark" => pc[b] = "mark" /\ todo'[b] = todo[b]
      BY <1>0, <3>1
    <3>6. ASSUME NEW b \in Actors, pc'[b] = "mark", NEW p \in todo'[b], IsNext(b, p)'
          PROVE  HeldOrForwarded(SpoolRecord(p))'
      <4>1. pc[b] = "mark" /\ p \in todo[b] /\ IsNext(b, p) /\ SpoolRecord(p)' = SpoolRecord(p)
        BY <2>0, <3>5, <3>6 DEF IsNext, SpoolRecord
      <4>2. HeldOrForwarded(SpoolRecord(p))  BY <4>1 DEF MarksAreHeld
      <4>3. QED  BY <2>0, <3>2, <4>1, <4>2 DEF HeldOrForwarded, Held
    <3>7. pc'[Worker] = "forget" => Range(pending') \subseteq forwarded'
      BY <1>0, <2>0, <3>1 DEF MarksAreHeld
    <3>8. QED  BY <3>4, <3>6, <3>7 DEF MarksAreHeld
  <2>4. QED  BY <1>2, <2>1, <2>2, <2>3 DEF Enqueue
<1>3. CASE Work
  <2>0. /\ UNCHANGED <<spoolFile, todo>>
        /\ \A b \in Actors : pc'[b] = "mark" => pc[b] = "mark"
    BY <1>0, <1>3 DEF Work, Send, ReadConfig, Pop, PopDone, HoldBatch, StartBatch, SendOk,
       SendError, MarkBatchForwarded, MarkForwardedFails, ForgetInflight, Goto
  <2>1. CASE ReadConfig \/ PopDone \/ HoldBatch \/ SendOk \/ SendError
    <3>1. /\ UNCHANGED <<inflight, queue, pending>> /\ forwarded \subseteq forwarded'
          /\ pc'[Worker] # "forget"
      BY <1>0, <2>1 DEF ReadConfig, PopDone, HoldBatch, SendOk, SendError, Goto
    <3>2. QED  BY <1>a, <2>0, <3>1 DEF HeldOrForwarded, Held, SpoolRecord
  <2>2. CASE Pop
    <3>1. /\ UNCHANGED <<inflight, forwarded>> /\ pc'[Worker] # "forget"
          /\ queue # <<>> /\ queue \in Seq(Ids) /\ pending \in Seq(Ids)
          /\ pending' = Append(pending, Head(queue)) /\ queue' = Tail(queue)
      BY <2>2 DEF Pop, WellFormed, TypeOK
    <3>2. Range(pending') = Range(pending) \cup {Head(queue)}
      BY <3>1, RangeAppend, HeadTailProperties
    <3>3. Range(queue) \subseteq {Head(queue)} \cup Range(queue')  BY <3>1, RangeHeadTail
    <3>4. QED  BY <1>a, <2>0, <3>1, <3>2, <3>3 DEF HeldOrForwarded, Held, SpoolRecord
  <2>3. CASE StartBatch
    <3>1. PICK perm \in Bijection(DOMAIN pending, DOMAIN pending) :
            pending' = [i \in DOMAIN pending |-> pending[perm[i]]]
      BY <2>3 DEF StartBatch
    <3>2. Range(pending') = Range(pending)
      BY <3>1 DEF Range, Bijection, Surjection, Injection
    <3>3. UNCHANGED <<inflight, queue, forwarded>> /\ pc'[Worker] # "forget"
      BY <1>0, <2>3 DEF StartBatch, Goto
    <3>4. QED  BY <1>a, <2>0, <3>2, <3>3 DEF HeldOrForwarded, Held, SpoolRecord
  <2>4. CASE MarkBatchForwarded \/ MarkForwardedFails
    <3>1. UNCHANGED <<inflight, queue, pending, forwarded>> /\ Range(pending) \subseteq forwarded
      BY <2>4 DEF MarkBatchForwarded, MarkForwardedFails, SentIsForwarded
    <3>2. QED  BY <1>a, <2>0, <3>1 DEF HeldOrForwarded, Held, SpoolRecord
  <2>5. CASE ForgetInflight
    <3>1. /\ inflight' \subseteq inflight /\ UNCHANGED <<queue, forwarded>>
          /\ Range(pending) \subseteq forwarded /\ pc'[Worker] # "forget"
      BY <1>0, <2>5 DEF ForgetInflight, MarksAreHeld, Goto
    <3>2. \A e : HeldOrForwarded(e) => HeldOrForwarded(e)'
      BY <3>1 DEF HeldOrForwarded, Held
    <3>3. \A e \in inflight' : HeldOrForwarded(e)'  BY <3>1, <3>2 DEF MarksAreHeld
    <3>4. ASSUME NEW b \in Actors, pc'[b] = "mark", NEW p \in todo'[b], IsNext(b, p)'
          PROVE  HeldOrForwarded(SpoolRecord(p))'
      <4>1. pc[b] = "mark" /\ p \in todo[b] /\ IsNext(b, p) /\ SpoolRecord(p)' = SpoolRecord(p)
        BY <2>0, <3>4 DEF IsNext, SpoolRecord
      <4>2. HeldOrForwarded(SpoolRecord(p))  BY <4>1 DEF MarksAreHeld
      <4>3. QED  BY <3>1, <4>1, <4>2 DEF HeldOrForwarded, Held
    <3>5. QED  BY <3>1, <3>3, <3>4 DEF MarksAreHeld
  <2>6. QED  BY <1>3, <2>1, <2>2, <2>3, <2>4, <2>5 DEF Work, Send
<1>4. ASSUME NEW p \in Operators, Operate(p) PROVE MarksAreHeld'
  <2>1. /\ UNCHANGED <<spoolFile, inflight, queue, pending, forwarded, todo>>
        /\ pc'[Worker] = pc[Worker]
        /\ \A b \in Actors : pc'[b] = "mark" => pc[b] = "mark"
    BY <1>0, <1>4 DEF Operate, UpdateConfig, UpdateConfigFails, Flush, Goto
  <2>2. QED  BY <1>a, <2>1 DEF HeldOrForwarded, Held, MarksAreHeld, SpoolRecord
<1>5. CASE Crash
  <2>1. inflight' = {} /\ pc' \in [Actors -> {"loop", "check", "idle"}]  BY <1>5 DEF Crash
  <2>2. QED  BY <1>0, <2>1 DEF MarksAreHeld
<1>6. CASE UNCHANGED vars
  BY <1>6, <1>a DEF HeldOrForwarded, Held, MarksAreHeld, SpoolRecord
<1>7. QED  BY <1>1, <1>2, <1>3, <1>4, <1>5, <1>6 DEF Next

(* No order of pushes, marks, sends and forgetInflight leaves an id marked
   inflight while its event is neither queued, nor in the worker's batch, nor
   forwarded: marks never lock an event out of the queue. *)
THEOREM InflightCorrect == Spec => []InflightIsHeld
<1>1. Init => SentIsForwarded /\ MarksAreHeld
  BY ActorsAssumption
  DEF Init, SentIsForwarded, CheckpointIsForwarded, MarksAreHeld, Actors
<1>2. WellFormed /\ SentIsForwarded /\ [Next]_vars => SentIsForwarded'  BY NextSentIsForwarded
<1>3. WellFormed /\ SentIsForwarded /\ MarksAreHeld /\ [Next]_vars => MarksAreHeld'
  BY NextMarksAreHeld
<1>4. MarksAreHeld => InflightIsHeld  BY DEF MarksAreHeld, InflightIsHeld, HeldOrForwarded
<1>5. QED  BY <1>1, <1>2, <1>3, <1>4, AlwaysWellFormed, PTL DEF Spec
-----------------------------------------------------------------------------
(***************************************************************************)
(* Pausing.  Once a batch was started under a pause, the worker reads the  *)
(* paused configuration before it decides about the next one, and only an  *)
(* update that ends the pause, which resets the count, or a restart gives  *)
(* it another.                                                             *)
(***************************************************************************)
PauseIsSeen ==
    /\ PauseTakesEffect
    /\ pausedStarts > 0 =>
          config.paused /\ (pc[Worker] \in {"pop", "decide"} => workerConfig.paused)

LEMMA NextPauseIsSeen == WellFormed /\ PauseIsSeen /\ [Next]_vars => PauseIsSeen'
<1> SUFFICES ASSUME WellFormed, PauseIsSeen, [Next]_vars PROVE PauseIsSeen'
  OBVIOUS
<1> USE ActorsAssumption
<1>0. /\ Worker \in Actors /\ Worker \notin Ingesters /\ Worker \notin Operators
      /\ Ingesters \subseteq Actors /\ Operators \subseteq Actors
      /\ pc \in [Actors -> Labels] /\ pausedStarts \in Nat
  BY DEF Actors, WellFormed, TypeOK
(* A step that leaves the configurations alone and does not leave the loop. *)
<1>a. ASSUME UNCHANGED <<config, workerConfig, pausedStarts>>,
             pc'[Worker] \in {"pop", "decide"} => pc[Worker] \in {"pop", "decide"}
      PROVE  PauseIsSeen'
  BY <1>a DEF PauseIsSeen, PauseTakesEffect
<1>1. ASSUME NEW i \in Ingesters, Ingest(i) PROVE PauseIsSeen'
  <2>1. UNCHANGED <<config, workerConfig, pausedStarts>> /\ pc'[Worker] = pc[Worker]
    BY <1>0, <1>1 DEF Ingest, Receive, StoreAppend, StoreFail, SpoolAppend, SpoolFail,
       RecordOffset, CheckEnabled, Answer, Goto
  <2>2. QED  BY <1>a, <2>1
<1>2. ASSUME NEW a \in Actors, Enqueue(a) PROVE PauseIsSeen'
  <2>1. UNCHANGED <<config, workerConfig, pausedStarts>>
    BY <1>2 DEF Enqueue, CheckInflight, Push, MarkInflight, LoadBacklog, BacklogDone
  <2>2. pc'[Worker] \in {"pop", "decide"} => pc[Worker] \in {"pop", "decide"}
    BY <1>0, <1>2 DEF Enqueue, CheckInflight, Push, MarkInflight, LoadBacklog, BacklogDone,
       Skip, Goto
  <2>3. QED  BY <1>a, <2>1, <2>2
<1>3. CASE Work
  <2>1. CASE ReadConfig
    BY <1>0, <2>1 DEF ReadConfig, PauseIsSeen, PauseTakesEffect
  <2>2. CASE StartBatch
    <3>1. pausedStarts = 0 \/ ~config.paused
      BY <1>0, <2>2 DEF StartBatch, IsForwardingEnabled, PauseIsSeen
    <3>2. /\ pausedStarts' = IF config.paused THEN pausedStarts + 1 ELSE pausedStarts
          /\ config' = config /\ pc'[Worker] = "send"
      BY <1>0, <2>2 DEF StartBatch, Goto
    <3>3. QED  BY <1>0, <3>1, <3>2 DEF PauseIsSeen, PauseTakesEffect
  <2>3. CASE ~ReadConfig /\ ~StartBatch
    <3>1. UNCHANGED <<config, workerConfig, pausedStarts>>
      BY <1>3, <2>3 DEF Work, Send, Pop, PopDone, HoldBatch, SendOk, SendError,
         MarkBatchForwarded, MarkForwardedFails, ForgetInflight
    <3>2. pc'[Worker] \in {"pop", "decide"} => pc[Worker] \in {"pop", "decide"}
      BY <1>0, <1>3, <2>3 DEF Work, Send, Pop, PopDone, HoldBatch, SendOk, SendError,
         MarkBatchForwarded, MarkForwardedFails, ForgetInflight, Goto
    <3>3. QED  BY <1>a, <3>1, <3>2
  <2>4. QED  BY <2>1, <2>2, <2>3
<1>4. ASSUME NEW p \in Operators, Operate(p) PROVE PauseIsSeen'
  <2>1. /\ workerConfig' = workerConfig /\ pc'[Worker] = pc[Worker]
        /\ \/ UNCHANGED <<config, pausedStarts>>
           \/ pausedStarts' = IF config'.paused THEN pausedStarts ELSE 0
    BY <1>0, <1>4 DEF Operate, UpdateConfig, UpdateConfigFails, Flush, Goto
  <2>2. QED  BY <1>0, <2>1 DEF PauseIsSeen, PauseTakesEffect
<1>5. CASE Crash
  BY <1>5 DEF Crash, PauseIsSeen, PauseTakesEffect
<1>6. CASE UNCHANGED vars
  BY <1>6, <1>a
<1>7. QED  BY <1>1, <1>2, <1>3, <1>4, <1>5, <1>6 DEF Next

(* At most one batch is started while forwarding is paused: the worker's copy
   of the configuration is stale for one iteration of its loop only. *)
THEOREM PauseCorrect == Spec => []PauseTakesEffect
<1>1. Init => PauseIsSeen  BY DEF Init, PauseIsSeen, PauseTakesEffect
<1>2. WellFormed /\ PauseIsSeen /\ [Next]_vars => PauseIsSeen'  BY NextPauseIsSeen
<1>3. PauseIsSeen => PauseTakesEffect  BY DEF PauseIsSeen
<1>4. QED  BY <1>1, <1>2, <1>3, AlwaysWellFormed, PTL DEF Spec
-----------------------------------------------------------------------------
(***************************************************************************)
(* The backlog.  When no push meets a full queue and no write of the       *)
(* configuration fails, a record leaves a goroutine's hands only for the   *)
(* queue, the worker or the destination, unless forwarding is off; and     *)
(* whatever turns it on again loads the spool.                             *)
(***************************************************************************)
QueueHasRoom == \A a \in Actors : pc[a] = "push" => Len(queue) < QueueCap

Covered(o) == HeldOrForwarded(SpoolRecord(o)) \/ \E a \in Actors : o \in todo[a]

AllCovered ==
    IsForwardingEnabled(config) /\ ~LoadDue =>
        \A o \in LoadPending(spoolFile, checkpoint) : Covered(o)

(* A restart finds the configuration that was in force, and an ingester that is about
   to append to the spool has nothing to enqueue that the new record could replace. *)
BacklogCovered ==
    /\ savedConfig = config
    /\ \A i \in Ingesters : pc[i] \in {"idle", "store", "spool"} => todo[i] = {}
    /\ AllCovered

(* Of a fragment that is appended, only the record itself becomes pending. *)
LEMMA PendingAppend ==
    ASSUME NEW f \in Seq(Ids \cup {Torn}), NEW n \in Nat, NEW x \in Ids \cup {Torn}
    PROVE  LoadPending(Append(f, x), n)
              \subseteq LoadPending(f, n) \cup (IF x = Torn THEN {} ELSE {Len(f)})
<1> DEFINE g == Append(f, x)
<1>1. Len(f) \in Nat /\ Len(g) = Len(f) + 1 /\ DOMAIN f = 1 .. Len(f)
  BY AppendProperties
<1>2. /\ g[Len(f) + 1] = x /\ (Scannable(g) => Scannable(f))
      /\ \A j \in DOMAIN f : Readable(g, j) <=> Readable(f, j)
  BY AppendReadable
<1> HIDE DEF g
<1>3. ~Readable(g, Len(f) + 1) \/ x # Torn
  BY <1>2, EventsAssumption DEF Readable
<1> QED BY <1>1, <1>2, <1>3 DEF LoadPending, g

(* The spool is loaded, and every pending record is in somebody's hands. *)
LEMMA LoadCovers ==
    ASSUME WellFormed, NEW a \in Actors, LoadBacklog(a) PROVE AllCovered'
<1>1. todo'[a] = LoadPending(spoolFile, checkpoint) /\ UNCHANGED <<spoolFile, checkpoint>>
  BY DEF LoadBacklog, WellFormed, TypeOK
<1> QED BY <1>1 DEF AllCovered, Covered, LoadPending, Readable, Scannable, Written

(* A step that neither changes the spool, the checkpoint and the configuration nor ends a
   load keeps every record covered if it keeps what is held, and if what it takes from a
   goroutine's hands is held by then. *)
LEMMA CoverKept ==
    ASSUME WellFormed, AllCovered,
           UNCHANGED <<config, spoolFile, checkpoint>>, LoadDue => LoadDue',
           \A e \in Ids : HeldOrForwarded(e) => HeldOrForwarded(e)',
           \A a \in Actors : \A o \in todo[a] :
              o \in todo'[a] \/ HeldOrForwarded(SpoolRecord(o))'
    PROVE  AllCovered'
<1> SUFFICES ASSUME IsForwardingEnabled(config'), ~LoadDue',
                    NEW o \in LoadPending(spoolFile, checkpoint)
             PROVE  Covered(o)'
  BY DEF AllCovered
<1>1. Covered(o)
  BY DEF AllCovered
<1>2. SpoolRecord(o) \in Ids /\ SpoolRecord(o)' = SpoolRecord(o)
  BY LoadedOffsets DEF WellFormed, TypeOK, SpoolRecord
<1> QED BY <1>1, <1>2 DEF Covered

(* The same for a step that appends to the spool. *)
LEMMA AppendCovers ==
    ASSUME WellFormed, AllCovered, NEW x \in Ids \cup {Torn},
           spoolFile' = Append(spoolFile, x), LoadDue => LoadDue',
           UNCHANGED <<config, checkpoint, queue, pending, forwarded>>,
           \A a \in Actors : todo[a] \subseteq todo'[a],
           x # Torn => \E a \in Actors : Len(spoolFile) \in todo'[a]
    PROVE  AllCovered'
<1> SUFFICES ASSUME IsForwardingEnabled(config'), ~LoadDue',
                    NEW o \in LoadPending(spoolFile', checkpoint)
             PROVE  Covered(o)'
  BY DEF AllCovered
<1>1. o \in LoadPending(spoolFile, checkpoint) \/ (x # Torn /\ o = Len(spoolFile))
  BY PendingAppend DEF WellFormed, TypeOK
<1>2. CASE o \in LoadPending(spoolFile, checkpoint)
  <2>1. Covered(o)
    BY <1>2 DEF AllCovered
  <2>2. o \in Nat /\ o < Len(spoolFile)
    BY <1>2, LoadedOffsets DEF WellFormed, TypeOK
  <2>3. SpoolRecord(o)' = SpoolRecord(o)
    BY <2>2, AppendProperties DEF WellFormed, TypeOK, SpoolRecord
  <2> QED BY <2>1, <2>3 DEF Covered, HeldOrForwarded, Held
<1> QED BY <1>1, <1>2 DEF Covered

LEMMA IngestCovers ==
    ASSUME WellFormed, BacklogCovered, NEW i \in Ingesters, Ingest(i) PROVE BacklogCovered'
<1> USE ActorsAssumption
<1>0. /\ i \in Actors /\ i # Worker /\ Worker \in Actors /\ Ingesters \subseteq Actors
      /\ pc \in [Actors -> Labels] /\ todo \in [Actors -> SUBSET Nat] /\ pc[i] # "load"
  BY DEF Actors, WellFormed, TypeOK, EventInHand, IngestLabels
<1>1. /\ UNCHANGED <<config, savedConfig, checkpoint, queue, pending, forwarded>>
      /\ \A a \in Actors \ {i} : pc'[a] = pc[a]
  BY <1>0 DEF Ingest, Receive, StoreAppend, StoreFail, SpoolAppend, SpoolFail, RecordOffset,
     CheckEnabled, Answer, Goto
<1>2. LoadDue => LoadDue'
  BY <1>0, <1>1 DEF LoadDue
<1>3. \A j \in Ingesters : pc'[j] \in {"idle", "store", "spool"} => todo'[j] = {}
  BY <1>0 DEF BacklogCovered, Ingest, Receive, StoreAppend, StoreFail, SpoolAppend, SpoolFail,
     RecordOffset, CheckEnabled, Answer, Goto
<1>4. AllCovered'
  <2>1. CASE SpoolAppend(i)
    <3>1. todo[i] = {} /\ ev[i] \in Ids
      BY <2>1 DEF SpoolAppend, BacklogCovered, WellFormed, EventInHand
    <3>2. spoolFile' = Append(spoolFile, ev[i]) /\ todo' = [todo EXCEPT ![i] = {Len(spoolFile)}]
      BY <2>1 DEF SpoolAppend
    <3> QED BY <1>0, <1>1, <1>2, <3>1, <3>2, AppendCovers DEF BacklogCovered
  <2>2. CASE SpoolFail(i)
    <3>1. spoolFile' \in {spoolFile, Append(spoolFile, Torn)} /\ todo' = todo
      BY <2>2 DEF SpoolFail
    <3>2. CASE spoolFile' = spoolFile
      BY <1>1, <1>2, <3>1, <3>2, CoverKept DEF BacklogCovered, HeldOrForwarded, Held
    <3>3. CASE spoolFile' = Append(spoolFile, Torn)
      BY <1>1, <1>2, <3>1, <3>3, AppendCovers DEF BacklogCovered
    <3> QED BY <3>1, <3>2, <3>3
  <2>3. CASE CheckEnabled(i) /\ ~IsForwardingEnabled(config)
    BY <1>1, <2>3 DEF AllCovered
  <2>4. CASE ~SpoolAppend(i) /\ ~SpoolFail(i) /\ (CheckEnabled(i) => IsForwardingEnabled(config))
    <3>1. UNCHANGED <<spoolFile, todo>>
      BY <2>4 DEF Ingest, Receive, StoreAppend, StoreFail, RecordOffset, CheckEnabled, Answer
    <3> QED BY <1>1, <1>2, <3>1, CoverKept DEF BacklogCovered, HeldOrForwarded, Held
  <2> QED BY <2>1, <2>2, <2>3, <2>4
<1> QED BY <1>1, <1>3, <1>4 DEF BacklogCovered

(* enqueueIfNeeded lets a record go only when it is held or has been forwarded. *)
LEMMA EnqueueCovers ==
    ASSUME WellFormed, MarksAreHeld, QueueHasRoom, BacklogCovered,
           NEW a \in Actors, Enqueue(a)
    PROVE  BacklogCovered'
<1> USE ActorsAssumption
<1>0. /\ Worker \in Actors /\ Worker \notin Ingesters /\ Ingesters \subseteq Actors
      /\ pc \in [Actors -> Labels] /\ todo \in [Actors -> SUBSET Nat]
  BY DEF Actors, WellFormed, TypeOK
<1>1. UNCHANGED <<config, savedConfig, spoolFile, checkpoint, pending, forwarded>>
  BY DEF Enqueue, CheckInflight, Push, MarkInflight, LoadBacklog, BacklogDone
<1>2. \A i \in Ingesters : pc'[i] \in {"idle", "store", "spool"} => todo'[i] = {}
  <2>1. a \in Ingesters => pc[a] # "load"
    BY DEF WellFormed, EventInHand, IngestLabels
  <2> QED BY <1>0, <2>1 DEF BacklogCovered, Enqueue, CheckInflight, Push, MarkInflight,
             LoadBacklog, BacklogDone, Skip, Goto
<1>3. CASE LoadBacklog(a)
  BY <1>1, <1>2, <1>3, LoadCovers DEF BacklogCovered
<1>4. CASE ~LoadBacklog(a)
  <2>1. LoadDue => LoadDue'
    BY <1>0, <1>4 DEF LoadDue, Enqueue, CheckInflight, Push, MarkInflight, BacklogDone, Skip, Goto
  <2>2. Range(queue) \subseteq Range(queue')
    <3>1. CASE Push(a)
      <4>1. PICK o \in todo[a] : queue' \in {queue, Append(queue, SpoolRecord(o))}
        BY <3>1 DEF Push
      <4> QED BY <4>1, PushedIsHeld
    <3> QED BY <1>4, <3>1 DEF Enqueue, CheckInflight, MarkInflight, BacklogDone
  <2>3. \A e : HeldOrForwarded(e) => HeldOrForwarded(e)'
    BY <1>1, <2>2 DEF HeldOrForwarded, Held
  <2>4. ASSUME NEW b \in Actors, NEW o \in todo[b]
        PROVE  o \in todo'[b] \/ HeldOrForwarded(SpoolRecord(o))
    <3>1. CASE CheckInflight(a)
      BY <1>0, <3>1 DEF CheckInflight, Skip, Goto, MarksAreHeld
    <3>2. CASE Push(a)
      BY <1>0, <3>2 DEF Push, QueueHasRoom
    <3>3. CASE MarkInflight(a)
      BY <1>0, <3>3 DEF MarkInflight, Skip, MarksAreHeld
    <3> QED BY <1>4, <3>1, <3>2, <3>3 DEF Enqueue, BacklogDone
  <2>5. \A b \in Actors : \A o \in todo[b] :
           o \in todo'[b] \/ HeldOrForwarded(SpoolRecord(o))'
    BY <1>1, <2>3, <2>4 DEF SpoolRecord
  <2> QED BY <1>1, <1>2, <2>1, <2>3, <2>5, CoverKept DEF BacklogCovered
<1> QED BY <1>3, <1>4

(* What the queue or the worker holds stays held until it has been forwarded. *)
LEMMA WorkKeepsHeld ==
    ASSUME WellFormed, MarksAreHeld, Work
    PROVE  \A e : HeldOrForwarded(e) => HeldOrForwarded(e)'
<1>1. CASE Pop
  <2>1. /\ queue # <<>> /\ queue \in Seq(Ids) /\ pending \in Seq(Ids)
        /\ pending' = Append(pending, Head(queue)) /\ queue' = Tail(queue)
        /\ forwarded' = forwarded
    BY <1>1 DEF Pop, WellFormed, TypeOK
  <2>2. Range(pending') = Range(pending) \cup {Head(queue)}
    BY <2>1, RangeAppend, HeadTailProperties
  <2>3. Range(queue) \subseteq {Head(queue)} \cup Range(queue')
    BY <2>1, RangeHeadTail
  <2> QED BY <2>1, <2>2, <2>3 DEF HeldOrForwarded, Held
<1>2. CASE StartBatch
  <2>1. PICK perm \in Bijection(DOMAIN pending, DOMAIN pending) :
          pending' = [i \in DOMAIN pending |-> pending[perm[i]]]
    BY <1>2 DEF StartBatch
  <2>2. Range(pending') = Range(pending)
    BY <2>1 DEF Range, Bijection, Surjection, Injection
  <2> QED BY <1>2, <2>2 DEF StartBatch, HeldOrForwarded, Held
<1>3. CASE ForgetInflight
  <2>1. Range(pending) \subseteq forwarded /\ UNCHANGED <<queue, forwarded>>
    BY <1>3 DEF ForgetInflight, MarksAreHeld
  <2> QED BY <2>1 DEF HeldOrForwarded, Held
<1>4. CASE ReadConfig \/ PopDone \/ HoldBatch \/ SendOk \/ SendError
           \/ MarkBatchForwarded \/ MarkForwardedFails
  <2>1. UNCHANGED <<queue, pending>> /\ forwarded \subseteq forwarded'
    BY <1>4 DEF ReadConfig, PopDone, HoldBatch, SendOk, SendError, MarkBatchForwarded,
       MarkForwardedFails
  <2> QED BY <2>1 DEF HeldOrForwarded, Held
<1> QED BY <1>1, <1>2, <1>3, <1>4 DEF Work, Send

(* The worker forgets a batch only when all of it has been forwarded, and what its
   checkpoint, written back or unreadable, brings back is loaded next. *)
LEMMA WorkCovers ==
    ASSUME WellFormed, MarksAreHeld, BacklogCovered, Work PROVE BacklogCovered'
<1> USE ActorsAssumption
<1>0. /\ Worker \in Actors /\ Worker \notin Ingesters /\ Ingesters \subseteq Actors
      /\ pc \in [Actors -> Labels]
  BY DEF Actors, WellFormed, TypeOK
<1>1. /\ UNCHANGED <<config, savedConfig, spoolFile, todo>>
      /\ \A a \in Actors \ {Worker} : pc'[a] = pc[a]
      /\ pc[Worker] # "load" /\ (pc[Worker] = "forget" => pc'[Worker] = "load")
  BY <1>0 DEF Work, Send, ReadConfig, Pop, PopDone, HoldBatch, StartBatch, SendOk, SendError,
     MarkBatchForwarded, MarkForwardedFails, ForgetInflight, Goto
<1>2. \A i \in Ingesters : pc'[i] \in {"idle", "store", "spool"} => todo'[i] = {}
  BY <1>0, <1>1 DEF BacklogCovered
<1>3. LoadDue => LoadDue'
  BY <1>0, <1>1 DEF LoadDue
<1>4. CASE MarkBatchForwarded \/ MarkForwardedFails \/ ForgetInflight
  <2>1. LoadDue'
    BY <1>0, <1>4 DEF MarkBatchForwarded, MarkForwardedFails, ForgetInflight, LoadDue, Goto
  <2> QED BY <1>1, <1>2, <2>1 DEF BacklogCovered, AllCovered
<1>5. CASE ~(MarkBatchForwarded \/ MarkForwardedFails \/ ForgetInflight)
  <2>1. checkpoint' = checkpoint
    BY <1>5 DEF Work, Send, ReadConfig, Pop, PopDone, HoldBatch, StartBatch, SendOk, SendError
  <2>2. \A e : HeldOrForwarded(e) => HeldOrForwarded(e)'
    BY WorkKeepsHeld
  <2> QED BY <1>1, <1>2, <1>3, <2>1, <2>2, CoverKept DEF BacklogCovered
<1> QED BY <1>4, <1>5

(* Turning forwarding on makes a load due, and a restart with forwarding on loads all. *)
LEMMA OperateCovers ==
    ASSUME "config" \notin MayFail, WellFormed, BacklogCovered,
           NEW p \in Operators, Operate(p)
    PROVE  BacklogCovered'
<1> USE ActorsAssumption
<1>0. /\ p \in Actors /\ p # Worker /\ p \notin Ingesters /\ Worker \in Actors
      /\ Ingesters \subseteq Actors /\ pc \in [Actors -> Labels]
  BY DEF Actors, WellFormed, TypeOK
<1>1. /\ UNCHANGED <<spoolFile, checkpoint, queue, pending, forwarded, todo>>
      /\ \A a \in Actors \ {p} : pc'[a] = pc[a]
      /\ pc[p] = "idle"
      /\ \/ UNCHANGED <<config, savedConfig>>
         \/ /\ savedConfig' = config'
            /\ IsForwardingEnabled(config') => pc'[p] = "load"
  BY <1>0 DEF Operate, UpdateConfig, UpdateConfigFails, Flush, Goto, Fail, LoadsBacklog,
     IsForwardingEnabled
<1>2. \A i \in Ingesters : pc'[i] \in {"idle", "store", "spool"} => todo'[i] = {}
  BY <1>0, <1>1 DEF BacklogCovered
<1>3. CASE UNCHANGED <<config, savedConfig>>
  <2>1. LoadDue => LoadDue'
    BY <1>0, <1>1 DEF LoadDue
  <2> QED BY <1>1, <1>2, <1>3, <2>1, CoverKept DEF BacklogCovered, HeldOrForwarded, Held
<1>4. CASE savedConfig' = config' /\ (IsForwardingEnabled(config') => pc'[p] = "load")
  BY <1>0, <1>2, <1>4 DEF BacklogCovered, AllCovered, LoadDue, IsForwardingEnabled
<1> QED BY <1>1, <1>3, <1>4

LEMMA CrashCovers == ASSUME WellFormed, BacklogCovered, Crash PROVE BacklogCovered'
<1> USE ActorsAssumption
<1>0. Boot \in Actors /\ Boot \notin Ingesters /\ Ingesters \subseteq Actors
  BY DEF Actors
<1>1. savedConfig' = config'
  BY DEF Crash
<1>2. todo' = [a \in Actors |-> IF a = Boot /\ IsForwardingEnabled(savedConfig)
                                THEN LoadPending(spoolFile', checkpoint') ELSE {}]
      /\ config' = savedConfig
  BY DEF Crash
<1>3. \A i \in Ingesters : todo'[i] = {}
  BY <1>0, <1>2
<1>4. IsForwardingEnabled(config') => todo'[Boot] = LoadPending(spoolFile', checkpoint')
  BY <1>0, <1>2
<1>5. AllCovered'
  BY <1>0, <1>4 DEF AllCovered, Covered, LoadPending, Scannable, Written, Readable,
     IsForwardingEnabled
<1> QED BY <1>1, <1>3, <1>5 DEF BacklogCovered

(* Once forwarding is on and no load is due, every record past the checkpoint is on its
   way, for any number of goroutines that ingest, load, send, fail and restart, as long as
   no push meets a full queue and no write of the configuration fails. *)
THEOREM BacklogCorrect ==
    ASSUME "config" \notin MayFail
    PROVE  Spec /\ []QueueHasRoom => []BacklogIsQueued
<1>1. Init => SentIsForwarded /\ MarksAreHeld /\ BacklogCovered
  BY ActorsAssumption
  DEF Init, SentIsForwarded, CheckpointIsForwarded, MarksAreHeld, Actors, BacklogCovered,
      AllCovered, LoadPending
<1>2. WellFormed /\ SentIsForwarded /\ [Next]_vars => SentIsForwarded'
  BY NextSentIsForwarded
<1>3. WellFormed /\ SentIsForwarded /\ MarksAreHeld /\ [Next]_vars => MarksAreHeld'
  BY NextMarksAreHeld
<1>4. WellFormed /\ MarksAreHeld /\ QueueHasRoom /\ BacklogCovered /\ [Next]_vars
        => BacklogCovered'
  <2> SUFFICES ASSUME WellFormed, MarksAreHeld, QueueHasRoom, BacklogCovered, [Next]_vars
               PROVE  BacklogCovered'
    OBVIOUS
  <2>1. CASE UNCHANGED vars
    BY <2>1 DEF BacklogCovered, AllCovered, Covered, HeldOrForwarded, Held, LoadDue,
       LoadPending, Scannable, Written, Readable, SpoolRecord, IsForwardingEnabled
  <2> QED BY <2>1, IngestCovers, EnqueueCovers, WorkCovers, OperateCovers, CrashCovers DEF Next
<1>5. BacklogCovered => BacklogIsQueued
  BY DEF BacklogCovered, AllCovered, Covered, HeldOrForwarded, BacklogIsQueued, IsOnItsWay
<1> QED BY <1>1, <1>2, <1>3, <1>4, <1>5, AlwaysWellFormed, PTL DEF Spec
-----------------------------------------------------------------------------
(***************************************************************************)
(* Nothing is left behind while the process lives and forwarding is on.    *)
(* BacklogCovered says nothing of the first record and of those that the   *)
(* checkpoint has passed, so here every record counts; and a goroutine     *)
(* that starts a load must not have anything left to enqueue.              *)
(***************************************************************************)
Enqueuing == {"record", "enabled", "check", "push", "mark"}

RecordsCovered == \A o \in 0 .. Len(spoolFile) - 1 : SpoolRecord(o) \in Ids => Covered(o)

EverythingInHand ==
    /\ \A a \in Actors : pc[a] \notin Enqueuing => todo[a] = {}
    /\ RecordsCovered

(* A step that keeps what is held and takes only what is held by then covers the records
   of the file, to which a write may have added a fragment or a record in somebody's hands. *)
LEMMA RecordsKept ==
    ASSUME WellFormed, RecordsCovered,
           \A e \in Ids : HeldOrForwarded(e) => HeldOrForwarded(e)',
           \A a \in Actors : \A o \in todo[a] :
              o \in todo'[a] \/ HeldOrForwarded(SpoolRecord(o))',
           \/ spoolFile' = spoolFile
           \/ \E x \in Ids \cup {Torn} :
                 /\ spoolFile' = Append(spoolFile, x)
                 /\ x # Torn => \E a \in Actors : Len(spoolFile) \in todo'[a]
    PROVE  RecordsCovered'
<1> SUFFICES ASSUME NEW o \in 0 .. Len(spoolFile') - 1, SpoolRecord(o)' \in Ids
             PROVE  Covered(o)'
  BY DEF RecordsCovered
<1>0. spoolFile \in Seq(Ids \cup {Torn}) /\ Len(spoolFile) \in Nat
  BY DEF WellFormed, TypeOK
<1>1. ASSUME o < Len(spoolFile) PROVE Covered(o)'
  <2>1. o \in 0 .. Len(spoolFile) - 1 /\ SpoolRecord(o)' = SpoolRecord(o)
    <3>1. o \in Nat /\ o \in 0 .. Len(spoolFile) - 1  BY <1>0, <1>1
    <3>2. CASE spoolFile' = spoolFile  BY <3>1, <3>2 DEF SpoolRecord
    <3>3. ASSUME NEW x \in Ids \cup {Torn}, spoolFile' = Append(spoolFile, x)
          PROVE  SpoolRecord(o)' = SpoolRecord(o)
      BY <1>0, <1>1, <3>1, <3>3, AppendProperties DEF SpoolRecord
    <3>4. QED  BY <3>1, <3>2, <3>3
  <2>2. Covered(o)  BY <2>1 DEF RecordsCovered
  <2>3. QED  BY <2>1, <2>2 DEF Covered
<1>2. ASSUME ~(o < Len(spoolFile)) PROVE Covered(o)'
  <2>1. PICK x \in Ids \cup {Torn} :
          /\ spoolFile' = Append(spoolFile, x)
          /\ x # Torn => \E a \in Actors : Len(spoolFile) \in todo'[a]
    BY <1>0, <1>2
  <2>2. Len(spoolFile') = Len(spoolFile) + 1 /\ spoolFile'[Len(spoolFile) + 1] = x
    BY <1>0, <2>1, AppendProperties
  <2>3. o = Len(spoolFile) /\ SpoolRecord(o)' = x  BY <1>0, <1>2, <2>2 DEF SpoolRecord
  <2>4. x # Torn  BY <2>3, EventsAssumption
  <2>5. QED  BY <2>1, <2>3, <2>4 DEF Covered
<1>3. QED  BY <1>1, <1>2

LEMMA IngestLeavesNothing ==
    ASSUME WellFormed, EverythingInHand, IsForwardingEnabled(config),
           NEW i \in Ingesters, Ingest(i)
    PROVE  EverythingInHand'
<1> USE ActorsAssumption
<1>0. /\ i \in Actors /\ pc \in [Actors -> Labels] /\ todo \in [Actors -> SUBSET Nat]
      /\ pc[i] \in IngestLabels
  BY DEF Actors, WellFormed, TypeOK, EventInHand
<1>1. UNCHANGED <<queue, pending, forwarded>>
  BY DEF Ingest, Receive, StoreAppend, StoreFail, SpoolAppend, SpoolFail, RecordOffset,
     CheckEnabled, Answer
<1>2. \A a \in Actors : pc'[a] \notin Enqueuing => todo'[a] = {}
  BY <1>0 DEF EverythingInHand, Enqueuing, Ingest, Receive, StoreAppend, StoreFail, SpoolAppend,
     SpoolFail, RecordOffset, CheckEnabled, Answer, Goto
<1>3. \A e : HeldOrForwarded(e) => HeldOrForwarded(e)'
  BY <1>1 DEF HeldOrForwarded, Held
<1>4. \A a \in Actors : todo[a] \subseteq todo'[a]
  <2>1. CASE SpoolAppend(i)
    <3>1. todo[i] = {}  BY <1>0, <2>1 DEF SpoolAppend, EverythingInHand, Enqueuing
    <3>2. todo' = [todo EXCEPT ![i] = {Len(spoolFile)}]  BY <2>1 DEF SpoolAppend
    <3>3. QED  BY <1>0, <3>1, <3>2
  <2>2. CASE ~SpoolAppend(i)
    BY <2>2 DEF Ingest, Receive, StoreAppend, StoreFail, SpoolFail, RecordOffset, CheckEnabled,
       Answer
  <2>3. QED  BY <2>1, <2>2
<1>5. \/ spoolFile' = spoolFile
      \/ \E x \in Ids \cup {Torn} :
            /\ spoolFile' = Append(spoolFile, x)
            /\ x # Torn => \E a \in Actors : Len(spoolFile) \in todo'[a]
  <2>1. CASE SpoolAppend(i)
    <3>1. ev[i] \in Ids /\ spoolFile' = Append(spoolFile, ev[i])
      BY <2>1 DEF SpoolAppend, WellFormed, EventInHand
    <3>2. Len(spoolFile) \in todo'[i]  BY <1>0, <2>1 DEF SpoolAppend
    <3>3. QED  BY <1>0, <3>1, <3>2
  <2>2. CASE SpoolFail(i)  BY <2>2 DEF SpoolFail
  <2>3. CASE ~SpoolAppend(i) /\ ~SpoolFail(i)
    BY <2>3 DEF Ingest, Receive, StoreAppend, StoreFail, RecordOffset, CheckEnabled, Answer
  <2>4. QED  BY <2>1, <2>2, <2>3
<1>6. RecordsCovered'  BY <1>3, <1>4, <1>5, RecordsKept DEF EverythingInHand
<1>7. QED  BY <1>2, <1>6 DEF EverythingInHand

LEMMA EnqueueLeavesNothing ==
    ASSUME WellFormed, MarksAreHeld, QueueHasRoom, EverythingInHand, NEW a \in Actors, Enqueue(a)
    PROVE  EverythingInHand'
<1> USE ActorsAssumption
<1>0. pc \in [Actors -> Labels] /\ todo \in [Actors -> SUBSET Nat]
  BY DEF WellFormed, TypeOK
<1>1. UNCHANGED <<spoolFile, pending, forwarded>>
  BY DEF Enqueue, CheckInflight, Push, MarkInflight, LoadBacklog, BacklogDone
<1>2. \A b \in Actors : pc'[b] \notin Enqueuing => todo'[b] = {}
  BY <1>0 DEF EverythingInHand, Enqueuing, Enqueue, CheckInflight, Push, MarkInflight,
     LoadBacklog, BacklogDone, Skip, Goto
<1>3. \A e : HeldOrForwarded(e) => HeldOrForwarded(e)'
  <2>1. Range(queue) \subseteq Range(queue')
    <3>1. CASE Push(a)
      <4>1. PICK o \in todo[a] : queue' \in {queue, Append(queue, SpoolRecord(o))}
        BY <3>1 DEF Push
      <4>2. QED  BY <4>1, PushedIsHeld
    <3>2. CASE ~Push(a)
      BY <3>2 DEF Enqueue, CheckInflight, MarkInflight, LoadBacklog, BacklogDone
    <3>3. QED  BY <3>1, <3>2
  <2>2. QED  BY <1>1, <2>1 DEF HeldOrForwarded, Held
<1>4. ASSUME NEW b \in Actors, NEW o \in todo[b]
      PROVE  o \in todo'[b] \/ HeldOrForwarded(SpoolRecord(o))
  <2>1. CASE CheckInflight(a)
    BY <1>0, <2>1 DEF CheckInflight, Skip, Goto, MarksAreHeld
  <2>2. CASE Push(a)
    BY <1>0, <2>2 DEF Push, QueueHasRoom
  <2>3. CASE MarkInflight(a)
    BY <1>0, <2>3 DEF MarkInflight, Skip, MarksAreHeld
  <2>4. CASE LoadBacklog(a)
    <3>1. todo[a] = {}  BY <2>4 DEF LoadBacklog, EverythingInHand, Enqueuing
    <3>2. QED  BY <1>0, <2>4, <3>1 DEF LoadBacklog
  <2>5. CASE BacklogDone(a)  BY <2>5 DEF BacklogDone
  <2>6. QED  BY <2>1, <2>2, <2>3, <2>4, <2>5 DEF Enqueue
<1>5. \A b \in Actors : \A o \in todo[b] :
         o \in todo'[b] \/ HeldOrForwarded(SpoolRecord(o))'
  BY <1>1, <1>3, <1>4 DEF SpoolRecord
<1>6. RecordsCovered'  BY <1>1, <1>3, <1>5, RecordsKept DEF EverythingInHand
<1>7. QED  BY <1>2, <1>6 DEF EverythingInHand

(* The worker and the operators. *)
LEMMA WorkLeavesNothing ==
    ASSUME WellFormed, MarksAreHeld, EverythingInHand, Work PROVE EverythingInHand'
<1> USE ActorsAssumption
<1>0. Worker \in Actors /\ pc \in [Actors -> Labels]
  BY DEF Actors, WellFormed, TypeOK
<1>1. /\ UNCHANGED <<spoolFile, todo>>
      /\ pc[Worker] \notin Enqueuing /\ \A a \in Actors \ {Worker} : pc'[a] = pc[a]
  BY <1>0 DEF Work, Send, ReadConfig, Pop, PopDone, HoldBatch, StartBatch, SendOk, SendError,
     MarkBatchForwarded, MarkForwardedFails, ForgetInflight, Goto, Enqueuing
<1>2. \A a \in Actors : pc'[a] \notin Enqueuing => todo'[a] = {}
  BY <1>1 DEF EverythingInHand
<1>3. RecordsCovered'
  BY <1>1, WorkKeepsHeld, RecordsKept DEF EverythingInHand
<1>4. QED  BY <1>2, <1>3 DEF EverythingInHand

LEMMA OperateLeavesNothing ==
    ASSUME WellFormed, EverythingInHand, NEW p \in Operators, Operate(p) PROVE EverythingInHand'
<1> USE ActorsAssumption
<1>0. p \in Actors /\ pc \in [Actors -> Labels]
  BY DEF Actors, WellFormed, TypeOK
<1>1. /\ UNCHANGED <<spoolFile, todo, queue, pending, forwarded>>
      /\ pc[p] \notin Enqueuing /\ \A a \in Actors \ {p} : pc'[a] = pc[a]
  BY <1>0 DEF Operate, UpdateConfig, UpdateConfigFails, Flush, Goto, Enqueuing
<1>2. \A a \in Actors : pc'[a] \notin Enqueuing => todo'[a] = {}
  BY <1>1 DEF EverythingInHand
<1>3. \A e : HeldOrForwarded(e) => HeldOrForwarded(e)'
  BY <1>1 DEF HeldOrForwarded, Held
<1>4. RecordsCovered'
  BY <1>1, <1>3, RecordsKept DEF EverythingInHand
<1>5. QED  BY <1>2, <1>4 DEF EverythingInHand

(* As long as the process lives, no push meets a full queue and forwarding stays on, every
   record of the spool was forwarded, is held or is about to be enqueued, whatever files
   fail, however often the worker retries and whoever loads the spool meanwhile. *)
LEMMA AlwaysEverythingInHand ==
    ASSUME MaxCrashes = 0
    PROVE  Spec /\ []QueueHasRoom /\ []IsForwardingEnabled(config) => []EverythingInHand
<1>1. Init => SentIsForwarded /\ MarksAreHeld /\ EverythingInHand
  <2> SUFFICES ASSUME Init PROVE SentIsForwarded /\ MarksAreHeld /\ EverythingInHand
    OBVIOUS
  <2>1. SentIsForwarded /\ MarksAreHeld
    BY ActorsAssumption
    DEF Init, SentIsForwarded, CheckpointIsForwarded, MarksAreHeld, Actors
  <2>2. Len(spoolFile) = 0 /\ \A a \in Actors : todo[a] = {}
    BY DEF Init
  <2>3. EverythingInHand  BY <2>2 DEF EverythingInHand, RecordsCovered
  <2> QED BY <2>1, <2>3
<1>2. WellFormed /\ SentIsForwarded /\ [Next]_vars => SentIsForwarded'
  BY NextSentIsForwarded
<1>3. WellFormed /\ SentIsForwarded /\ MarksAreHeld /\ [Next]_vars => MarksAreHeld'
  BY NextMarksAreHeld
<1>4. WellFormed /\ MarksAreHeld /\ QueueHasRoom /\ IsForwardingEnabled(config)
        /\ EverythingInHand /\ [Next]_vars => EverythingInHand'
  <2> SUFFICES ASSUME WellFormed, MarksAreHeld, QueueHasRoom, IsForwardingEnabled(config),
                      EverythingInHand, [Next]_vars
               PROVE  EverythingInHand'
    OBVIOUS
  <2>1. CASE UNCHANGED vars
    BY <2>1 DEF EverythingInHand, RecordsCovered, Covered, HeldOrForwarded, Held, SpoolRecord
  <2>2. ~Crash
    BY DEF Crash, WellFormed, TypeOK
  <2> QED BY <2>1, <2>2, IngestLeavesNothing, EnqueueLeavesNothing, WorkLeavesNothing,
             OperateLeavesNothing DEF Next
<1> QED BY <1>1, <1>2, <1>3, <1>4, AlwaysWellFormed, PTL DEF Spec

(* In a process that does not die, with a queue that never fills, forwarding that stays on
   leaves no spooled record behind, the first one included. *)
THEOREM NothingLeftBehind ==
    ASSUME MaxCrashes = 0
    PROVE  Spec /\ []QueueHasRoom => NothingIsLeftBehind
<1>1. EverythingInHand => SpooledIsOnItsWay
  BY DEF EverythingInHand, RecordsCovered, Covered, HeldOrForwarded, SpooledIsOnItsWay, IsOnItsWay
<1> QED BY <1>1, AlwaysEverythingInHand, PTL DEF NothingIsLeftBehind

(* So it takes a time without forwarding, a restart or a full queue to put the first record
   out of reach of the loads of the spool. *)
THEOREM FirstRecordKept ==
    ASSUME MaxCrashes = 0
    PROVE  Spec /\ []QueueHasRoom /\ []IsForwardingEnabled(config) => []FirstRecordIsRecoverable
<1>1. WellFormed /\ EverythingInHand => FirstRecordIsRecoverable
  <2> SUFFICES ASSUME WellFormed, EverythingInHand, spoolFile # <<>>, Readable(spoolFile, 1)
               PROVE  Recoverable(0)
    BY DEF FirstRecordIsRecoverable
  <2>1. 0 \in 0 .. Len(spoolFile) - 1 /\ SpoolRecord(0) = spoolFile[1]
    BY DEF WellFormed, TypeOK, SpoolRecord
  <2>2. Covered(0)
    BY <2>1 DEF Readable, EverythingInHand, RecordsCovered
  <2> QED BY <2>2 DEF Covered, HeldOrForwarded, Recoverable, IsOnItsWay
<1> QED BY <1>1, AlwaysWellFormed, AlwaysEverythingInHand, PTL
=============================================================================
