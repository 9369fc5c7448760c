-------------------------- MODULE DeliveryPipeline --------------------------
(***************************************************************************)
(* The path of one event through the collector (cmd/dmz-collector/main.go  *)
(* with internal/buffer and internal/storage): ingestOne, the spool, the   *)
(* in-memory queue and the syslog forward worker, together with the        *)
(* operator calls that enqueue the spooled backlog and with process        *)
(* crashes.  Goroutines interleave at every lock, file operation and       *)
(* network send.  EventRelay is the specification this one implements.     *)
(***************************************************************************)
EXTENDS Integers, Sequences, FiniteSets, Functions

CONSTANTS
    Ids,            \* event identities
    HighValue,      \* the events highValue() (main.go) selects
    Overlong,       \* events whose JSON line exceeds bufio.Scanner's 64 KiB
    Torn,           \* a fragment left in a file by a write that did not finish
    NoEvent,        \* no event in hand
    Ingesters,      \* goroutines that call IngestBatch / IngestSingle
    Operators,      \* goroutines that serve POST /config/forwarding and /flush
    Worker,         \* the goroutine of runForwardWorker
    Boot,           \* the main goroutine inside bootstrapSpoolQueue
    Configs,        \* forwarding configurations the operators may install
    InitialConfig,  \* the one the environment gives, in force until one is saved
    QueueCap,       \* capacity of the queue's channel
    BatchSize,      \* cfg.QueueBatchSize
    MayFail,        \* which file operations may return an error
    MaxFailures,    \* bound: how many of them do
    MaxCrashes      \* bound: how many times the process dies

Actors == Ingesters \cup Operators \cup {Worker, Boot}

Files == {"store", "spool", "checkpoint", "config"}

ConfigType == [paused : BOOLEAN, splunk : BOOLEAN, syslog : BOOLEAN]

ASSUME EventsAssumption ==
    /\ Torn \notin Ids /\ NoEvent \notin Ids
    /\ HighValue \subseteq Ids /\ Overlong \subseteq Ids
ASSUME ActorsAssumption ==
    /\ Ingesters \cap Operators = {}
    /\ {Worker, Boot} \cap (Ingesters \cup Operators) = {}
    /\ Worker # Boot
ASSUME ConfigsAssumption ==
    /\ Configs \subseteq ConfigType /\ InitialConfig \in Configs
    /\ ~InitialConfig.paused
ASSUME SizesAssumption == QueueCap \in Nat \ {0} /\ BatchSize \in Nat \ {0}
ASSUME BoundsAssumption ==
    MayFail \subseteq Files /\ MaxFailures \in Nat /\ MaxCrashes \in Nat

VARIABLES
    \* on disk
    eventsFile,     \* the fragments of the events file, a record or Torn
    spoolFile,      \* the fragments of the spool; a record's offset is its index - 1
    checkpoint,     \* LastForwardedOffset as LoadPending reads it (0: none, unreadable)
    savedConfig,    \* forwarding.json
    \* in memory
    config,         \* ForwardingStore.cfg
    seenIDs,        \* App.seenIDs
    offsetByID,     \* App.offsetByID, NoOffset where the map has no entry
    inflight,       \* App.inflight
    queue,          \* the channel of buffer.Queue
    pending,        \* runForwardWorker's batch
    workerConfig,   \* the copy of the configuration its iteration works with
    sendIndex,      \* how many events of the batch forwardBatch has sent
    pc,             \* where each goroutine stands
    ev,             \* the event each ingester has in hand
    todo,           \* offsets each goroutine still has to enqueue, lowest first
    \* history and bounds
    acked, forwarded,   \* see EventRelay
    pausedStarts,       \* batches started since forwarding was last paused
    failures, crashes

fileVars   == <<eventsFile, spoolFile, checkpoint>>
configVars == <<config, savedConfig>>
clientVars == <<seenIDs, ev, acked>>
queueVars  == <<offsetByID, inflight, queue>>
workerVars == <<pending, workerConfig, sendIndex, forwarded, pausedStarts>>
boundVars  == <<failures, crashes>>
vars == <<fileVars, configVars, clientVars, queueVars, workerVars, pc, todo, boundVars>>

NoOffset == -1
Ready == pc[Boot] = "idle"      \* main serves requests and starts the worker after Boot
Goto(a, label) == pc' = [pc EXCEPT ![a] = label]
Fail(file) == file \in MayFail /\ failures < MaxFailures /\ failures' = failures + 1

(***************************************************************************)
(* Files.  A write appends one fragment.  Fragments that a torn write left *)
(* unterminated merge with the next record into one line that is not JSON, *)
(* and one line over the scanner's limit makes the whole load fail.        *)
(***************************************************************************)
Written(file) == {file[i] : i \in DOMAIN file} \cap Ids

Readable(file, i) == file[i] \in Ids /\ (i = 1 \/ file[i - 1] # Torn)

Scannable(file) == Written(file) \cap Overlong = {}

LoadIDSet(file) ==
    IF Scannable(file)
    THEN {file[i] : i \in {j \in DOMAIN file : Readable(file, j)}}
    ELSE {}

LoadPending(file, last) ==
    IF Scannable(file)
    THEN {o \in 0 .. Len(file) - 1 : Readable(file, o + 1) /\ o > last}
    ELSE {}

SpoolRecord(o) == spoolFile[o + 1]

IsForwardingEnabled(c) == ~c.paused /\ c.syslog
-----------------------------------------------------------------------------
(***************************************************************************)
(* ingestOne.  A duplicate returns without changing any state.             *)
(***************************************************************************)
(* Faulty variant: the id is not remembered until it has been stored. *)
ReceiveUnmarked(i, e) ==
    /\ Ready /\ pc[i] = "idle" /\ e \notin seenIDs
    /\ ev' = [ev EXCEPT ![i] = e]
    /\ Goto(i, "store")
    /\ UNCHANGED <<fileVars, configVars, seenIDs, acked, queueVars, workerVars, todo, boundVars>>

Receive(i, e) ==
    /\ Ready
    /\ pc[i] = "idle"
    /\ e \notin seenIDs
    /\ seenIDs' = seenIDs \cup {e}
    /\ ev' = [ev EXCEPT ![i] = e]
    /\ Goto(i, "store")
    /\ UNCHANGED <<fileVars, configVars, acked, queueVars, workerVars, todo, boundVars>>

StoreAppend(i) ==
    /\ pc[i] = "store"
    /\ eventsFile' = Append(eventsFile, ev[i])
    /\ Goto(i, "spool")
    /\ UNCHANGED <<spoolFile, checkpoint, configVars, clientVars, queueVars, workerVars,
                   todo, boundVars>>

StoreFail(i) ==
    /\ pc[i] = "store"
    /\ Fail("store")
    /\ eventsFile' \in {eventsFile, Append(eventsFile, Torn)}
    /\ ev' = [ev EXCEPT ![i] = NoEvent]
    /\ Goto(i, "idle")
    /\ UNCHANGED <<spoolFile, checkpoint, configVars, seenIDs, acked, queueVars, workerVars,
                   todo, crashes>>

(* Faulty variant: the record is left to the next load of the spool. *)
SpoolAppendOnly(i) ==
    /\ pc[i] = "spool"
    /\ spoolFile' = Append(spoolFile, ev[i])
    /\ Goto(i, "check")
    /\ UNCHANGED <<eventsFile, checkpoint, configVars, clientVars, queueVars, workerVars,
                   todo, boundVars>>

SpoolAppend(i) ==
    /\ pc[i] = "spool"
    /\ spoolFile' = Append(spoolFile, ev[i])
    /\ todo' = [todo EXCEPT ![i] = {Len(spoolFile)}]
    /\ Goto(i, "record")
    /\ UNCHANGED <<eventsFile, checkpoint, configVars, clientVars, queueVars, workerVars,
                   boundVars>>

(* Faulty variant: the error of spool.Append is ignored. *)
SpoolFailIgnored(i) ==
    /\ pc[i] = "spool" /\ Fail("spool")
    /\ spoolFile' \in {spoolFile, Append(spoolFile, Torn)}
    /\ Goto(i, "check")
    /\ UNCHANGED <<eventsFile, checkpoint, configVars, clientVars, queueVars, workerVars,
                   todo, crashes>>

SpoolFail(i) ==
    /\ pc[i] = "spool"
    /\ Fail("spool")
    /\ spoolFile' \in {spoolFile, Append(spoolFile, Torn)}
    /\ ev' = [ev EXCEPT ![i] = NoEvent]
    /\ Goto(i, "idle")
    /\ UNCHANGED <<eventsFile, checkpoint, configVars, seenIDs, acked, queueVars, workerVars,
                   todo, crashes>>

RecordOffset(i) ==
    /\ pc[i] = "record"
    /\ \E o \in todo[i] : offsetByID' = [offsetByID EXCEPT ![ev[i]] = o]
    /\ Goto(i, "enabled")
    /\ UNCHANGED <<fileVars, configVars, clientVars, inflight, queue, workerVars, todo,
                   boundVars>>

CheckEnabled(i) ==
    /\ pc[i] = "enabled"
    /\ todo' = IF IsForwardingEnabled(config) THEN todo ELSE [todo EXCEPT ![i] = {}]
    /\ Goto(i, "check")
    /\ UNCHANGED <<fileVars, configVars, clientVars, queueVars, workerVars, boundVars>>

Answer(i) ==
    /\ pc[i] = "check" /\ todo[i] = {}
    /\ acked' = acked \cup {ev[i]}
    /\ ev' = [ev EXCEPT ![i] = NoEvent]
    /\ Goto(i, "idle")
    /\ UNCHANGED <<fileVars, configVars, seenIDs, queueVars, workerVars, todo, boundVars>>
-----------------------------------------------------------------------------
(***************************************************************************)
(* enqueueIfNeeded, in whichever goroutine calls it: the inflight test,    *)
(* the push and the inflight mark are three critical sections.             *)
(***************************************************************************)
IsNext(a, o) == o \in todo[a] /\ \A p \in todo[a] : o <= p

Skip(a, o) ==
    /\ todo' = [todo EXCEPT ![a] = @ \ {o}]
    /\ Goto(a, "check")

(* Faulty variant: the id is marked before the push, which may find the queue full. *)
CheckAndMarkInflight(a) ==
    /\ pc[a] = "check"
    /\ \E o \in todo[a] :
          /\ IsNext(a, o)
          /\ IF SpoolRecord(o) \in inflight
             THEN Skip(a, o)
             ELSE Goto(a, "push") /\ UNCHANGED todo
          /\ inflight' = inflight \cup {SpoolRecord(o)}
    /\ UNCHANGED <<fileVars, configVars, clientVars, offsetByID, queue, workerVars, boundVars>>

CheckInflight(a) ==
    /\ pc[a] = "check"
    /\ \E o \in todo[a] :
          /\ IsNext(a, o)
          /\ IF SpoolRecord(o) \in inflight
             THEN Skip(a, o)
             ELSE Goto(a, "push") /\ UNCHANGED todo
    /\ UNCHANGED <<fileVars, configVars, clientVars, queueVars, workerVars, boundVars>>

Push(a) ==
    /\ pc[a] = "push"
    /\ \E o \in todo[a] :
          /\ IsNext(a, o)
          /\ IF Len(queue) < QueueCap
             THEN /\ queue' = Append(queue, SpoolRecord(o))
                  /\ Goto(a, "mark")
                  /\ UNCHANGED todo
             ELSE /\ Skip(a, o)
                  /\ UNCHANGED queue
    /\ UNCHANGED <<fileVars, configVars, clientVars, offsetByID, inflight, workerVars,
                   boundVars>>

MarkInflight(a) ==
    /\ pc[a] = "mark"
    /\ \E o \in todo[a] :
          /\ IsNext(a, o)
          /\ inflight' = inflight \cup {SpoolRecord(o)}
          /\ offsetByID' = [offsetByID EXCEPT ![SpoolRecord(o)] = o]
          /\ Skip(a, o)
    /\ UNCHANGED <<fileVars, configVars, clientVars, queue, workerVars, boundVars>>

LoadBacklog(a) ==
    /\ pc[a] = "load"
    /\ todo' = [todo EXCEPT ![a] = LoadPending(spoolFile, checkpoint)]
    /\ Goto(a, "check")
    /\ UNCHANGED <<fileVars, configVars, clientVars, queueVars, workerVars, boundVars>>

BacklogDone(a) ==
    /\ a \notin Ingesters
    /\ pc[a] = "check" /\ todo[a] = {}
    /\ Goto(a, IF a = Worker THEN "loop" ELSE "idle")
    /\ UNCHANGED <<fileVars, configVars, clientVars, queueVars, workerVars, todo, boundVars>>

Enqueue(a) == CheckInflight(a) \/ Push(a) \/ MarkInflight(a) \/ LoadBacklog(a) \/ BacklogDone(a)
-----------------------------------------------------------------------------
(***************************************************************************)
(* runForwardWorker.                                                       *)
(***************************************************************************)
ReadConfig ==
    /\ Ready
    /\ pc[Worker] = "loop"
    /\ workerConfig' = config
    /\ Goto(Worker, IF pending = <<>> THEN "pop" ELSE "decide")
    /\ UNCHANGED <<fileVars, configVars, clientVars, queueVars, pending, sendIndex,
                   forwarded, pausedStarts, todo, boundVars>>

(* Faulty variant: PopBatch fills one event too many. *)
PopOneTooMany ==
    /\ pc[Worker] = "pop"
    /\ queue # <<>> /\ Len(pending) <= BatchSize
    /\ pending' = Append(pending, Head(queue))
    /\ queue' = Tail(queue)
    /\ UNCHANGED <<fileVars, configVars, clientVars, offsetByID, inflight, workerConfig,
                   sendIndex, forwarded, pausedStarts, pc, todo, boundVars>>

Pop ==
    /\ pc[Worker] = "pop"
    /\ queue # <<>> /\ Len(pending) < BatchSize
    /\ pending' = Append(pending, Head(queue))
    /\ queue' = Tail(queue)
    /\ UNCHANGED <<fileVars, configVars, clientVars, offsetByID, inflight, workerConfig,
                   sendIndex, forwarded, pausedStarts, pc, todo, boundVars>>

(* Faulty variant: PopBatch returns nothing when it times out on a partial batch. *)
PopDoneDropping ==
    /\ pc[Worker] = "pop"
    /\ queue = <<>> \/ Len(pending) = BatchSize
    /\ pending' = IF Len(pending) = BatchSize THEN pending ELSE <<>>
    /\ Goto(Worker, IF pending' = <<>> THEN "loop" ELSE "decide")
    /\ UNCHANGED <<fileVars, configVars, clientVars, queueVars, workerConfig, sendIndex,
                   forwarded, pausedStarts, todo, boundVars>>

PopDone ==
    /\ pc[Worker] = "pop"
    /\ queue = <<>> \/ Len(pending) = BatchSize
    /\ Goto(Worker, IF pending = <<>> THEN "loop" ELSE "decide")
    /\ UNCHANGED <<fileVars, configVars, clientVars, queueVars, workerVars, todo, boundVars>>

HoldBatch ==
    /\ pc[Worker] = "decide"
    /\ ~IsForwardingEnabled(workerConfig)
    /\ Goto(Worker, "loop")
    /\ UNCHANGED <<fileVars, configVars, clientVars, queueVars, workerVars, todo, boundVars>>

(* perm is the order sort.SliceStable gives batch: high-value events first, each class as it was *)
StableOrder(batch, perm) ==
    \A i, j \in DOMAIN batch : i < j =>
        LET hi == batch[perm[i]] \in HighValue
            hj == batch[perm[j]] \in HighValue
        IN  (hi \/ ~hj) /\ (hi = hj => perm[i] < perm[j])

StartBatch ==
    /\ pc[Worker] = "decide"
    /\ IsForwardingEnabled(workerConfig)
    /\ \E perm \in Bijection(DOMAIN pending, DOMAIN pending) :
          /\ StableOrder(pending, perm)
          /\ pending' = [i \in DOMAIN pending |-> pending[perm[i]]]
    /\ sendIndex' = 0
    /\ pausedStarts' = IF config.paused THEN pausedStarts + 1 ELSE pausedStarts
    /\ Goto(Worker, "send")
    /\ UNCHANGED <<fileVars, configVars, clientVars, queueVars, workerConfig, forwarded,
                   todo, boundVars>>

SendOk ==
    /\ pc[Worker] = "send"
    /\ forwarded' = forwarded \cup {pending[sendIndex + 1]}
    /\ sendIndex' = sendIndex + 1
    /\ Goto(Worker, IF sendIndex + 1 = Len(pending) THEN "checkpoint" ELSE "send")
    /\ UNCHANGED <<fileVars, configVars, clientVars, queueVars, pending, workerConfig,
                   pausedStarts, todo, boundVars>>

(* Faulty variants: the batch is retried with the configuration it was started
   with; the error is ignored and the batch counts as forwarded; the batch is dropped. *)
SendErrorRetries ==
    /\ pc[Worker] = "send"
    /\ sendIndex' = 0
    /\ Goto(Worker, "decide")
    /\ UNCHANGED <<fileVars, configVars, clientVars, queueVars, pending, workerConfig,
                   forwarded, pausedStarts, todo, boundVars>>

SendErrorIgnored ==
    /\ pc[Worker] = "send"
    /\ Goto(Worker, "checkpoint")
    /\ UNCHANGED <<fileVars, configVars, clientVars, queueVars, workerVars, todo, boundVars>>

SendErrorDrops ==
    /\ pc[Worker] = "send"
    /\ sendIndex' = 0 /\ pending' = <<>>
    /\ Goto(Worker, "loop")
    /\ UNCHANGED <<fileVars, configVars, clientVars, queueVars, workerConfig, forwarded,
                   pausedStarts, todo, boundVars>>

SendError ==
    /\ pc[Worker] = "send"
    /\ sendIndex' = 0
    /\ Goto(Worker, "loop")
    /\ UNCHANGED <<fileVars, configVars, clientVars, queueVars, pending, workerConfig,
                   forwarded, pausedStarts, todo, boundVars>>

BatchOffsets == {offsetByID[e] : e \in Range(pending)} \ {NoOffset}

MarkBatchForwarded ==
    /\ pc[Worker] = "checkpoint"
    /\ IF BatchOffsets = {}
       THEN checkpoint' = checkpoint
       ELSE \E top \in BatchOffsets :
              (\A o \in BatchOffsets : o <= top) /\ checkpoint' = top
    /\ Goto(Worker, "forget")
    /\ UNCHANGED <<eventsFile, spoolFile, configVars, clientVars, queueVars, workerVars,
                   todo, boundVars>>

(* os.WriteFile truncates first: a failed write leaves the old checkpoint or an unreadable one *)
MarkForwardedFails ==
    /\ pc[Worker] = "checkpoint"
    /\ BatchOffsets # {}
    /\ Fail("checkpoint")
    /\ checkpoint' \in {checkpoint, 0}
    /\ Goto(Worker, "forget")
    /\ UNCHANGED <<eventsFile, spoolFile, configVars, clientVars, queueVars, workerVars,
                   todo, crashes>>

ForgetInflight ==
    /\ pc[Worker] = "forget"
    /\ inflight' = inflight \ Range(pending)
    /\ pending' = <<>>
    /\ sendIndex' = 0
    /\ Goto(Worker, "load")
    /\ UNCHANGED <<fileVars, configVars, clientVars, offsetByID, queue, workerConfig,
                   forwarded, pausedStarts, todo, boundVars>>
-----------------------------------------------------------------------------
(***************************************************************************)
(* UpdateForwardingConfig and FlushForwarding.                             *)
(***************************************************************************)
(* Faulty variant: only the Splunk switch counts as forwarding. *)
LoadsBacklogForSplunk(c) == ~c.paused /\ c.splunk

LoadsBacklog(c) == ~c.paused /\ (c.splunk \/ c.syslog)

UpdateConfig(p, c) ==
    /\ Ready
    /\ pc[p] = "idle"
    /\ config' = c
    /\ savedConfig' = c
    /\ pausedStarts' = IF c.paused THEN pausedStarts ELSE 0
    /\ Goto(p, IF LoadsBacklog(c) THEN "load" ELSE "idle")
    /\ UNCHANGED <<fileVars, clientVars, queueVars, pending, workerConfig, sendIndex,
                   forwarded, todo, boundVars>>

(* Replace assigns before it persists: the error leaves the new configuration in
   force.  os.WriteFile truncates first, and loadOrInit replaces an empty file by
   the configuration of the environment. *)
UpdateConfigFails(p, c) ==
    /\ Ready
    /\ pc[p] = "idle"
    /\ Fail("config")
    /\ config' = c
    /\ savedConfig' \in {savedConfig, InitialConfig}
    /\ pausedStarts' = IF c.paused THEN pausedStarts ELSE 0
    /\ UNCHANGED <<fileVars, clientVars, queueVars, pending, workerConfig,
                   sendIndex, forwarded, pc, todo, crashes>>

Flush(p) ==
    /\ Ready
    /\ pc[p] = "idle"
    /\ Goto(p, "load")
    /\ UNCHANGED <<fileVars, configVars, clientVars, queueVars, workerVars, todo, boundVars>>
-----------------------------------------------------------------------------
(***************************************************************************)
(* The process dies at any point and main runs again.  An append under way *)
(* may leave a torn fragment, a checkpoint write an unreadable file.       *)
(***************************************************************************)
Interrupted(file, label) ==
    {file} \cup (IF \E i \in Ingesters : pc[i] = label THEN {Append(file, Torn)} ELSE {})

Crash ==
    /\ crashes < MaxCrashes
    /\ crashes' = crashes + 1
    /\ eventsFile' \in Interrupted(eventsFile, "store")
    /\ spoolFile' \in Interrupted(spoolFile, "spool")
    /\ checkpoint' \in IF pc[Worker] = "checkpoint" THEN {checkpoint, 0} ELSE {checkpoint}
    /\ config' = savedConfig
    /\ seenIDs' = LoadIDSet(eventsFile')
    /\ offsetByID' = [e \in Ids |-> NoOffset]
    /\ inflight' = {}
    /\ queue' = <<>>
    /\ pending' = <<>>
    /\ workerConfig' = savedConfig
    /\ sendIndex' = 0
    /\ ev' = [i \in Ingesters |-> NoEvent]
    /\ pc' = [a \in Actors |-> CASE a = Worker -> "loop"
                                 [] a = Boot   -> "check"
                                 [] OTHER      -> "idle"]
    /\ todo' = [a \in Actors |-> IF a = Boot /\ IsForwardingEnabled(savedConfig)
                                 THEN LoadPending(spoolFile', checkpoint') ELSE {}]
    /\ pausedStarts' = 0
    /\ UNCHANGED <<savedConfig, acked, forwarded, failures>>
-----------------------------------------------------------------------------
Init ==
    /\ eventsFile = <<>> /\ spoolFile = <<>>
    /\ checkpoint = 0
    /\ savedConfig = InitialConfig
    /\ config = InitialConfig
    /\ seenIDs = {} /\ inflight = {}
    /\ offsetByID = [e \in Ids |-> NoOffset]
    /\ queue = <<>> /\ pending = <<>>
    /\ workerConfig = InitialConfig
    /\ sendIndex = 0
    /\ pc = [a \in Actors |-> IF a = Worker THEN "loop" ELSE "idle"]
    /\ ev = [i \in Ingesters |-> NoEvent]
    /\ todo = [a \in Actors |-> {}]
    /\ acked = {} /\ forwarded = {}
    /\ pausedStarts = 0
    /\ failures = 0 /\ crashes = 0

Ingest(i) ==
    \/ \E e \in Ids : Receive(i, e)
    \/ StoreAppend(i) \/ StoreFail(i) \/ SpoolAppend(i) \/ SpoolFail(i)
    \/ RecordOffset(i) \/ CheckEnabled(i) \/ Answer(i)

Send == StartBatch \/ SendOk \/ SendError

Work ==
    \/ ReadConfig \/ Pop \/ PopDone \/ HoldBatch \/ Send
    \/ MarkBatchForwarded \/ MarkForwardedFails \/ ForgetInflight

Operate(p) ==
    \/ \E c \in Configs : UpdateConfig(p, c) \/ UpdateConfigFails(p, c)
    \/ Flush(p)

Next ==
    \/ \E i \in Ingesters : Ingest(i)
    \/ \E a \in Actors : Enqueue(a)
    \/ Work
    \/ \E p \in Operators : Operate(p)
    \/ Crash

Spec == Init /\ [][Next]_vars

(***************************************************************************)
(* Fairness: the Go scheduler runs every goroutine that can take a step    *)
(* (nothing here blocks for ever: sends and dials have timeouts), clients  *)
(* and operators may stop calling, and the destination, attempted again    *)
(* and again, does not refuse the same event for ever.                     *)
(***************************************************************************)
SendOkOf(e) == SendOk /\ e = pending[sendIndex + 1]

IngestStep(i) ==
    StoreAppend(i) \/ SpoolAppend(i) \/ RecordOffset(i) \/ CheckEnabled(i) \/ Answer(i)

Fairness ==
    /\ \A i \in Ingesters : WF_vars(IngestStep(i))
    /\ \A a \in Actors : WF_vars(Enqueue(a))
    /\ WF_vars(Work)
    /\ \A e \in Ids : SF_vars(SendOkOf(e))

FairSpec == Spec /\ Fairness
-----------------------------------------------------------------------------
(***************************************************************************)
(* Properties.                                                             *)
(***************************************************************************)
Labels == {"idle", "store", "spool", "record", "enabled", "check", "push", "mark", "load",
           "loop", "pop", "decide", "send", "checkpoint", "forget"}

(* The type invariant; the channel holds at most its capacity and PopBatch at most a batch. *)
TypeOK ==
    /\ eventsFile \in Seq(Ids \cup {Torn})
    /\ spoolFile \in Seq(Ids \cup {Torn})
    /\ checkpoint \in Nat
    /\ savedConfig \in Configs /\ config \in Configs /\ workerConfig \in Configs
    /\ seenIDs \subseteq Ids /\ inflight \subseteq Ids
    /\ offsetByID \in [Ids -> Nat \cup {NoOffset}]
    /\ queue \in Seq(Ids) /\ Len(queue) <= QueueCap
    /\ pending \in Seq(Ids) /\ Len(pending) <= BatchSize
    /\ sendIndex \in Nat
    /\ pc \in [Actors -> Labels]
    /\ ev \in [Ingesters -> Ids \cup {NoEvent}]
    /\ todo \in [Actors -> SUBSET Nat]
    /\ acked \subseteq Ids /\ forwarded \subseteq Ids
    /\ pausedStarts \in Nat /\ failures \in Nat /\ crashes \in Nat

(* However the same event is submitted, retried and resubmitted across
   restarts, the events file never holds two readable records of it: the
   window between ingestOne's duplicate test and store.Append (main.go:172-180)
   lets no second copy through, and loadSeenIDs restores every stored id as
   long as the file can be scanned. *)
StoredOnce ==
    Scannable(eventsFile) =>
        \A i, j \in DOMAIN eventsFile :
            /\ Readable(eventsFile, i) /\ Readable(eventsFile, j)
            /\ eventsFile[i] = eventsFile[j]
            => i = j

(* The checkpoint on disk never names a record the destination has not
   received: whatever goroutine enqueued the batch, with whatever offsets it
   left in offsetByID, markBatchForwarded (main.go:906-922) writes the offset
   of an event whose Send succeeded. *)
CheckpointIsForwarded ==
    checkpoint # 0 =>
        /\ checkpoint < Len(spoolFile)
        /\ SpoolRecord(checkpoint) \in forwarded

Held(e) == e \in Range(queue) \/ e \in Range(pending)

(* enqueueIfNeeded marks an id after it pushed it, outside any common lock,
   and forgetInflight unmarks it (main.go:889-904, 924-930).  In every order
   of these steps a marked id is still in the queue or in the worker's batch,
   or has been forwarded: no mark is left behind that would keep an undelivered
   event out of the queue until the next restart. *)
InflightIsHeld ==
    \A e \in inflight :
        \/ Held(e) \/ e \in forwarded
        \/ \E a \in Actors, o \in UNION {todo[b] : b \in Actors} :
              pc[a] = "push" /\ IsNext(a, o) /\ SpoolRecord(o) = e

(* Pausing wins over the worker's stale copy of the configuration
   (main.go:581-600): after Replace stored paused = true, at most one more
   batch is started, the one whose iteration had already read the old
   configuration; a failing destination does not prolong it. *)
PauseTakesEffect == pausedStarts <= 1

(* the record at o was forwarded, is held, or a goroutine is about to enqueue it *)
IsOnItsWay(o) ==
    \/ SpoolRecord(o) \in forwarded
    \/ Held(SpoolRecord(o))
    \/ \E a \in Actors : o \in todo[a]

(* the spool is about to be loaded: after a call that enables forwarding, and after the
   checkpoint was written, which may have moved back (main.go:609-618, 906-922) *)
LoadDue == pc[Worker] = "forget" \/ \E a \in Actors : pc[a] = "load"

(* Appending to the spool before testing the configuration (main.go:183-199)
   and replacing the configuration before loading the spool (main.go:460-469)
   leave no gap: once forwarding is enabled and no load is still due, every
   spooled record past the checkpoint is forwarded, held by the queue or the
   worker, or about to be enqueued.  It needs a queue that does not overflow
   and configuration writes that succeed. *)
BacklogIsQueued ==
    IsForwardingEnabled(config) /\ ~LoadDue =>
        \A o \in LoadPending(spoolFile, checkpoint) : IsOnItsWay(o)

(* While the process lives and forwarding stays on, no record that was spooled
   is left behind, the first one, which no load of the spool returns, included:
   ingestOne enqueues it itself (main.go:183-199), a mark that makes
   enqueueIfNeeded skip it stands for a copy that is held, and a batch is
   forgotten only when all of it was sent.  It needs a queue that does not
   overflow. *)
SpooledIsOnItsWay ==
    \A o \in 0 .. Len(spoolFile) - 1 : SpoolRecord(o) \in Ids => IsOnItsWay(o)

NothingIsLeftBehind == []IsForwardingEnabled(config) => []SpooledIsOnItsWay

(* The collector implements EventRelay: a record reaches the events file
   before the spool, the spool before an answer or the destination, and no
   error path, duplicate push, retry, crash or restart undoes or reorders it. *)
Relay == INSTANCE EventRelay WITH
    stored <- Written(eventsFile),
    spooled <- Written(spoolFile)

ImplementsEventRelay == Relay!Spec

(* While the process lives and forwarding ends up enabled, an event that
   entered the queue is eventually forwarded, whatever retries, aborted batches
   and pauses come first (main.go:571-619). *)
QueuedIsForwarded ==
    <>[]IsForwardingEnabled(config) =>
        \A e \in Ids : e \in Range(queue) ~> e \in forwarded

(* With forwarding enabled throughout, a queue that never fills and no crash,
   every event a client was told is accepted is eventually forwarded. *)
AckedIsForwarded ==
    []IsForwardingEnabled(config) => \A e \in Ids : e \in acked ~> e \in forwarded
-----------------------------------------------------------------------------
(***************************************************************************)
(* What the documentation says and the code does not do; each has a run in *)
(* which TLC exhibits a counterexample.                                    *)
(***************************************************************************)

(* README.md:27 makes the id an idempotency key, so a submission that failed
   can be repeated.  Then, when no ingestion is under way, every id the
   collector answers as a duplicate is in the events file.  It is not after
   store.Append failed: seenIDs keeps the id (main.go:177-182) and the repeated
   submission is dropped as a duplicate until the next restart. *)
SeenIsStored ==
    (\A i \in Ingesters : pc[i] = "idle") => seenIDs \subseteq Written(eventsFile)

Recoverable(o) == IsOnItsWay(o) \/ o \in LoadPending(spoolFile, checkpoint)

(* README.md:240: POST /forwarding/flush enqueues pending spool records.  Not
   the first one: its offset 0 is never greater than LastForwardedOffset, which
   reads 0 before anything was forwarded (spool.go:73, 86). *)
FirstRecordIsRecoverable ==
    spoolFile # <<>> /\ Readable(spoolFile, 1) => Recoverable(0)
=============================================================================
