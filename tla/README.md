# dmz_collector: specifications, model checking and proofs

The collector accepts security events from several sources, keeps them in two
append-only files, and forwards them to a syslog destination and to Splunk. This
directory holds TLA+ specifications of its stateful parts, the TLC instances that
check them, and TLAPS proofs of what matters most. Paths are relative to the
repository; `main.go` is `cmd/dmz-collector/main.go`.

## 1. Inventory

| Component | Code | State | Operations | Hard part | Modelled in |
|---|---|---|---|---|---|
| Ingestion core | `main.go` IngestBatch, ingestOne | `seenIDs`, `offsetByID`, events file | submit one event | duplicates in parallel, failing appends, crashes | DeliveryPipeline |
| Spool | `internal/buffer/spool.go` | spool file, checkpoint file | Append, LoadPending, MarkForwarded | torn writes, offsets, checkpoint against order | DeliveryPipeline |
| Queue | `internal/buffer/queue.go` | channel, QueueStats | Push, PopBatch, MarkSuccess, MarkFailure, SetPaused | channel and counters not updated together | DeliveryPipeline (contents), ForwardQueue (counters) |
| Forward worker | `main.go` runForwardWorker | batch, configuration copy, `inflight` | pop, order, send, checkpoint, refill | retries, stale configuration | DeliveryPipeline |
| Forwarding configuration | `internal/config/forwarding.go`, `handlers.go` | configuration, `forwarding.json` | Get, Replace, load | read-modify-write by handlers, write in place | ForwardingSettings |
| Live stream | `internal/api/stream.go`, handleEventStream | client channels | Subscribe, Unsubscribe, Publish | close against send, slow viewers | StreamHub |
| Console | `web/app.js` | cached answers, event table | Save, pause, poll, load, live table | stale copies, answers out of order | ForwardingSettings (configuration), EventConsole (table) |
| Splunk forwarding, self telemetry | `main.go` dispatchSplunkForward, runSelfTelemetry | counters, watermarks | one attempt per event, tick, alarms | no retry, counters that move during a tick | SplunkTelemetry |
| OT client | `main.go` runOTPull, runOTSSE, syncOTMetadata | - | poll, stream, sync the configuration | two paths for the same events | SourceObservation |
| Source catalog | `internal/sourcecatalog`, `internal/sourceutil` | per-source records, ids seen | seed, merge, ObserveEvent, Snapshot, Summary, Detail | filled from three sides at once, rebuilt at a restart | SourceTypes, SourceCatalog, SourceObservation |
| Statistics | `internal/stats` | counters, rate, latest time | Add, reads | an answer from several locks, times compared as strings | Counters, Statistics, Intake |
| Queries | `internal/storage/jsonl.go` | - | ReadFiltered | which N of many | EventQuery, EventConsole |
| Normalizers | `internal/ingest` | - | a body to events | overlapping conditions, ids that must not change | SourceEvents, GDSEvents, JumphostEvents, OPCUADMZEvents, VaultAudit, Intake |
| Validation, enrichment | `internal/event/model.go`, `internal/normalizer` | - | defaults, id, tags | a second pass over what was stored | EventNormalization, Intake |

`ingestOne` writes the events file, then the spool, then answers; it pushes to the
queue only if forwarding is enabled. The worker takes batches from the queue and
moves the checkpoint. Operators (POST `/config/forwarding`, `/forwarding/flush`), the
worker after each batch, and start-up load everything past the checkpoint back into
the queue. One mutex in `App` protects the maps but no sequence of calls: every lock,
file operation and send is a point where goroutines interleave.

What makes each component correct: an event is stored once and before anything else
is promised about it; the checkpoint names only delivered records; `inflight` marks
only what is on its way; a pause holds; enabled forwarding leaves nothing behind;
a viewer never blocks or crashes ingestion; the configuration in force is one that
somebody asked for; what the collector reports about itself is neither counted twice
nor made up; a source counts each of its events once and loses none to a refresh; what is
sent again, or read back, gets the id, class and tags it had; every row of a body is
accounted for; an alarm stays an alarm in whichever form it is reported. The hazards
behind these are listed, with their lines, under `hazards` in `PROJECT.json`.

## 2. Modules

**EventRelay** is what the collector promises with no queue, threads or files: four
growing sets, `stored`, `spooled`, `acked`, `forwarded`, and their order.

**DeliveryPipeline** is the whole path of an event. `pc[g]` says where goroutine `g`
stands; ingesters run `Receive, StoreAppend, SpoolAppend, RecordOffset, CheckEnabled`
and, like operators, the worker and start-up, `CheckInflight, Push, MarkInflight`
(enqueueIfNeeded has three critical sections). The worker runs `ReadConfig, Pop,
PopDone, HoldBatch | StartBatch, SendOk | SendError, MarkBatchForwarded,
ForgetInflight, LoadBacklog`. Files are sequences of fragments: a record or `Torn`, what
a failed or interrupted write left; the record behind a `Torn` fragment is glued to it
and unreadable, as in a JSONL file. A spool offset is the number of fragments before
the record (the code has bytes; only their order and the value 0 matter). `Crash` kills
the process at any step and runs `main` up to the start of the goroutines; enqueuing at
start-up is stepwise, by goroutine `Boot`. The model is of the syslog path, the only one the
queue, worker and checkpoint serve; `splunk` appears where it decides whether the
backlog is loaded.

Abstractions: an event is its id and whether it is high-value or over the scanner's limit;
`POST` bodies are configurations; a config update is one step here (ForwardingSettings
splits it); a fragment that is a whole record short only of its newline counts as
torn; time is absent (waits are steps that may be delayed).

**ForwardQueue** counts instead of naming events: the channel's length, the batch, and
`QueueStats`, with the step between the channel send and `Queued++`.

**StreamHub**: publishers hold the read lock while they walk the clients in any order;
Subscribe and Unsubscribe need the lock alone. `due` and `written` are history.

**ForwardingSettings**: consoles POST what they cached, the handler reads the current
token and replaces in two critical sections, `Replace` takes effect before it persists,
and the queue's paused flag is written by the handler and the worker. Only the paused
flag and the HEC token are kept of the configuration; the other fields travel with them.
`forwarding.json` may be left empty or half written.

**SplunkTelemetry** counts instead of naming events. An accepted event is counted, then
handed to an attempt that succeeds or fails once. `tpc` says where `runSelfTelemetry`
stands in its tick; it reads the total and the Splunk counters in two steps, emits up to
five events that are accepted and attempted like all others, and moves its three
watermarks by three more reads. The deltas live in one map, `raw`, with which all later
events of the tick are emitted (`EmitMap`). `ReportSpool` may emit or not: the queue depth it
looks at is a matter of ForwardQueue. `received`, `forwarded`, `said` and `alarm` are history.

**SourceTypes** and **EventNormalization** are the pure functions every event passes: names of
sources, defaults and the computed id (`EnsureDefaults`), `ValidateAndNormalize`, `EnrichDMZ`.
An event is a record; of its texts only the needles the code looks for are kept, in `words`
(blanks written as underscores), and a set of needles stands for all texts in which just these occur. SHA-1 is taken to be
injective. A time is a number of hundredths of a second, in UTC; the one a sender of `/events` says
it received the event at also has the offset of the zone it is written in. Of blanks the
model has only the word that is nothing but blanks (`Blanks`): trimming leaves other words as they are.

**SourceEvents** has what the normalizers share: a *row*, what a sender reports about one
occurrence, and the event built from a row and its class. **GDSEvents**, **JumphostEvents** (with
the syslog lines), **OPCUADMZEvents** and **VaultAudit** class a row in the order the code tries its
forms, tables and heuristics; a switch whose cases overlap is a sequence of pairs and
`FirstMatch`. What each form keeps of a row in `Raw`, and so in the id, is its own: a row's text as
a whole is `details`, the object in its field `raw` is `original`, the fields its endpoint's
whitelist lets through are `safe`; each only tells a text from others. The text of a jump host and
the line of sshd in it are found in two lists of fields, so they are `words` and `line`. Where
else in a JSON object a field may stand, redaction and the copies of metadata are left out.

**Counters** are Go's maps of counts, **Statistics** `internal/stats`, **SourceCatalog** the catalog:
each operation holds the mutex of its object, so each is an operator from the state before to
the state after. `StringOrder` is the order of times as strings: a fraction is written without
zeros at its end, and what follows the digits sorts before the point if it is the sign of an
offset, after the digits if it is "Z". Times are compared as written, not as instants.

**Intake** composes them: a handler decodes a whole body (`Deliver`), `IngestBatch` takes its
events one by one (`Ingest`, `Count`), a sender whose answer is lost sends the same bytes
again (`SendAgain`), and a monitor reads the counters of `/stats/summary` in three steps.
Appends do not fail here; DeliveryPipeline has their failures and races.

**SourceObservation** composes the catalog with those who use it: POST handlers
(`ReceivePosted`), the poller and the stream of the OT collector (`ReceiveFromOT` observes
the event before `Claim`), the refresh each request for the sources makes (`Seed`, `Fetch`
or `FetchFails`, `Merge`, `Answer`), and a restart, after which `Bootstrap` observes the stored
events one after the other. `uncounted` and `overtaken` are history. The file holds what
can be read back; the OT collector configures a type and address once.

**EventQuery** is `ReadFiltered`. **EventConsole** composes StreamHub with the events file, the
query and the browser's table: a load is a request answered from the file at one moment
(`Ask`) and its arrival at another (`LoadEnds`), in any order among loads and live events
(`Show`); whether the stream is paused is chosen at each event.

EventRelay is implemented by DeliveryPipeline (`ImplementsEventRelay`); the other modules
meet DeliveryPipeline at one operation each: ForwardQueue has the counters of the queue whose
contents it has, ForwardingSettings splits its `UpdateConfig`, StreamHub and SplunkTelemetry
take the event after `RecordOffset`, where the pipeline learns nothing from them (that
`Publish` returns is PublishEnds, and the Splunk attempt has a goroutine of its own).

The `MC*` modules hold instances for TLC; SplunkTelemetry needs none. `*Proofs` hold the theorems, SharedFacts
the lemmas several of them cite: on sequences, on sums as folds over a finite set, and on what
normalization does to an event. Operators marked "Faulty
variant" are not part of any specification: each is a plausible bug that the property
next to it in `PROJECT.json` "mutants" must notice.

## 3. Runs

| Run | Shows | Bounds |
|---|---|---|
| interleaving | TypeOK, InflightIsHeld, PauseTakesEffect | 2 ingesters, 2 events, an operator, a queue of 1 so that pushes fail, one configuration that cannot be written |
| recovery | StoredOnce, CheckpointIsForwarded, ImplementsEventRelay | 2 ingesters, 2 events (one over 64 KiB), one failing operation of any data file, one crash |
| delivery | BacklogIsQueued, NothingIsLeftBehind, QueuedIsForwarded, AckedIsForwarded | 1 ingester, 2 events, a pausing, resuming and flushing operator, sends that fail repeatedly, a queue that never fills |
| depth | TypeOK, BacklogIsReported, DriftIsBounded | 3 pushers, 8 pushes, queue of 3, 2 failed batches |
| stream | TypeOK, NoSendOnClosed, OnlySlowViewersMiss, InOrder, TableIsFaithful, AnswerIsNewest, PublishEnds | 2 publishers of different types, 3 events, a browser with a table of 2 and two loads, a plain reader, channels of 1, 2 subscriptions |
| settings | TokenIsSubmitted, PausedFlagsAgree | 2 consoles, 3 POSTs, one failing write, 2 restarts |
| telemetry | TypeOK, DeltasDoNotOverlap, RecoveryNeedsSuccess | one outside event, 2 ticks with their own events, one refused report |
| observation | TypeOK, CountedOnce, StoredIsCounted, NothingIsForgotten, AnswerFollowsOT, PanelsAgree | a poster and the poller, the same 2 events (one overlong, one of a source that is both a default and configured), one request at a time, two configurations, one failing append, one restart |
| intake | TypeOK, RowsAreAnswered, RetryStoresOnce, StoredIsStable, AlarmIsRaised, SameLineSameMessage, StatsAddUp, LatestIsThisSecond, StatsAnswerIsForward | a sender of any 2 of 20 bodies, one of them possibly again, 3 instants around the end of a second and a minute, a monitor |

Why these are enough: every hazard needs at most two concurrent calls of the same code
and one more of the worker or an operator, one failure and one or two restarts; a
recovery needs the tick of its failure and one more; a row is classed by itself, so two bodies
suffice for any pair of forms (the 20 bodies reach each form and each way to refuse a body), and a
retry needs the instants before and after a boundary of the clock. The cfgs give each question exactly
that, and the theorems of section 5 remove the bounds for most of them. Where a cfg turns
the deadlock check off, the system may stop: pushes, POSTs, events, viewers or ticks are
used up, or (ForwardingSettings) `forwarding.json` is half a file and `main` exits.

Runs that end in a counterexample, each against a sentence of the documentation:

| Run | The documentation | What happens |
|---|---|---|
| failed_store | the id is an idempotency key (README.md:27) | an id is remembered before its append fails; the repeated submission is dropped |
| first_record | flush enqueues pending records (README.md:240) | offset 0 is never greater than an absent checkpoint |
| no_retry | Splunk down: the queue grows, the spool persists (README.md:282) | a failed attempt is counted and forgotten; the queue serves syslog only |

The models contain further behaviours, each found while modelling, that no document
contradicts plainly enough to be a run of its own:

- Delivery. A line over 64 KiB empties the id set and the catalog at the next start
  (`LoadIDSet`, `Scannable`), so an event may be stored again, which is why `StoredOnce` speaks
  of a scannable file. A record behind a torn one is unreadable although it was accepted. The
  checkpoint is the highest offset of a batch, so it passes a record that met a full queue, which
  is then not pending any more (`MarkBatchForwarded`). High-value events come first only inside
  a batch. A decrement lost to the clamp leaves the reported depth too high for ever.
- Configuration. A blank token puts back the one read before another console's Save
  (`ReadCurrent`, `Replace`); an interrupted write of `forwarding.json` brings the
  environment's configuration back (`Crash`).
- Telemetry. A failure counted between the read of a tick and its watermark, those of its own
  heartbeat among them, is never announced (`MarkFailed`). The deltas of a tick are in its later
  events too, in raw and as tags (main.go:752-785): whoever sums `events_received_delta` over all
  events of the collector gets up to four times what it received, which is why
  `DeltasDoNotOverlap` counts the events named for a delta apart from the others.
- Intake. A row with neither id nor time is stored again when it is sent again: the time of
  arrival is part of the computed id, although the comment at model.go:140 and README.md:294
  speak of retried payloads (`RetryStoresOnce` is about dated rows). Of a GDS control-plane
  record only `log_message` gets into the event: it loses its alert, two of them with the same
  time and message have the same id, and `event_type` is not looked at, so an
  `agent_auth_failure` with a log message is an unknown event (gds_events.go:760-797).
  Of other rows too only some fields are kept in `Raw`, or none: rows of the same time, message and
  category that differ in the fields left out have the same id, and all but the first are dropped
  as known (gds_events.go:235-240, 364-373, 436-439; opcua_dmz_events.go:157-161; `RowsAreAnswered`
  claims no more). A severity or category of blanks is stored empty, as it is trimmed after the
  defaults, and is `info` or `unknown` when it is read back (validator.go:24-25). A line of sshd
  in `msg` is read if the jump host names no event, but stays `jump_event_unknown` under that name: the
  second lookup has no `msg` (jumphost_events.go:114, 313-322; `IsSSHLine` leaves it out).
  `artifact_regenerated` is classed differently in three forms. A path with `auth/token/revoke`
  is a certificate revocation (`ClassifyVaultAudit`). The index hint of a normalizer is always
  overwritten (`EnrichDMZ`). The code's type of IDS events is `labshock:ot:ids`; README.md:99 calls it
  `labshock:ids:alert`. Only a Content-Length announces a body too large (`Refused`). `/ids/alerts`
  answers `queued: 1` even for a duplicate.
- Statistics. Within one second the latest time may be an earlier one (`StringOrder`), and a
  `received_at` that a sender wrote in a zone ahead of UTC stays the latest for hours
  (model.go:59, stats.go:88); the parts of one answer are of different moments.
- Sources. Each request puts the built-in `enabled` flags back before it fetches those of the
  OT collector, so another request, or this one when the fetch fails, shows them
  (`AnswerFollowsOT` leaves these out). `include_disabled` also shows internal and direct-SIEM
  sources, and internal sources are shown although disabled (`ShouldInclude`). An event without
  an address makes a source of its own (`SourceKey`). `markSourceSeen` changes nothing visible.
- Console. A live event that arrives while a load is on its way leaves the table again when the
  load ends (`LoadEnds`), and a live event in front of a full table pushes out the newest of the
  loaded history, which stands last (`WithLiveEvent`).

## 4. Fairness

DeliveryPipeline: weak fairness of each goroutine's own steps (nothing in the code
blocks for ever: the dial has a timeout, file operations return, PopBatch waits one
second) and strong fairness of a successful send of each event, the assumption
that a destination tried again and again recovers. Clients, operators and crashes
have none, and QueuedIsForwarded and AckedIsForwarded say under which conditions on
the configuration they hold; they are checked without crashes, because the queue does not
survive one and the checkpoint may already have passed what it held. EventConsole, as
StreamHub: publishers are scheduled, viewers and browsers need not do anything. Intake and SourceObservation
are checked for safety only and state no fairness. ForwardingSettings: handlers, the timer that polls, the
worker's loop and a restart happen; POSTs need not. SplunkTelemetry (for no_retry only):
the client has a timeout, so attempts end; the tick loop runs; and an attempt that is made
again and again succeeds in the end, so that the counterexample is not one of a Splunk that
refuses everything.

## 5. Proofs

All for arbitrary constants (any number of events, goroutines, failures and crashes),
under the ASSUMEs of the modules: distinct names for actors, positive sizes, and an
environment that does not pause forwarding; rows posted to `/events` are records with the fields
of an event, and a time of arrival is not negative as written in its zone; syslog lines are text
without a time; a body's kept rows are a sequence of its rows (the provers know nothing of
`SelectSeq`); events of the OT collector have an id and a time. TLC evaluates each of them.

- `TypeCorrect`: `TypeOK` is not inductive. `WellFormed` adds that every offset a goroutine or
  `offsetByID` holds is a record of the spool (`OffsetsLocated`: a push reads the
  record), that an ingester past its first step has an event in hand, and that a
  batch being sent is not exhausted.
- `Refinement`: uses `HeldIsSpooled` (what is queued or pending is in the spool file; an ingester
  about to spool has stored), then maps each action to a step or a stutter of EventRelay.
- `CheckpointCorrect`: `SentIsForwarded` adds that the sent prefix of the batch is forwarded,
  and all of it when the checkpoint is due.
- `StoredAtMostOnce`: `SeenCovers` adds that every readable stored id and every id being stored is
  in `seenIDs`, that an id being stored is not yet in the file, and that no two ingesters
  store the same one.
- `InflightCorrect`: `MarksAreHeld` adds that a pushed but unmarked record is held or forwarded
  and that a batch to be forgotten was forwarded.
- `PauseCorrect`: `PauseIsSeen` ties the history counter to the worker's copy.
- `BacklogReported`, `DriftBounded` (ForwardQueue): the counter's error stays between zero and the
  number of pushes under way or clamped away, by sets of goroutines between two steps.
- `NeverSendsOnClosed`, `OnlySlowViewersMissEvents` (StreamHub): a reader excludes writers, so a walk
  only holds subscribed clients; an event is due at the end of a walk, when it has
  been offered to every client.
- `EventsInOrder` (StreamHub): `OrderInv` adds that what a channel holds continues what was
  written, that both are ordered per publisher, and that the event a walk carries is newer than all of them.
- `ConsoleLeavesHubAlone`: every step of EventConsole is a step of StreamHub or leaves its variables
  alone, so the theorems about the hub hold of the composition the run checks.
- `NothingReportedTwice`, `RecoveriesAreReal` (SplunkTelemetry): `Watermarks` adds that reads and
  watermarks are values the counters once had, that what was reported is covered by a
  watermark or by the read it is about to be overtaken by, and that the next tick starts
  with a watermark past the successes known at the last failure. The first states two bounds: the
  events named for a delta report nothing twice, and all events together report a delta at
  most as often as there are events of a tick that share its map (`RepeatsAreCovered`: what was said
  and what the tick may still repeat is covered by that many times the watermark).
- `BacklogCorrect` (DeliveryPipeline): `Spec /\ []QueueHasRoom => []BacklogIsQueued`, for a `MayFail`
  without "config". Both hypotheses are those of the property: what meets a full queue is passed
  by the checkpoint, and a configuration that was not written is gone after a restart (section 3).
  `BacklogCovered` adds that the saved configuration is the one in force and that an
  ingester enqueues nothing before it has spooled. The property itself had to learn
  that the checkpoint may move back, so that a load is still due (`LoadDue`).
- `NothingLeftBehind` (DeliveryPipeline): `BacklogIsQueued` leaves out the record at offset 0 and the time
  in which a load is due. While the process lives, the queue has room and forwarding stays on, neither
  is needed: every record of the spool was forwarded, is held, or is in the hands of the
  goroutine that spooled it. `EverythingInHand` adds that only goroutines between the spool and the
  mark have anything to enqueue; with `MarksAreHeld` a mark that makes `enqueueIfNeeded`
  skip a record stands for a copy that is held, and with `SentIsForwarded` what is forgotten was
  sent. Writes of the configuration may fail here.
- `SeenIsStoredUnlessAppendsFail` and `FirstRecordKept` (DeliveryPipeline) are the other side of the
  runs failed_store and first_record. The first: if no append to the events file fails, every id that
  is answered as a duplicate is in the file, in spite of torn spools, crashes and restarts
  (`SeenIsAccounted`: an id that is seen is in the file or about to be). The second: with forwarding on, a queue
  with room and no restart the first record is recoverable. So each counterexample needs the very
  cause its finding names.
- `TokenStaysSubmitted` (ForwardingSettings): `SettingsInv` follows the token through every place it can
  come into force from: the file, the environment, what a handler has read, a POST on its way.
- `StoredStaysStable` (Intake): an event is *settled* if its type is canonical, no default is
  missing but for a severity or category that was trimmed away, the rules of its type change
  nothing and its tags are those of `EnrichDMZ`. SharedFacts shows that what is accepted is settled
  whatever came in (`AcceptedIsSettled`: canonical types are fixed points of `NormalizeSourceType`,
  the rules keep the event's defaults, enrichment looks at nothing it writes but `high`, which it
  only raises) and that a second pass fills in what was trimmed away and changes nothing else
  (`StoredComesBack`). The invariant is that the file and what is being counted are settled.
- `RetriesStoreOnce`, `AnsweredRowsAreFiled` (Intake): `EverythingIsTracked` adds where each row is
  (`RowsAreTracked`: counted, or still to come in the order of the body), that each stored
  event was made from the row beside it at an instant of the clock and that its id is known
  (`FileIsKnown`), and that nothing is counted twice (`CountedOnce`). A dated row gets the same id at
  every instant, so the second arrival finds it known. If what is known came from another row, the
  answer still is not wrong: a computed id carries time, type, address, message and raw
  (`DefaultsIdentify`), so two events of one id say the same. `RowsAreTold` keeps this from the
  decoded body to the file, since nothing that an accepted event goes through changes these
  (`AcceptingKeepsTold`). Left out is an id that a sender of `/events` chose.
- `CountersAddUp`: every map of counts sums up to `totalReceived`, and this and the events being
  counted make up the file (`CountsAgree`); one more in a class is one more in the sum (`SumOfTable`).
- `LatestStaysThisSecond`: the latest time is that of an event counted and no other is greater as a
  string; of two times written with different seconds, in whatever zones, the greater string has
  the later second (`LaterSecond`: a second weighs more than any fraction and what follows it,
  `FractionsAreFew`, and the first digit that differs decides, `FirstDecides`).
- `AnswersGoForward`: `MonitorFollows` bounds each number the monitor holds by the counter it was read
  from, and those by each other; counters only grow.
- `AlarmsAreRaised`, `LinesMeanTheSame` (Intake): a class *raises its alarm* if it is not critical or has a
  high risk and is an alert. Every entry of every table does, and so does whatever `FirstMatch`
  chooses of them (`SwitchRaisesAlarm`), in whichever form a row comes (`GDSForms`: only the
  control plane's drops the alert). `RowsAreTold` carries this, and the message of a line of sshd, from
  the decoded body to the file: the defaults, rules and enrichment leave them alone (`AcceptingKeepsTold`).
  A line means the same if both lookups of the jump host's handler find it or the name is missing
  (`LineMeansSame`, `SyslogMeansSame`). Both are about rows that go through a table; what is posted to `/events` says what its sender
  wrote, with a severity, risk and message of the sender's choice.
- `TableStaysFaithful`, `AnswersAreNewest` (EventConsole): the file holds no event twice, a published event
  is in it, and the table only takes from answers and published events (`FileInv`, `ShownInv`). That
  `ReadFiltered` keeps the newest is shown for its fold over the file, by the least
  length for which it would not.
- `EventsCountOnce`, `FileIsCounted`, `NothingGetsForgotten` (SourceObservation): `CatalogInv` adds that
  what a goroutine works on is accounted for in its step: an event to be observed is in the
  file, one to be appended is claimed, and what the restart has yet to load is in the file.
  Normalizing keeps the id, type and address of an event, so the two observations of one
  event fall into one record (`ParsingKeepsIdentity`, `AcceptingKeepsIdentity`).
- `AnswersFollowOT` (SourceObservation): `AnswerInv` says that the flags a request has merged are still those of
  the records when it answers, unless another request overtook it; events leave flags alone.
- `PanelsAlwaysAgree` (SourceObservation): at any records that satisfy `PanelInv` the list and the summary
  sum the same sets of records, partitioned by group, type, severity and category
  (`ListAndSummaryAgree`); the counts of one record add up to its events (`RecordCounts`).
- `TypeCorrect` of ForwardQueue, StreamHub, SplunkTelemetry, ForwardingSettings, Intake and SourceObservation:
  conjuncts and consequences of the invariants above. That of ForwardingSettings is only proved; the
  run `settings` spends its time on the other two.

Folds and sums are within the provers' reach where the fact is about every prefix of a sequence (take
the least prefix for which it fails, `WFMin`) or about every finite set (`FiniteInduction`, whose
hypothesis is a set of sets and no operator, and `FoldExists`). RECURSIVE operators and `SelectSeq` are
not, which is why Intake assumes that the rows kept of a body are a sequence of its rows.

Model-checked only: the liveness properties QueuedIsForwarded, AckedIsForwarded, PublishEnds and
PausedFlagsAgree (fairness is out of the prover's reach).

## 6. Not modelled, and what could follow

- Retry backoff: a wait computed from the attempt number; time is absent from DeliveryPipeline, where
  a wait is a step that may be delayed.
- HTTP server and tokens: routing and one comparison of a bearer token, no state.
- Environment configuration, rules and the Vault client: read once or static.
- SQLite: a stub that only defines an error.
- The Vault audit forwarder: a shell pipe that keeps no state; its POSTs are those of Intake.
- Rendering and the filters of the console that only change what is drawn; `ReadByID`; the
  payload of HEC, the Splunk test endpoint and the last-result texts; the order of lines within
  one connection of the OT stream, reconnecting and its backoff (the readers of
  SourceObservation take any event at any time, which covers every order).
- Parsing and formatting of payloads, redaction, metadata fields of the normalizers: see section 2.

Every safety property the runs check is a theorem, and the two safety properties refuted in section
3 are theorems under the condition that excludes the cause. Worth stating next: what the tables
of the GDS and the gateway make of one occurrence in two of their forms.
