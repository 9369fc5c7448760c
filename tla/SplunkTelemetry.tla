--------------------------- MODULE SplunkTelemetry ---------------------------
(***************************************************************************)
(* The Splunk path (cmd/dmz-collector/main.go): every accepted event is    *)
(* handed to a goroutine of its own that makes one attempt and counts the  *)
(* outcome, and runSelfTelemetry watches the counters from tick to tick    *)
(* and reports on them with events that take the same path.  The counters  *)
(* move between any two of its reads.  Events are counted, not named; the  *)
(* queue depth is whatever ForwardQueue lets it be.                        *)
(***************************************************************************)
EXTENDS Naturals

CONSTANTS
    SplunkEnabled,          \* cfg.Splunk.Enabled
    EmitFlowCounters,       \* cfg.SelfTelemetry.EmitEventFlowCounters
    MaxEvents,              \* bound: events from outside
    MaxTicks,               \* bound: ticks
    MaxLost                 \* bound: telemetry events ingestOne refuses (a failing file)

ASSUME SwitchesAssumption == SplunkEnabled \in BOOLEAN /\ EmitFlowCounters \in BOOLEAN
ASSUME BoundsAssumption == MaxEvents \in Nat /\ MaxTicks \in Nat /\ MaxLost \in Nat

VARIABLES
    total,                  \* Stats.TotalReceived
    undispatched,           \* ingesting goroutines between stats.Add and dispatchSplunkForward
    running,                \* attempts under way
    successes, failures,    \* splunkSuccessCount, splunkFailedCount
    tpc,                    \* where runSelfTelemetry stands
    seen,                   \* what its tick read
    last,                   \* lastTotal, lastForwarded, lastFailed
    hecWasFailed,
    raw,                    \* the deltas in the map its tick emits events with; 0: not there
    \* history: what its events said
    received,               \* sum of events_received_delta in dmz_collector_event_received
    forwarded,              \* sum of events_forwarded_delta in dmz_collector_event_forwarded
    said,                   \* sums of both in all events
    alarm,                  \* the counters behind the latest dmz_collector_hec_failure
    events, ticks, lost     \* bounds

Counters == [total : Nat, forwarded : Nat, failed : Nat]
Zero == [total |-> 0, forwarded |-> 0, failed |-> 0]

Deltas == [received : Nat, forwarded : Nat]
NoDeltas == [received |-> 0, forwarded |-> 0]

attemptVars == <<running, successes, failures>>
reportVars  == <<raw, received, forwarded, said, alarm>>
vars == <<total, undispatched, attemptVars, tpc, seen, last, hecWasFailed, reportVars,
          events, ticks, lost>>

Init ==
    /\ total = 0 /\ undispatched = 0
    /\ running = 0 /\ successes = 0 /\ failures = 0
    /\ tpc = "start" /\ seen = Zero /\ last = Zero
    /\ hecWasFailed = FALSE
    /\ raw = NoDeltas
    /\ received = 0 /\ forwarded = 0 /\ said = NoDeltas /\ alarm = Zero
    /\ events = 0 /\ ticks = 0 /\ lost = 0
-----------------------------------------------------------------------------
(***************************************************************************)
(* Events from outside: the last steps of ingestOne, then the attempt.     *)
(***************************************************************************)
Add ==
    /\ events < MaxEvents
    /\ events' = events + 1
    /\ total' = total + 1
    /\ undispatched' = undispatched + 1
    /\ UNCHANGED <<attemptVars, tpc, seen, last, hecWasFailed, reportVars, ticks, lost>>

Attempts == IF SplunkEnabled THEN running + 1 ELSE running

Dispatch ==
    /\ undispatched > 0
    /\ undispatched' = undispatched - 1
    /\ running' = Attempts
    /\ UNCHANGED <<total, successes, failures, tpc, seen, last, hecWasFailed, reportVars,
                   events, ticks, lost>>

(* recordSplunkAttempt *)
AttemptSucceeds ==
    /\ running > 0
    /\ running' = running - 1
    /\ successes' = successes + 1
    /\ UNCHANGED <<total, undispatched, failures, tpc, seen, last, hecWasFailed, reportVars,
                   events, ticks, lost>>

(* Faulty variant: a failure is recorded even when the attempt was recorded before. *)
AttemptFailsAgain ==
    /\ running' = running - 1
    /\ failures' = failures + 1
    /\ UNCHANGED <<total, undispatched, successes, tpc, seen, last, hecWasFailed, reportVars,
                   events, ticks, lost>>

AttemptFails ==
    /\ running > 0
    /\ running' = running - 1
    /\ failures' = failures + 1
    /\ UNCHANGED <<total, undispatched, successes, tpc, seen, last, hecWasFailed, reportVars,
                   events, ticks, lost>>

-----------------------------------------------------------------------------
(***************************************************************************)
(* runSelfTelemetry.  emitSelfTelemetry ingests an event of its own; an    *)
(* error is ignored.  Counting that event and dispatching it is one step:  *)
(* the goroutine that does both is the only one to read the counters.      *)
(* All events of a tick are emitted with one map: a delta, once in it, is  *)
(* also in the events after the one it is computed for.                    *)
(***************************************************************************)
Emit(accepted) ==
    /\ accepted \/ lost < MaxLost
    /\ total'   = IF accepted THEN total + 1 ELSE total
    /\ running' = IF accepted THEN Attempts ELSE running
    /\ lost'    = IF accepted THEN lost ELSE lost + 1

(* the map is emitted as it is *)
EmitMap(map, accepted) ==
    /\ Emit(accepted)
    /\ said' = IF accepted THEN [received  |-> said.received + map.received,
                                 forwarded |-> said.forwarded + map.forwarded]
                           ELSE said

NoEmit == UNCHANGED <<total, running, lost, said>>

Started ==
    /\ tpc = "start"
    /\ \E ok \in BOOLEAN : Emit(ok)
    /\ tpc' = "wait"
    /\ UNCHANGED <<undispatched, successes, failures, seen, last, hecWasFailed, reportVars,
                   events, ticks>>

(* ctx.Done(), seen between two ticks *)
Stop ==
    /\ tpc = "wait"
    /\ \E ok \in BOOLEAN : Emit(ok)
    /\ tpc' = "stopped"
    /\ UNCHANGED <<undispatched, successes, failures, seen, last, hecWasFailed, reportVars,
                   events, ticks>>

ReadTotal ==
    /\ tpc = "wait"
    /\ ticks < MaxTicks
    /\ ticks' = ticks + 1
    /\ seen' = [seen EXCEPT !.total = total]
    /\ tpc' = "splunk"
    /\ UNCHANGED <<total, undispatched, attemptVars, last, hecWasFailed, reportVars, events, lost>>

ReadSplunk ==
    /\ tpc = "splunk"
    /\ seen' = [seen EXCEPT !.forwarded = successes, !.failed = failures]
    /\ raw' = NoDeltas
    /\ tpc' = "heartbeat"
    /\ UNCHANGED <<total, undispatched, attemptVars, last, hecWasFailed, received, forwarded,
                   said, alarm, events, ticks, lost>>

(* the map has no deltas yet *)
Heartbeat ==
    /\ tpc = "heartbeat"
    /\ \E ok \in BOOLEAN : Emit(ok)
    /\ tpc' = "received"
    /\ UNCHANGED <<undispatched, successes, failures, seen, last, hecWasFailed, reportVars,
                   events, ticks>>

ReportReceived ==
    /\ tpc = "received"
    /\ IF EmitFlowCounters /\ seen.total > last.total
       THEN \E ok \in BOOLEAN :
               /\ raw' = [raw EXCEPT !.received = seen.total - last.total]
               /\ EmitMap(raw', ok)
               /\ received' = IF ok THEN received + raw'.received ELSE received
       ELSE NoEmit /\ UNCHANGED <<raw, received>>
    /\ tpc' = "forwarded"
    /\ UNCHANGED <<undispatched, successes, failures, seen, last, hecWasFailed, forwarded,
                   alarm, events, ticks>>

ReportForwarded ==
    /\ tpc = "forwarded"
    /\ IF EmitFlowCounters /\ seen.forwarded > last.forwarded
       THEN \E ok \in BOOLEAN :
               /\ raw' = [raw EXCEPT !.forwarded = seen.forwarded - last.forwarded]
               /\ EmitMap(raw', ok)
               /\ forwarded' = IF ok THEN forwarded + raw'.forwarded ELSE forwarded
       ELSE NoEmit /\ UNCHANGED <<raw, forwarded>>
    /\ tpc' = "alarm"
    /\ UNCHANGED <<undispatched, successes, failures, seen, last, hecWasFailed, received,
                   alarm, events, ticks>>

HecFailed == seen.failed > last.failed

(* Faulty variant: the end of failures is taken for a recovery. *)
HecRecoveredAnyway == hecWasFailed /\ seen.failed = last.failed

HecRecovered ==
    /\ hecWasFailed
    /\ seen.failed = last.failed
    /\ seen.forwarded > last.forwarded

(* dmz_collector_hec_failure, dmz_collector_hec_recovered *)
ReportFailure ==
    /\ tpc = "alarm" /\ HecFailed
    /\ \E ok \in BOOLEAN : EmitMap(raw, ok)
    /\ alarm' = seen
    /\ hecWasFailed' = TRUE
    /\ tpc' = "spool"
    /\ UNCHANGED <<undispatched, successes, failures, seen, last, raw, received, forwarded,
                   events, ticks>>

ReportRecovery ==
    /\ tpc = "alarm" /\ ~HecFailed /\ HecRecovered
    /\ \E ok \in BOOLEAN : EmitMap(raw, ok)
    /\ hecWasFailed' = FALSE
    /\ tpc' = "spool"
    /\ UNCHANGED <<undispatched, successes, failures, seen, last, raw, received, forwarded,
                   alarm, events, ticks>>

ReportNothing ==
    /\ tpc = "alarm" /\ ~HecFailed /\ ~HecRecovered
    /\ tpc' = "spool"
    /\ UNCHANGED <<total, undispatched, attemptVars, seen, last, hecWasFailed, reportVars,
                   events, ticks, lost>>

(* dmz_collector_spool_overflow, dmz_collector_spool_growing or neither *)
ReportSpool ==
    /\ tpc = "spool"
    /\ NoEmit \/ \E ok \in BOOLEAN : EmitMap(raw, ok)
    /\ tpc' = "markTotal"
    /\ UNCHANGED <<undispatched, successes, failures, seen, last, hecWasFailed, raw, received,
                   forwarded, alarm, events, ticks>>

(* Faulty variant: the watermark stays where it is. *)
MarkTotalKeeps ==
    /\ tpc = "markTotal"
    /\ tpc' = "markForwarded"
    /\ UNCHANGED <<total, undispatched, attemptVars, seen, last, hecWasFailed, reportVars,
                   events, ticks, lost>>

MarkTotal ==
    /\ tpc = "markTotal"
    /\ last' = [last EXCEPT !.total = total]
    /\ tpc' = "markForwarded"
    /\ UNCHANGED <<total, undispatched, attemptVars, seen, hecWasFailed, reportVars, events,
                   ticks, lost>>

MarkForwarded ==
    /\ tpc = "markForwarded"
    /\ last' = [last EXCEPT !.forwarded = successes]
    /\ tpc' = "markFailed"
    /\ UNCHANGED <<total, undispatched, attemptVars, seen, hecWasFailed, reportVars, events,
                   ticks, lost>>

MarkFailed ==
    /\ tpc = "markFailed"
    /\ last' = [last EXCEPT !.failed = failures]
    /\ tpc' = "wait"
    /\ UNCHANGED <<total, undispatched, attemptVars, seen, hecWasFailed, reportVars, events,
                   ticks, lost>>

Ingest  == Add \/ Dispatch
Attempt == AttemptSucceeds \/ AttemptFails
Report  == ReportReceived \/ ReportForwarded \/ ReportFailure \/ ReportRecovery \/ ReportNothing
Mark    == MarkTotal \/ MarkForwarded \/ MarkFailed
Tick    == Started \/ ReadTotal \/ ReadSplunk \/ Heartbeat \/ Report \/ ReportSpool \/ Mark

Next == Ingest \/ Attempt \/ Tick \/ Stop

Spec == Init /\ [][Next]_vars

(* Attempts end (the client has a timeout), goroutines are scheduled, and a Splunk
   that is tried again and again accepts in the end. *)
FairSpec ==
    /\ Spec
    /\ WF_vars(Dispatch) /\ WF_vars(Attempt) /\ WF_vars(Tick) /\ SF_vars(AttemptSucceeds)
-----------------------------------------------------------------------------
Labels == {"start", "wait", "splunk", "heartbeat", "received", "forwarded", "alarm", "spool",
           "markTotal", "markForwarded", "markFailed", "stopped"}

(* The type invariant. *)
TypeOK ==
    /\ total \in Nat /\ undispatched \in Nat
    /\ running \in Nat /\ successes \in Nat /\ failures \in Nat
    /\ tpc \in Labels
    /\ seen \in Counters /\ last \in Counters
    /\ hecWasFailed \in BOOLEAN
    /\ raw \in Deltas /\ said \in Deltas
    /\ received \in Nat /\ forwarded \in Nat /\ alarm \in Counters
    /\ events \in Nat /\ ticks \in Nat /\ lost \in Nat

(* No event is in the deltas of two ticks: the deltas of the events named for them
   never add up to more than the counters, although each tick moves its watermarks
   in three reads of their own, after having read the counters and emitted up to
   five events that move them (main.go:747-789).  The later events of a tick repeat
   its deltas, as they share its map; so the sums over all events are bounded only
   by four times the one counter, three times the other. *)
DeltasDoNotOverlap ==
    /\ received <= total /\ forwarded <= successes
    /\ said.received <= 4 * total /\ said.forwarded <= 3 * successes

(* A recovery is announced only if an attempt succeeded after the counters of the
   failure it ends were read, over however many ticks in between
   (main.go:775-781). *)
RecoveryNeedsSuccess ==
    [][ReportRecovery => seen.forwarded > alarm.forwarded]_vars
-----------------------------------------------------------------------------
(* README.md:282: while Splunk is down the queue grows and the spool persists, and
   README.md:19: forwarding is retried with backoff on failure.  Then, with a Splunk
   that accepts again and again, all accepted events reach it in the end.  They do
   not: an attempt that failed is counted and forgotten (main.go:1017-1046). *)
AcceptedReachesSplunk == <>[](successes = total)
=============================================================================
