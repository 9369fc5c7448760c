------------------------ MODULE SplunkTelemetryProofs ------------------------
(***************************************************************************)
(* The sums the self telemetry reports, and its recoveries, for any number *)
(* of events, ticks and lost reports.                                      *)
(***************************************************************************)
EXTENDS SplunkTelemetry, TLAPS

(* The watermarks and what the tick read are values the counters once had. *)
ReadsAreOld ==
    /\ last.total <= total /\ last.forwarded <= successes
    /\ seen.total <= total /\ seen.forwarded <= successes

(* Reported is what the watermark covers, or will cover when it is moved. *)
ReceivedIsCovered ==
    \/ received <= last.total
    \/ tpc \in {"forwarded", "alarm", "spool", "markTotal"} /\ received <= seen.total

ForwardedIsCovered ==
    \/ forwarded <= last.forwarded
    \/ /\ tpc \in {"alarm", "spool", "markTotal", "markForwarded"}
       /\ forwarded <= seen.forwarded

(* In the map is at most what the watermark will be moved by. *)
MapIsCovered ==
    /\ tpc \in {"heartbeat", "received"} => raw.received = 0
    /\ tpc \in {"heartbeat", "received", "forwarded"} => raw.forwarded = 0
    /\ tpc \in {"forwarded", "alarm", "spool", "markTotal"} =>
          raw.received = 0 \/ last.total + raw.received <= seen.total
    /\ tpc \in {"alarm", "spool", "markTotal", "markForwarded"} =>
          raw.forwarded = 0 \/ last.forwarded + raw.forwarded <= seen.forwarded

(* All events together repeat a tick's deltas once more with each event it emits
   after the delta is in the map. *)
SaidReceivedIsCovered ==
    /\ tpc \notin {"forwarded", "alarm", "spool", "markTotal"} =>
          said.received <= 4 * last.total
    /\ tpc = "forwarded" => said.received <= 4 * last.total + raw.received
    /\ tpc = "alarm" => said.received <= 4 * last.total + 2 * raw.received
    /\ tpc = "spool" => said.received <= 4 * last.total + 3 * raw.received
    /\ tpc = "markTotal" => said.received <= 4 * last.total + 4 * raw.received

SaidForwardedIsCovered ==
    /\ tpc \notin {"alarm", "spool", "markTotal", "markForwarded"} =>
          said.forwarded <= 3 * last.forwarded
    /\ tpc = "alarm" => said.forwarded <= 3 * last.forwarded + raw.forwarded
    /\ tpc = "spool" => said.forwarded <= 3 * last.forwarded + 2 * raw.forwarded
    /\ tpc \in {"markTotal", "markForwarded"} =>
          said.forwarded <= 3 * last.forwarded + 3 * raw.forwarded

RepeatsAreCovered == MapIsCovered /\ SaidReceivedIsCovered /\ SaidForwardedIsCovered

(* The watermark passes the successes known at a failure before the next tick. *)
AlarmIsPassed ==
    \/ alarm.forwarded <= last.forwarded
    \/ /\ tpc \in {"spool", "markTotal", "markForwarded"}
       /\ alarm.forwarded <= successes

Watermarks ==
    /\ TypeOK /\ ReadsAreOld /\ ReceivedIsCovered /\ ForwardedIsCovered
    /\ RepeatsAreCovered /\ AlarmIsPassed

LEMMA TypeStep == TypeOK /\ [Next]_vars => TypeOK'
<1> SUFFICES ASSUME TypeOK, [Next]_vars PROVE TypeOK'
    OBVIOUS
<1> USE DEF TypeOK, Labels, Counters, Zero, Deltas, NoDeltas, attemptVars, reportVars
<1>1. CASE Add
    BY <1>1 DEF Add
<1>2. CASE Dispatch
    BY <1>2 DEF Dispatch, Attempts
<1>3. CASE AttemptSucceeds
    BY <1>3 DEF AttemptSucceeds
<1>4. CASE AttemptFails
    BY <1>4 DEF AttemptFails
<1>5. CASE Started \/ Heartbeat \/ Stop
    BY <1>5 DEF Started, Heartbeat, Stop, Emit, Attempts
<1>6. CASE ReadTotal
    BY <1>6 DEF ReadTotal
<1>7. CASE ReadSplunk
    BY <1>7 DEF ReadSplunk
<1>8. CASE ReportReceived
    BY <1>8 DEF ReportReceived, EmitMap, Emit, NoEmit, Attempts
<1>9. CASE ReportForwarded
    BY <1>9 DEF ReportForwarded, EmitMap, Emit, NoEmit, Attempts
<1>10. CASE ReportFailure
    BY <1>10 DEF ReportFailure, EmitMap, Emit, Attempts
<1>15. CASE ReportRecovery
    <2>1. hecWasFailed' \in BOOLEAN
        BY <1>15 DEF ReportRecovery
    <2> QED
        BY <1>15, <2>1 DEF ReportRecovery, EmitMap, Emit, Attempts
<1>11. CASE ReportNothing
    BY <1>11 DEF ReportNothing
<1>12. CASE ReportSpool
    BY <1>12 DEF ReportSpool, EmitMap, Emit, NoEmit, Attempts
<1>13. CASE Mark
    BY <1>13 DEF Mark, MarkTotal, MarkForwarded, MarkFailed
<1>14. CASE UNCHANGED vars
    BY <1>14 DEF vars
<1> QED
    BY <1>1, <1>2, <1>3, <1>4, <1>5, <1>6, <1>7, <1>8, <1>9, <1>10, <1>11, <1>12, <1>13, <1>14,
       <1>15
    DEF Next, Ingest, Attempt, Tick, Report

LEMMA RepeatsStep == Watermarks /\ [Next]_vars => RepeatsAreCovered'
<1> SUFFICES ASSUME Watermarks, [Next]_vars PROVE RepeatsAreCovered'
    OBVIOUS
<1>0. TypeOK'
    BY TypeStep DEF Watermarks
<1> USE DEF Watermarks, ReadsAreOld, RepeatsAreCovered, MapIsCovered, SaidReceivedIsCovered,
            SaidForwardedIsCovered
<1> USE DEF TypeOK, Counters, Deltas, NoDeltas, attemptVars, reportVars
<1>1. CASE Add
    BY <1>0, <1>1 DEF Add
<1>2. CASE Dispatch
    BY <1>0, <1>2 DEF Dispatch
<1>3. CASE AttemptSucceeds
    BY <1>0, <1>3 DEF AttemptSucceeds
<1>4. CASE AttemptFails
    BY <1>0, <1>4 DEF AttemptFails
<1>5. CASE Started \/ Heartbeat \/ Stop
    BY <1>0, <1>5 DEF Started, Heartbeat, Stop, Emit
<1>6. CASE ReadTotal
    BY <1>0, <1>6 DEF ReadTotal
<1>7. CASE ReadSplunk
    BY <1>0, <1>7 DEF ReadSplunk
<1>8. CASE ReportReceived
    BY <1>0, <1>8 DEF ReportReceived, EmitMap, Emit, NoEmit
<1>9. CASE ReportForwarded
    BY <1>0, <1>9 DEF ReportForwarded, EmitMap, Emit, NoEmit
<1>10. CASE ReportFailure
    BY <1>0, <1>10 DEF ReportFailure, EmitMap, Emit
<1>11. CASE ReportRecovery
    BY <1>0, <1>11 DEF ReportRecovery, EmitMap, Emit
<1>12. CASE ReportNothing
    BY <1>0, <1>12 DEF ReportNothing, NoEmit
<1>13. CASE ReportSpool
    <2>1. MapIsCovered' /\ SaidForwardedIsCovered'
        BY <1>0, <1>13 DEF ReportSpool, EmitMap, Emit, NoEmit
    <2>2. SaidReceivedIsCovered'
        BY <1>0, <1>13 DEF ReportSpool, EmitMap, Emit, NoEmit
    <2> QED
        BY <2>1, <2>2
<1>14. CASE MarkTotal
    BY <1>0, <1>14 DEF MarkTotal
<1>15. CASE MarkForwarded
    BY <1>0, <1>15 DEF MarkForwarded
<1>16. CASE MarkFailed
    BY <1>0, <1>16 DEF MarkFailed
<1>17. CASE UNCHANGED vars
    BY <1>0, <1>17 DEF vars
<1> QED
    BY <1>1, <1>2, <1>3, <1>4, <1>5, <1>6, <1>7, <1>8, <1>9, <1>10, <1>11, <1>12, <1>13, <1>14,
       <1>15, <1>16, <1>17
    DEF Next, Ingest, Attempt, Tick, Report, Mark

LEMMA WatermarksStep == Watermarks /\ [Next]_vars => Watermarks'
<1> SUFFICES ASSUME Watermarks, [Next]_vars PROVE Watermarks'
    OBVIOUS
<1>0. TypeOK' /\ RepeatsAreCovered'
    BY TypeStep, RepeatsStep DEF Watermarks
<1> USE DEF Watermarks, ReadsAreOld, ReceivedIsCovered, ForwardedIsCovered, AlarmIsPassed
<1> USE DEF TypeOK, Counters, Deltas, attemptVars, reportVars
<1>1. CASE Add
    BY <1>0, <1>1 DEF Add
<1>2. CASE Dispatch
    BY <1>0, <1>2 DEF Dispatch
<1>3. CASE AttemptSucceeds
    BY <1>0, <1>3 DEF AttemptSucceeds
<1>4. CASE AttemptFails
    BY <1>0, <1>4 DEF AttemptFails
<1>5. CASE Started \/ Heartbeat \/ Stop
    BY <1>0, <1>5 DEF Started, Heartbeat, Stop, Emit
<1>6. CASE ReadTotal
    BY <1>0, <1>6 DEF ReadTotal
<1>7. CASE ReadSplunk
    BY <1>0, <1>7 DEF ReadSplunk
<1>8. CASE ReportReceived
    BY <1>0, <1>8 DEF ReportReceived, EmitMap, Emit, NoEmit
<1>9. CASE ReportForwarded
    BY <1>0, <1>9 DEF ReportForwarded, EmitMap, Emit, NoEmit
<1>10. CASE ReportFailure
    BY <1>0, <1>10 DEF ReportFailure, EmitMap, Emit
<1>11. CASE ReportRecovery
    BY <1>0, <1>11 DEF ReportRecovery, EmitMap, Emit
<1>12. CASE ReportNothing
    BY <1>0, <1>12 DEF ReportNothing
<1>13. CASE ReportSpool
    BY <1>0, <1>13 DEF ReportSpool, EmitMap, Emit, NoEmit
<1>14. CASE MarkTotal
    BY <1>0, <1>14 DEF MarkTotal
<1>15. CASE MarkForwarded
    BY <1>0, <1>15 DEF MarkForwarded
<1>16. CASE MarkFailed
    BY <1>0, <1>16 DEF MarkFailed
<1>17. CASE UNCHANGED vars
    BY <1>0, <1>17 DEF vars
<1> QED
    BY <1>1, <1>2, <1>3, <1>4, <1>5, <1>6, <1>7, <1>8, <1>9, <1>10, <1>11, <1>12, <1>13, <1>14,
       <1>15, <1>16, <1>17
    DEF Next, Ingest, Attempt, Tick, Report, Mark

LEMMA WatermarksHold == Spec => []Watermarks
<1>1. Init => TypeOK
    <2> SUFFICES ASSUME Init PROVE TypeOK
        OBVIOUS
    <2>1. hecWasFailed \in BOOLEAN
        BY DEF Init
    <2> QED
        BY <2>1 DEF Init, TypeOK, Labels, Counters, Zero, Deltas, NoDeltas
<1>2. Init => ReadsAreOld /\ ReceivedIsCovered /\ ForwardedIsCovered /\ AlarmIsPassed
    BY DEF Init, Zero, ReadsAreOld, ReceivedIsCovered, ForwardedIsCovered, AlarmIsPassed
<1>4. Init => RepeatsAreCovered
    BY DEF Init, Zero, NoDeltas, RepeatsAreCovered, MapIsCovered, SaidReceivedIsCovered,
           SaidForwardedIsCovered
<1>3. Init => Watermarks
    BY <1>1, <1>2, <1>4 DEF Watermarks
<1> QED
    BY <1>3, WatermarksStep, PTL DEF Spec

(* The counters, watermarks and labels keep their types. *)
THEOREM TypeCorrect == Spec => []TypeOK
    BY WatermarksHold, PTL DEF Watermarks

(* No event is in the deltas of two ticks (main.go:768-774, 787-788), however the
   counters move while a tick runs, and the events that repeat a tick's deltas
   (main.go:776-785) do so at most three and two times. *)
THEOREM NothingReportedTwice == Spec => []DeltasDoNotOverlap
<1>1. Watermarks => received <= total /\ forwarded <= successes
    BY DEF Watermarks, TypeOK, Counters, ReadsAreOld, ReceivedIsCovered, ForwardedIsCovered
<1>2. Watermarks => said.received <= 4 * total
    BY DEF Watermarks, TypeOK, Counters, Deltas, ReadsAreOld, RepeatsAreCovered, MapIsCovered,
           SaidReceivedIsCovered
<1>3. Watermarks => said.forwarded <= 3 * successes
    BY DEF Watermarks, TypeOK, Counters, Deltas, ReadsAreOld, RepeatsAreCovered, MapIsCovered,
           SaidForwardedIsCovered
<1>4. Watermarks => DeltasDoNotOverlap
    BY <1>1, <1>2, <1>3 DEF DeltasDoNotOverlap
<1> QED
    BY <1>4, WatermarksHold, PTL

(* Every announced recovery was preceded by an attempt that succeeded after the
   failure it ends was read (main.go:775-781). *)
THEOREM RecoveriesAreReal == Spec => RecoveryNeedsSuccess
<1>1. Watermarks /\ [Next]_vars => [ReportRecovery => seen.forwarded > alarm.forwarded]_vars
    BY DEF Watermarks, TypeOK, Counters, AlarmIsPassed, ReportRecovery, HecRecovered
<1> QED
    BY <1>1, WatermarksHold, PTL DEF Spec, RecoveryNeedsSuccess
=============================================================================
