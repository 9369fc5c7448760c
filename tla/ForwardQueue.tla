---------------------------- MODULE ForwardQueue ----------------------------
(***************************************************************************)
(* buffer.Queue (internal/buffer/queue.go): a buffered channel and a       *)
(* QueueStats record guarded by its own mutex.  A push puts the event in   *)
(* the channel and counts it in a second step, while the forward worker    *)
(* takes batches off the channel and counts them off when they were sent.  *)
(* The counters are what /queue/status, /forwarding/status and the self    *)
(* telemetry's spool thresholds report.  Which event is which does not     *)
(* matter here: the channel is a number of events.                         *)
(***************************************************************************)
EXTENDS Integers, FiniteSets

CONSTANTS
    Pushers,        \* goroutines inside Queue.Push
    Cap,            \* capacity of the channel (NewQueue)
    BatchSize,      \* max of PopBatch
    MaxPushes,      \* bound: events pushed
    MaxFailures     \* bound: failed batches

ASSUME PushersAssumption == IsFiniteSet(Pushers)
ASSUME SizesAssumption == Cap \in Nat \ {0} /\ BatchSize \in Nat \ {0}
ASSUME BoundsAssumption == MaxPushes \in Nat /\ MaxFailures \in Nat

VARIABLES
    ch,             \* events in the channel
    counting,       \* pushers between the channel send and Queued++
    batch,          \* events the worker holds
    popping,        \* the worker is inside PopBatch
    queued, succeeded, failed,      \* QueueStats.Queued, Forwarded, Failed
    pushes, failures                \* bounds

vars == <<ch, counting, batch, popping, queued, succeeded, failed, pushes, failures>>

Init ==
    /\ ch = 0 /\ counting = {}
    /\ batch = 0 /\ popping = TRUE
    /\ queued = 0 /\ succeeded = 0 /\ failed = 0
    /\ pushes = 0 /\ failures = 0

(* Faulty variant: a push is counted whether or not the channel took the event. *)
SendCountsAnyway(g) ==
    /\ g \notin counting
    /\ pushes < MaxPushes
    /\ ch' = IF ch < Cap THEN ch + 1 ELSE ch
    /\ counting' = counting \cup {g}
    /\ pushes' = pushes + 1
    /\ UNCHANGED <<batch, popping, queued, succeeded, failed, failures>>

(* Queue.Push; a push that finds the channel full changes nothing. *)
Send(g) ==
    /\ g \notin counting
    /\ pushes < MaxPushes
    /\ ch < Cap
    /\ ch' = ch + 1
    /\ counting' = counting \cup {g}
    /\ pushes' = pushes + 1
    /\ UNCHANGED <<batch, popping, queued, succeeded, failed, failures>>

Count(g) ==
    /\ g \in counting
    /\ counting' = counting \ {g}
    /\ queued' = queued + 1
    /\ UNCHANGED <<ch, batch, popping, succeeded, failed, pushes, failures>>

(* PopBatch: one event per receive, until the batch is full or the channel empty *)
Pop ==
    /\ popping /\ batch < BatchSize
    /\ ch > 0
    /\ ch' = ch - 1
    /\ batch' = batch + 1
    /\ UNCHANGED <<counting, popping, queued, succeeded, failed, pushes, failures>>

PopDone ==
    /\ popping /\ batch > 0
    /\ batch = BatchSize \/ ch = 0
    /\ popping' = FALSE
    /\ UNCHANGED <<ch, counting, batch, queued, succeeded, failed, pushes, failures>>

(* Faulty variant: Queued is not kept from going below zero. *)
MarkSuccessUnclamped ==
    /\ ~popping
    /\ queued' = queued - batch
    /\ succeeded' = succeeded + batch
    /\ batch' = 0 /\ popping' = TRUE
    /\ UNCHANGED <<ch, counting, failed, pushes, failures>>

MarkSuccess ==
    /\ ~popping
    /\ queued' = IF queued < batch THEN 0 ELSE queued - batch
    /\ succeeded' = succeeded + batch
    /\ batch' = 0 /\ popping' = TRUE
    /\ UNCHANGED <<ch, counting, failed, pushes, failures>>

(* Faulty variant: a failed batch is taken off the depth as well. *)
MarkFailureCountsOff ==
    /\ ~popping
    /\ failures < MaxFailures /\ failures' = failures + 1
    /\ failed' = failed + batch
    /\ queued' = IF queued < batch THEN 0 ELSE queued - batch
    /\ UNCHANGED <<ch, counting, batch, popping, succeeded, pushes>>

MarkFailure ==
    /\ ~popping
    /\ failures < MaxFailures
    /\ failures' = failures + 1
    /\ failed' = failed + batch
    /\ UNCHANGED <<ch, counting, batch, popping, queued, succeeded, pushes>>

Next ==
    \/ \E g \in Pushers : Send(g) \/ Count(g)
    \/ Pop \/ PopDone \/ MarkSuccess \/ MarkFailure

Spec == Init /\ [][Next]_vars
-----------------------------------------------------------------------------
(* The type invariant; PopBatch never returns more than it was asked for. *)
TypeOK ==
    /\ ch \in 0 .. Cap /\ batch \in 0 .. BatchSize
    /\ counting \subseteq Pushers
    /\ popping \in BOOLEAN
    /\ queued \in Nat /\ succeeded \in Nat /\ failed \in Nat
    /\ pushes \in Nat /\ failures \in Nat

Depth == ch + batch

(* Queued never hides a backlog: what it lacks is being counted by a push that
   has not finished.  So once pushes are done, the spool thresholds and
   /queue/status see at least the events that are really waiting, whatever
   MarkSuccess clamped away before (queue.go:38-40, 80-86). *)
BacklogIsReported == Depth <= queued + Cardinality(counting)

(* The clamp in MarkSuccess leaves Queued too high when it swallowed a count that
   arrives later, but the error never exceeds the number of goroutines pushing
   at once: it does not accumulate over the life of the process. *)
DriftIsBounded == queued + Cardinality(counting) <= Depth + Cardinality(Pushers)
=============================================================================
