-------------------------- MODULE ForwardingSettings --------------------------
(***************************************************************************)
(* How the forwarding configuration is changed, kept and shown: the        *)
(* console's Save, Pause and Resume buttons (web/app.js), the handler of   *)
(* POST /config/forwarding (internal/api/handlers.go), ForwardingStore and *)
(* its file (internal/config/forwarding.go), and the second copy of the    *)
(* paused flag in the queue's statistics, which the handler and the        *)
(* forward worker both write and the consoles read back.  The fields other *)
(* than the token and the flag are left out.                               *)
(***************************************************************************)
EXTENDS Naturals

CONSTANTS
    Consoles,       \* browsers, each with at most one POST under way
    Tokens,         \* HEC tokens
    Blank,          \* the token field left empty; what GET shows instead of a token
    Empty, Partial, \* what os.WriteFile leaves when it does not finish
    EnvConfig,      \* the configuration the environment gives
    MaxPosts,       \* bound: POSTs
    MaxFailures,    \* bound: file writes that fail
    MaxCrashes      \* bound: process deaths

ConfigType == [paused : BOOLEAN, token : Tokens]
Body       == [paused : BOOLEAN, token : Tokens \cup {Blank}]

ASSUME TokenAssumption == Blank \notin Tokens
ASSUME FileAssumption == {Empty, Partial} \cap ConfigType = {} /\ EnvConfig \in ConfigType
ASSUME BoundsAssumption == MaxPosts \in Nat /\ MaxFailures \in Nat /\ MaxCrashes \in Nat

VARIABLES
    up,             \* the process runs
    config, file,   \* ForwardingStore.cfg and forwarding.json
    pausedFlag,     \* QueueStats.Paused
    workerPc, workerCopy,   \* the worker between Get and SetPaused, and what it read
    pc, body,       \* each console's POST: how far it is and what it carries
    current,        \* the token its handler read before replacing the configuration
    shown,          \* state.queue.paused in each console
    submitted,      \* history: tokens operators typed in
    posts, failures, crashes

storeVars   == <<config, file>>
workerVars  == <<workerPc, workerCopy>>
consoleVars == <<shown, submitted>>
boundVars   == <<posts, failures, crashes>>
vars == <<up, storeVars, pausedFlag, workerVars, pc, body, current, consoleVars, boundVars>>

Init ==
    /\ up = TRUE
    /\ config = EnvConfig /\ file = EnvConfig
    /\ pausedFlag = FALSE
    /\ workerPc = "read" /\ workerCopy = FALSE
    /\ pc = [c \in Consoles |-> "idle"]
    /\ body = [c \in Consoles |-> EnvConfig]
    /\ current = [c \in Consoles |-> EnvConfig.token]
    /\ shown = [c \in Consoles |-> FALSE]
    /\ submitted = {EnvConfig.token}
    /\ posts = 0 /\ failures = 0 /\ crashes = 0

Goto(c, label) == pc' = [pc EXCEPT ![c] = label]
-----------------------------------------------------------------------------
(***************************************************************************)
(* The console.                                                            *)
(***************************************************************************)
Post(c, b) ==
    /\ up /\ pc[c] = "idle"
    /\ posts < MaxPosts /\ posts' = posts + 1
    /\ body' = [body EXCEPT ![c] = b]
    /\ Goto(c, "read")
    /\ UNCHANGED <<up, storeVars, pausedFlag, workerVars, current, shown, failures, crashes>>

(* setPaused: GET the configuration, which comes without its token, and POST it back *)
SetPaused(c, p) ==
    /\ Post(c, [config EXCEPT !.paused = p, !.token = Blank])
    /\ UNCHANGED submitted

(* saveForwarding: the form, with the paused flag the console last polled *)
SaveForwarding(c, t) ==
    /\ Post(c, [paused |-> shown[c], token |-> t])
    /\ submitted' = submitted \cup ({t} \ {Blank})

(* loadCore, run by the timer and after every button *)
Poll(c) ==
    /\ up
    /\ shown[c] # pausedFlag
    /\ shown' = [shown EXCEPT ![c] = pausedFlag]
    /\ UNCHANGED <<up, storeVars, pausedFlag, workerVars, pc, body, current, submitted, boundVars>>

-----------------------------------------------------------------------------
(***************************************************************************)
(* handleConfigForwarding and UpdateForwardingConfig.                      *)
(***************************************************************************)
ReadCurrent(c) ==
    /\ pc[c] = "read"
    /\ current' = [current EXCEPT ![c] = config.token]
    /\ Goto(c, "replace")
    /\ UNCHANGED <<up, storeVars, pausedFlag, workerVars, body, consoleVars, boundVars>>

(* Faulty variant: an empty token field is taken for a token. *)
RequestedAsIs(c) == body[c]

Requested(c) == [body[c] EXCEPT !.token = IF @ = Blank THEN current[c] ELSE @]

Replace(c) ==
    /\ pc[c] = "replace"
    /\ config' = Requested(c) /\ file' = Requested(c)
    /\ Goto(c, "flag")
    /\ UNCHANGED <<up, pausedFlag, workerVars, body, current, consoleVars, boundVars>>

(* persistLocked fails after the new configuration took effect; the POST answers 500 *)
ReplaceFails(c) ==
    /\ pc[c] = "replace"
    /\ failures < MaxFailures /\ failures' = failures + 1
    /\ config' = Requested(c) /\ file' \in {file, Empty, Partial}
    /\ Goto(c, "idle")
    /\ UNCHANGED <<up, pausedFlag, workerVars, body, current, consoleVars, posts, crashes>>

(* queue.SetPaused, then the answer *)
SetFlag(c) ==
    /\ pc[c] = "flag"
    /\ pausedFlag' = body[c].paused
    /\ Goto(c, "idle")
    /\ UNCHANGED <<up, storeVars, workerVars, body, current, consoleVars, boundVars>>
-----------------------------------------------------------------------------
(***************************************************************************)
(* The first two statements of runForwardWorker's loop.                    *)
(***************************************************************************)
WorkerRead ==
    /\ up /\ workerPc = "read"
    /\ workerCopy' = config.paused
    /\ workerPc' = "set"
    /\ UNCHANGED <<up, storeVars, pausedFlag, pc, body, current, consoleVars, boundVars>>

(* Faulty variant: the worker reads the configuration but leaves the flag alone. *)
WorkerKeepsFlag ==
    /\ up /\ workerPc = "set"
    /\ workerPc' = "read"
    /\ UNCHANGED <<up, storeVars, pausedFlag, workerCopy, pc, body, current, consoleVars, boundVars>>

WorkerSet ==
    /\ up /\ workerPc = "set"
    /\ pausedFlag' = workerCopy
    /\ workerPc' = "read"
    /\ UNCHANGED <<up, storeVars, workerCopy, pc, body, current, consoleVars, boundVars>>

-----------------------------------------------------------------------------
(***************************************************************************)
(* Process death, also in the middle of a write, and loadOrInit.           *)
(***************************************************************************)
Crash ==
    /\ up
    /\ crashes < MaxCrashes /\ crashes' = crashes + 1
    /\ up' = FALSE
    /\ file' \in {file} \cup (IF \E c \in Consoles : pc[c] = "replace" THEN {Empty, Partial} ELSE {})
    /\ pc' = [c \in Consoles |-> "idle"]
    /\ UNCHANGED <<config, pausedFlag, workerVars, body, current, consoleVars, posts, failures>>

LoadOrInit ==
    /\ ~up /\ file # Partial
    /\ up' = TRUE
    /\ config' = IF file = Empty THEN EnvConfig ELSE file
    /\ file' = config'
    /\ pausedFlag' = FALSE
    /\ workerPc' = "read" /\ workerCopy' = FALSE
    /\ UNCHANGED <<pc, body, current, consoleVars, boundVars>>

(* loadOrInit writes the file back as soon as it has read it, and dies doing so *)
LoadInterrupted ==
    /\ ~up /\ file # Partial
    /\ crashes < MaxCrashes /\ crashes' = crashes + 1
    /\ file' \in {Empty, Partial}
    /\ UNCHANGED <<up, config, pausedFlag, workerVars, pc, body, current, consoleVars,
                   posts, failures>>

Handle(c) == ReadCurrent(c) \/ Replace(c) \/ ReplaceFails(c) \/ SetFlag(c)

Use(c) ==
    \/ \E p \in BOOLEAN : SetPaused(c, p)
    \/ \E t \in Tokens \cup {Blank} : SaveForwarding(c, t)
    \/ Poll(c)

Work == WorkerRead \/ WorkerSet

Next == (\E c \in Consoles : Use(c) \/ Handle(c)) \/ Work
        \/ Crash \/ LoadOrInit \/ LoadInterrupted

Spec == Init /\ [][Next]_vars

(* Handlers run to their end, the worker's loop comes round again (its waits are
   bounded by PopBatch's second, the dial timeout and the 30 s backoff). *)
FairSpec ==
    /\ Spec
    /\ \A c \in Consoles : WF_vars(Handle(c)) /\ WF_vars(Poll(c))
    /\ WF_vars(Work) /\ WF_vars(LoadOrInit)
-----------------------------------------------------------------------------
(* A configuration in force never holds a blank token or half a file, and a POST
   carries the fields of its form. *)
TypeOK ==
    /\ up \in BOOLEAN /\ pausedFlag \in BOOLEAN
    /\ config \in ConfigType
    /\ file \in ConfigType \cup {Empty, Partial}
    /\ workerPc \in {"read", "set"} /\ workerCopy \in BOOLEAN
    /\ pc \in [Consoles -> {"idle", "read", "replace", "flag"}]
    /\ body \in [Consoles -> Body] /\ current \in [Consoles -> Tokens]
    /\ shown \in [Consoles -> BOOLEAN]
    /\ submitted \subseteq Tokens
    /\ posts \in Nat /\ failures \in Nat /\ crashes \in Nat

(* Pausing from the console posts back the configuration GET returned, whose token
   is blank, and forms are posted with the token left empty.  Whatever the order of
   such POSTs, failed writes and restarts, the token in force is the environment's
   or one an operator typed (handlers.go:212-221, forwarding.go:69-86, 95-115). *)
TokenIsSubmitted == config.token \in submitted

(* The paused flag has two homes, written in different orders by the handler and by
   the worker, which may carry an old value.  Once POSTs stop, both agree for good,
   and so do the consoles, whose next Save posts the flag they see (main.go:460-464,
   580-581, app.js:1021). *)
PausedFlagsAgree ==
    <>[]up =>
        <>[](pausedFlag = config.paused /\ \A c \in Consoles : shown[c] = pausedFlag)
=============================================================================
