-------------------------- MODULE SourceObservation --------------------------
(***************************************************************************)
(* How events reach the source catalog and how it is asked, in             *)
(* cmd/dmz-collector/main.go.  Senders POST events; the OT collector is    *)
(* polled (runOTPull) and streams (runOTSSE), and its events are shown to  *)
(* the catalog before they are validated and stored; requests for the      *)
(* sources seed the defaults, fetch the OT configuration and merge it; a   *)
(* restart rebuilds the catalog from the events file.                      *)
(*                                                                         *)
(* Of ingestOne the claim of the id, the two appends (DeliveryPipeline     *)
(* splits them) and ObserveEvent are steps; the file holds what can be     *)
(* read back.                                                              *)
(***************************************************************************)
EXTENDS SourceCatalog, Sequences, Functions

CONSTANTS
    Events,             \* ids of the events that may arrive
    Attr,               \* what is sent as each of them
    Overlong,           \* events whose line is over the scanner's limit
    Posters,            \* handlers of POST
    Streamers, Pullers, \* goroutines runOTSSE and runOTPull
    Requests,           \* handlers of GET /sources and its relatives
    OTConfigs, FirstConfig, \* what GET /config/sources of the OT collector answers
    MaxFailures, MaxRestarts, MaxConfigChanges   \* bounds

ASSUME AttrAssumption ==
    \A e \in Events : /\ IsEvent(Attr[e])
                      /\ Attr[e].id = e /\ e # NoId
                      /\ Attr[e].timestamp # NoTime
ASSUME ActorsAssumption ==
    /\ Posters \cap (Streamers \cup Pullers \cup Requests) = {}
    /\ Streamers \cap (Pullers \cup Requests) = {} /\ Pullers \cap Requests = {}
ASSUME ConfigsAssumption ==   \* sourceKey leaves no part of a key empty (catalog.go:485-495)
    /\ FirstConfig \in OTConfigs
    /\ \A c \in OTConfigs : /\ IsFiniteSet(DOMAIN c)
                            /\ \A k \in DOMAIN c : k = SourceKey(k[1], k[2], k[2]) /\ k[2] # ""
ASSUME BoundsAssumption ==
    {MaxFailures, MaxRestarts, MaxConfigChanges} \subseteq Nat

VARIABLES
    records, seenEventIDs,  \* Catalog
    seenIDs, file,          \* App.seenIDs, the ids in the events file
    toLoad,                 \* stored events bootstrapSourceCatalog has yet to observe
    pc, ev, rows,           \* of each goroutine: its step, its event, the rows it fetched
    otConfig,               \* the OT collector's configuration
    spent,                  \* how much of each bound is used up
    \* history
    uncounted,              \* stored events whose spool append failed, or unreadable at the start
    overtaken               \* requests during which another one seeded or merged

ingestVars == <<seenIDs, file, uncounted>>
catalogVars == <<records, seenEventIDs>>
requestVars == <<rows, overtaken>>
vars == <<ingestVars, catalogVars, requestVars, toLoad, pc, ev, otConfig, spent>>

Readers == Streamers \cup Pullers
Ingesters == Posters \cup Readers
Goroutines == Ingesters \cup Requests

NoEvent == "none"
NoRows == <<>>

Parsed(e) == ParseOne(Attr[e], NoTime)
StoredEvent(e) == Accepted(Parsed(e), NoTime)

Scannable == \A i \in DOMAIN file : file[i] \notin Overlong

(* main has started the goroutines *)
Booted == toLoad = <<>>

Init ==
    /\ records = SeedConfiguredSources(<<>>) /\ seenEventIDs = {}
    /\ seenIDs = {} /\ file = <<>> /\ toLoad = <<>>
    /\ pc = [g \in Goroutines |-> "idle"]
    /\ ev = [g \in Ingesters |-> NoEvent]
    /\ rows = [g \in Pullers \cup Requests |-> NoRows]
    /\ otConfig = FirstConfig
    /\ spent = [failures |-> 0, restarts |-> 0, changes |-> 0]
    /\ uncounted = {} /\ overtaken = {}

Goto(g, step) == pc' = [pc EXCEPT ![g] = step]
-----------------------------------------------------------------------------
(* Faulty variant: the event is not marked as seen. *)
ObserveUnmarked(e) ==
    /\ records' = ObserveEvent(records, seenEventIDs, e)
    /\ UNCHANGED seenEventIDs

Observe(e) ==
    /\ records' = ObserveEvent(records, seenEventIDs, e)
    /\ seenEventIDs' = seenEventIDs \cup {e.id}

(* ingestOne: validation and the claim of the id *)
ClaimOf(g, e) ==
    IF IsValid(Parsed(e)) /\ e \notin seenIDs
    THEN /\ seenIDs' = seenIDs \cup {e}
         /\ ev' = [ev EXCEPT ![g] = e]
         /\ Goto(g, "append")
    ELSE /\ ev' = [ev EXCEPT ![g] = NoEvent]
         /\ Goto(g, "idle")
         /\ UNCHANGED seenIDs

(* a handler of POST takes the next event of its body *)
ReceivePosted(g, e) ==
    /\ pc[g] = "idle"
    /\ ClaimOf(g, e)
    /\ UNCHANGED <<file, uncounted, catalogVars, requestVars, toLoad,
                   otConfig, spent>>

(* runOTSSE and runOTPull show the event to the catalog as the OT collector sent it *)
ReceiveFromOT(g, e) ==
    /\ pc[g] = "idle"
    /\ Observe(Parsed(e))
    /\ ev' = [ev EXCEPT ![g] = e]
    /\ Goto(g, "claim")
    /\ UNCHANGED <<ingestVars, requestVars, toLoad, otConfig, spent>>

Claim(g) ==
    /\ pc[g] = "claim"
    /\ ClaimOf(g, ev[g])
    /\ UNCHANGED <<file, uncounted, catalogVars, requestVars, toLoad,
                   otConfig, spent>>

(* ingestOne: store.Append and spool.Append both succeed *)
AppendRecords(g) ==
    /\ pc[g] = "append"
    /\ file' = Append(file, ev[g])
    /\ Goto(g, "observe")
    /\ UNCHANGED <<seenIDs, uncounted, catalogVars, requestVars, toLoad, ev, otConfig, spent>>

(* one of them fails and the event is rejected; the store may have it all the same *)
AppendFails(g) ==
    /\ pc[g] = "append"
    /\ spent.failures < MaxFailures
    /\ spent' = [spent EXCEPT !.failures = @ + 1]
    /\ \/ UNCHANGED <<file, uncounted>>
       \/ file' = Append(file, ev[g]) /\ uncounted' = uncounted \cup {ev[g]}
    /\ Goto(g, "idle")
    /\ ev' = [ev EXCEPT ![g] = NoEvent]
    /\ UNCHANGED <<seenIDs, catalogVars, requestVars, toLoad, otConfig>>

ObserveStored(g) ==
    /\ pc[g] = "observe"
    /\ Observe(StoredEvent(ev[g]))
    /\ Goto(g, "idle")
    /\ ev' = [ev EXCEPT ![g] = NoEvent]
    /\ UNCHANGED <<ingestVars, requestVars, toLoad, otConfig, spent>>
-----------------------------------------------------------------------------
(* requests that have begun and not yet answered *)
Open == {r \in Requests : pc[r] \in {"fetch", "merge", "answer"}}

(* refreshOTConfiguredSources: the defaults first *)
Seed(r) ==
    /\ pc[r] = "idle"
    /\ records' = SeedConfiguredSources(records)
    /\ overtaken' = overtaken \cup Open
    /\ Goto(r, "fetch")
    /\ UNCHANGED <<ingestVars, seenEventIDs, rows, toLoad, ev, otConfig, spent>>

(* the answer of the OT collector arrives, at a request or, at its next tick, at
   the poller, whose first call is syncOTMetadata *)
Fetch(g) ==
    /\ pc[g] = (IF g \in Pullers THEN "idle" ELSE "fetch")
    /\ rows' = [rows EXCEPT ![g] = otConfig]
    /\ Goto(g, "merge")
    /\ UNCHANGED <<ingestVars, catalogVars, overtaken, toLoad, ev,
                   otConfig, spent>>

(* no answer within three seconds, another status than 2xx, or no JSON; the
   poller goes on to the events as if nothing had happened *)
FetchFails(r) ==
    /\ pc[r] = "fetch"
    /\ Goto(r, "answer")
    /\ UNCHANGED <<ingestVars, catalogVars, requestVars, toLoad, ev,
                   otConfig, spent>>

Merge(g) ==
    /\ pc[g] = "merge"
    /\ records' = MergeConfiguredSources(records, rows[g])
    /\ rows' = IF g \in Pullers THEN [rows EXCEPT ![g] = NoRows] ELSE rows
    /\ overtaken' = overtaken \cup (Open \ {g})
    /\ Goto(g, IF g \in Pullers THEN "idle" ELSE "answer")
    /\ UNCHANGED <<ingestVars, seenEventIDs, toLoad, ev, otConfig, spent>>

Everything == {"internal", "disabled", "direct"}

(* what a request with all flags set would be answered now *)
Answered == Snapshot(records, Everything).sources

Answer(r) ==
    /\ pc[r] = "answer"
    /\ Goto(r, "idle")
    /\ rows' = [rows EXCEPT ![r] = NoRows]
    /\ overtaken' = overtaken \ {r}
    /\ UNCHANGED <<ingestVars, catalogVars, toLoad, ev, otConfig, spent>>
-----------------------------------------------------------------------------
RestartLoading(events) ==
    /\ spent.restarts < MaxRestarts
    /\ spent' = [spent EXCEPT !.restarts = @ + 1]
    /\ records' = SeedConfiguredSources(<<>>) /\ seenEventIDs' = {}
    /\ seenIDs' = IF Scannable THEN Range(file) ELSE {}
    /\ toLoad' = IF Scannable THEN events ELSE <<>>
    /\ uncounted' = IF Scannable THEN {} ELSE Range(file)
    /\ pc' = [g \in Goroutines |-> "idle"]
    /\ ev' = [g \in Ingesters |-> NoEvent]
    /\ rows' = [g \in Pullers \cup Requests |-> NoRows]
    /\ overtaken' = {}
    /\ UNCHANGED <<file, otConfig>>

(* Faulty variant: the ids are loaded, but the catalog is not rebuilt. *)
RestartUnloaded == RestartLoading(<<>>)

(* The process dies at any moment; main loads the ids and the events, unless the
   file cannot be scanned, and seeds the defaults. *)
Restart == RestartLoading(file)

(* bootstrapSourceCatalog, one stored event after the other *)
Bootstrap ==
    /\ ~Booted
    /\ Observe(StoredEvent(Head(toLoad)))
    /\ toLoad' = Tail(toLoad)
    /\ UNCHANGED <<ingestVars, requestVars, pc, ev, otConfig, spent>>

(* somebody edits the sources of the OT collector *)
ConfigChanges ==
    /\ spent.changes < MaxConfigChanges
    /\ spent' = [spent EXCEPT !.changes = @ + 1]
    /\ otConfig' \in OTConfigs \ {otConfig}
    /\ UNCHANGED <<ingestVars, catalogVars, requestVars, toLoad, pc, ev>>
-----------------------------------------------------------------------------
Ingest(g) ==
    \/ \E e \in Events : IF g \in Posters THEN ReceivePosted(g, e) ELSE ReceiveFromOT(g, e)
    \/ Claim(g) \/ AppendRecords(g) \/ AppendFails(g) \/ ObserveStored(g)

Refresh(r) == Seed(r) \/ Fetch(r) \/ FetchFails(r) \/ Merge(r) \/ Answer(r)

SyncOTMetadata(g) == Fetch(g) \/ Merge(g)

Running ==
    /\ Booted
    /\ \/ \E g \in Ingesters : Ingest(g)
       \/ \E r \in Requests : Refresh(r)
       \/ \E g \in Pullers : SyncOTMetadata(g)

Next == Running \/ Bootstrap \/ Restart \/ ConfigChanges

Spec == Init /\ [][Next]_vars
-----------------------------------------------------------------------------
KeysOf(es) == {KeyOf(Parsed(e)) : e \in es}

(* The type invariant; the catalog holds the defaults, what the OT collector
   configures and the sources of events seen, and nothing else. *)
TypeOK ==
    /\ DOMAIN DefaultSources \subseteq DOMAIN records
    /\ DOMAIN records \subseteq DOMAIN DefaultSources \cup (UNION {DOMAIN c : c \in OTConfigs})
                                 \cup KeysOf(seenEventIDs)
    /\ \A k \in DOMAIN records : records[k].eventCount \in Nat
    /\ {seenEventIDs, seenIDs, uncounted} \subseteq SUBSET Events
    /\ file \in Seq(Events) /\ toLoad \in Seq(Events)
    /\ pc \in [Goroutines -> {"idle", "claim", "append", "observe",
                              "fetch", "merge", "answer"}]
    /\ ev \in [Ingesters -> Events \cup {NoEvent}]
    /\ rows \in [Pullers \cup Requests -> OTConfigs \cup {NoRows}]
    /\ otConfig \in OTConfigs

(* However often an event comes, from whichever of the OT collector's two paths
   and the POST handlers, and although the catalog is shown it before and after
   it is stored, its source counts it once (catalog.go:167-174, main.go:193, 668,
   714). *)
CountedOnce ==
    \A k \in DOMAIN records :
        records[k].eventCount = Cardinality({e \in seenEventIDs : KeyOf(Parsed(e)) = k})

(* Every event in the file is counted by the catalog, also after a restart, unless
   somebody is still working on it, its spool append failed or a line too long
   kept the file from being read at the start (main.go:180-193, 970-977). *)
StoredIsCounted ==
    Booted => \A e \in Range(file) :
        \/ e \in seenEventIDs
        \/ e \in uncounted
        \/ \E g \in Ingesters : ev[g] = e

(* Refreshing the configuration never costs a source its events, nor an event a
   source its configuration, in any order of seeds, merges and events: only a
   restart does (catalog.go:406-431). *)
NothingIsForgotten ==
    [][spent'.restarts = spent.restarts =>
        \A k \in DOMAIN records :
            /\ k \in DOMAIN records'
            /\ records'[k].eventCount >= records[k].eventCount
            /\ records[k].configured => records'[k].configured
            /\ records[k].discovered => records'[k].discovered]_vars

(* A request that reached the OT collector, and during which no other request
   seeded or merged, answers with the flags it fetched, although it first put
   back the defaults (main.go:392-434). *)
AnswerFollowsOT ==
    [][\A r \in Requests \ overtaken :
        Answer(r) => \A k \in DOMAIN rows[r] : Answered[k].enabled = rows[r][k].enabled]_vars

(* what GET /sources and GET /sources/summary answer for the same flags agrees *)
Agree(opts) ==
    LET snap   == Snapshot(records, opts)
        sum    == Summary(records, opts)
        groups == DOMAIN sum.byGroup
        events == EventsOf(snap.sources, DOMAIN snap.sources)
    IN /\ snap.visible = MapThenSumSet(LAMBDA g : sum.byGroup[g].sourceCount, groups)
       /\ snap.hidden = sum.hidden
       /\ events = MapThenSumSet(LAMBDA g : sum.byGroup[g].eventCount, groups)
       /\ \A total \in {sum.bySourceType, sum.bySeverity, sum.byCategory} :
              events = TotalOf(total)

(* The panels agree: whichever flags a request sets, the summary adds up to the
   list, by group, type, severity and category, and what the list does not show
   is counted as hidden (Snapshot and Summary of catalog.go each walk the records
   and decide for themselves), the internal panel shows a part of all, and the
   detail of a source that has an address is the record the list shows. *)
PanelsAgree ==
    [][\A r \in Requests : Answer(r) =>
          /\ \A opts \in SUBSET Everything : Agree(opts)
          /\ InternalSources(records).hidden >= 0
          /\ \A k \in DOMAIN Answered :
                k[2] \notin Events => Detail(records, k[1], k[2]) = {Answered[k]}]_vars
=============================================================================
