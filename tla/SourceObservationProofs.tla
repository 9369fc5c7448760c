----------------------- MODULE SourceObservationProofs -----------------------
(***************************************************************************)
(* The source catalog counts every event once and every event in the file, *)
(* and a refresh of the configuration forgets nothing, for any events,     *)
(* goroutines and configurations.                                          *)
(***************************************************************************)
EXTENDS SourceObservation, SharedFacts

EventsOfKey(k) == {e \in seenEventIDs : KeyOf(Parsed(e)) = k}

(* who holds which event, and the records of the catalog *)
HoldersOK ==
    /\ file \in Seq(Events) /\ toLoad \in Seq(Events)
    /\ pc = [g \in Goroutines |-> pc[g]]
    /\ ev = [g \in Ingesters |-> ev[g]]
    /\ \A g \in Ingesters : pc[g] \in {"claim", "append", "observe"} => ev[g] \in Events

IsRecord(rec) == DOMAIN rec = DOMAIN EmptyRecord

RecordsOK ==
    /\ records = [k \in DOMAIN records |-> records[k]]
    /\ \A k \in DOMAIN records : IsRecord(records[k])

(* the catalog counts the events it has seen *)
CatalogOK ==
    /\ seenEventIDs \subseteq Events /\ IsFiniteSet(seenEventIDs)
    /\ \A e \in seenEventIDs : KeyOf(Parsed(e)) \in DOMAIN records
    /\ \A k \in DOMAIN records : records[k].eventCount = Cardinality(EventsOfKey(k))

(* what is in the file is counted, or about to be *)
FileCounted ==
    \A e \in Range(file) :
        \/ e \in seenEventIDs \cup uncounted \cup Range(toLoad)
        \/ \E g \in Ingesters : pc[g] = "observe" /\ ev[g] = e

(* CountedOnce is not inductive: a record that is made anew would start at zero
   although the catalog has seen events with its key. *)
CatalogInv == HoldersOK /\ RecordsOK /\ CatalogOK /\ FileCounted

(* The events a source is shown carry its id and its key, parsed or stored. *)
LEMMA EventIdentity ==
    ASSUME NEW e \in Events
    PROVE  /\ Parsed(e).id = e /\ StoredEvent(e).id = e
           /\ KeyOf(StoredEvent(e)) = KeyOf(Parsed(e))
<1>1. IsEvent(Attr[e]) /\ Attr[e].id = e /\ e # NoId
  BY AttrAssumption
<1>2. IsEvent(Parsed(e)) /\ SameIdentity(Parsed(e), Attr[e]) /\ Parsed(e).id # NoId
  BY <1>1, ParsingKeepsIdentity DEF Parsed
<1>3. SameIdentity(StoredEvent(e), Parsed(e))
  <2> HIDE DEF Parsed
  <2> QED BY <1>2, AcceptingKeepsIdentity DEF StoredEvent
<1> QED BY <1>1, <1>2, <1>3 DEF SameIdentity, KeyOf, SourceKey

(* What ObserveEvent and a row of the configuration do to a record. *)
LEMMA RecordChanges ==
    ASSUME NEW rec, IsRecord(rec), NEW x
    PROVE  /\ IsRecord(ObservedIn(rec, x))
           /\ ObservedIn(rec, x).eventCount = rec.eventCount + 1
           /\ ObservedIn(rec, x).configured = rec.configured
           /\ ObservedIn(rec, x).discovered = TRUE
           /\ IsRecord(ConfiguredBy(rec, x))
           /\ ConfiguredBy(rec, x).eventCount = rec.eventCount
           /\ ConfiguredBy(rec, x).configured = TRUE
           /\ ConfiguredBy(rec, x).discovered = rec.discovered
BY DEF IsRecord, ObservedIn, ConfiguredBy, EmptyRecord

(* Merging rows of a configuration keeps the counts. *)
LEMMA MergingKeepsCatalog ==
    ASSUME RecordsOK, CatalogOK, NEW rows_, records' = MergeConfiguredSources(records, rows_),
           seenEventIDs' = seenEventIDs
    PROVE  /\ RecordsOK' /\ CatalogOK'
           /\ \A k \in DOMAIN records :
                 /\ k \in DOMAIN records'
                 /\ records'[k].eventCount = records[k].eventCount
                 /\ records[k].configured => records'[k].configured
                 /\ records[k].discovered => records'[k].discovered
<1>1. /\ DOMAIN records' = DOMAIN records \cup DOMAIN rows_
      /\ records' = [k \in DOMAIN records' |-> records'[k]]
  BY DEF MergeConfiguredSources
<1>2. ASSUME NEW k \in DOMAIN records'
      PROVE  /\ IsRecord(records'[k])
             /\ k \in DOMAIN records =>
                   /\ records'[k].eventCount = records[k].eventCount
                   /\ records[k].configured => records'[k].configured
                   /\ records[k].discovered => records'[k].discovered
             /\ k \notin DOMAIN records => records'[k].eventCount = 0
  <2>1. CASE k \in DOMAIN rows_
    <3>1. records'[k] = ConfiguredBy(EnsureState(records, k), rows_[k])
      BY <2>1, <1>1 DEF MergeConfiguredSources
    <3>2. CASE k \in DOMAIN records
      <4> DEFINE rec == records[k]
                 row == rows_[k]
      <4>1. records'[k] = ConfiguredBy(rec, row) /\ IsRecord(rec)
        BY <3>1, <3>2 DEF EnsureState, RecordsOK
      <4> HIDE DEF rec, row
      <4>2. /\ IsRecord(ConfiguredBy(rec, row))
            /\ ConfiguredBy(rec, row).eventCount = rec.eventCount
            /\ ConfiguredBy(rec, row).configured = TRUE
            /\ ConfiguredBy(rec, row).discovered = rec.discovered
        BY <4>1, RecordChanges
      <4> QED BY <3>2, <4>1, <4>2 DEF rec
    <3>3. CASE k \notin DOMAIN records
      <4>1. EmptyRecord.eventCount = 0 /\ IsRecord(EmptyRecord)
        BY DEF EmptyRecord, IsRecord
      <4> DEFINE row == rows_[k]
      <4>2. records'[k] = ConfiguredBy(EmptyRecord, row)
        BY <3>1, <3>3 DEF EnsureState
      <4> HIDE DEF row
      <4>3. /\ IsRecord(ConfiguredBy(EmptyRecord, row))
            /\ ConfiguredBy(EmptyRecord, row).eventCount = EmptyRecord.eventCount
        BY <4>1, RecordChanges
      <4> QED BY <3>3, <4>1, <4>2, <4>3
    <3> QED BY <3>2, <3>3
  <2>2. CASE k \notin DOMAIN rows_
    BY <2>2, <1>1 DEF MergeConfiguredSources, RecordsOK
  <2> QED BY <2>1, <2>2
<1>3. \A k : EventsOfKey(k)' = EventsOfKey(k)
  BY DEF EventsOfKey
<1>4. ASSUME NEW k \in DOMAIN records' PROVE records'[k].eventCount = Cardinality(EventsOfKey(k)')
  <2>1. CASE k \in DOMAIN records
    BY <2>1, <1>2, <1>3 DEF CatalogOK
  <2>2. CASE k \notin DOMAIN records
    <3>1. EventsOfKey(k) = {}
      BY <2>2 DEF CatalogOK, EventsOfKey
    <3> QED BY <2>2, <3>1, <1>2, <1>3, FS_EmptySet
  <2> QED BY <2>1, <2>2
<1>5. CatalogOK'
  BY <1>1, <1>4 DEF CatalogOK
<1> QED BY <1>1, <1>2, <1>5 DEF RecordsOK

(* Showing the catalog an event counts it, once. *)
LEMMA ObservingCounts ==
    ASSUME RecordsOK, CatalogOK, NEW e \in Events, NEW x, x.id = e, KeyOf(x) = KeyOf(Parsed(e)),
           Observe(x)
    PROVE  /\ RecordsOK' /\ CatalogOK'
           /\ seenEventIDs' = seenEventIDs \cup {e}
           /\ \A k \in DOMAIN records :
                 /\ k \in DOMAIN records'
                 /\ records'[k].eventCount >= records[k].eventCount
                 /\ records[k].configured => records'[k].configured
                 /\ records[k].discovered => records'[k].discovered
<1>1. seenEventIDs' = seenEventIDs \cup {e} /\ records' = ObserveEvent(records, seenEventIDs, x)
  BY DEF Observe
<1>0. ASSUME NEW k PROVE IsFiniteSet(EventsOfKey(k)) /\ Cardinality(EventsOfKey(k)) \in Nat
  BY FS_Subset, FS_CardinalityType DEF CatalogOK, EventsOfKey
<1>2. CASE e \in seenEventIDs
  <2>1. records' = records /\ seenEventIDs' = seenEventIDs
    BY <1>1, <1>2 DEF ObserveEvent
  <2>2. \A k : EventsOfKey(k)' = EventsOfKey(k)
    BY <2>1 DEF EventsOfKey
  <2>3. RecordsOK' /\ CatalogOK'
    BY <2>1, <2>2 DEF RecordsOK, CatalogOK
  <2>4. \A k \in DOMAIN records : records[k].eventCount \in Nat
    BY <1>0 DEF CatalogOK
  <2> QED BY <1>1, <2>1, <2>3, <2>4
<1>3. CASE e \notin seenEventIDs
  <2> DEFINE key == KeyOf(Parsed(e))
  <2>1. /\ DOMAIN records' = DOMAIN records \cup {key}
        /\ records' = [k \in DOMAIN records' |-> records'[k]]
        /\ records'[key] = ObservedIn(EnsureState(records, key), x)
        /\ \A k \in DOMAIN records \ {key} : records'[k] = records[k]
    BY <1>1, <1>3 DEF ObserveEvent
  <2>2. IsRecord(EnsureState(records, key))
    BY DEF EnsureState, RecordsOK, IsRecord
  <2>10. /\ IsRecord(records'[key])
         /\ records'[key].eventCount = EnsureState(records, key).eventCount + 1
         /\ records'[key].configured = EnsureState(records, key).configured
         /\ records'[key].discovered = TRUE
    <3> DEFINE rec == EnsureState(records, key)
    <3>1. IsRecord(rec) /\ records'[key] = ObservedIn(rec, x)
      BY <2>1, <2>2
    <3> HIDE DEF rec
    <3>2. /\ IsRecord(ObservedIn(rec, x))
          /\ ObservedIn(rec, x).eventCount = rec.eventCount + 1
          /\ ObservedIn(rec, x).configured = rec.configured
          /\ ObservedIn(rec, x).discovered = TRUE
      BY <3>1, RecordChanges
    <3> QED BY <3>1, <3>2 DEF rec
  <2>3. EnsureState(records, key).eventCount = Cardinality(EventsOfKey(key))
    <3>1. CASE key \in DOMAIN records
      BY <3>1 DEF EnsureState, CatalogOK
    <3>2. CASE key \notin DOMAIN records
      <4>1. EventsOfKey(key) = {}
        BY <3>2 DEF CatalogOK, EventsOfKey
      <4>2. EnsureState(records, key).eventCount = 0
        BY <3>2 DEF EnsureState, EmptyRecord
      <4> QED BY <4>1, <4>2, FS_EmptySet
    <3> QED BY <3>1, <3>2
  <2>4. Cardinality(EventsOfKey(key)') = Cardinality(EventsOfKey(key)) + 1
    <3>1. EventsOfKey(key)' = EventsOfKey(key) \cup {e} /\ e \notin EventsOfKey(key)
      BY <1>1, <1>3 DEF EventsOfKey
    <3> QED BY <3>1, <1>0, FS_AddElement
  <2>5. \A k : k # key => EventsOfKey(k)' = EventsOfKey(k)
    BY <1>1 DEF EventsOfKey
  <2>6. RecordsOK'
    BY <2>1, <2>10 DEF RecordsOK
  <2>7. records'[key].eventCount = Cardinality(EventsOfKey(key)')
    BY <2>10, <2>3, <2>4
  <2>8. CatalogOK'
    <3>1. IsFiniteSet(seenEventIDs') /\ seenEventIDs' \subseteq Events
      BY <1>1, FS_AddElement DEF CatalogOK
    <3>2. \A y \in seenEventIDs' : KeyOf(Parsed(y)) \in DOMAIN records'
      BY <1>1, <2>1 DEF CatalogOK
    <3>3. \A k \in DOMAIN records' : records'[k].eventCount = Cardinality(EventsOfKey(k)')
      BY <2>1, <2>5, <2>7 DEF CatalogOK
    <3> QED BY <3>1, <3>2, <3>3 DEF CatalogOK
  <2>9. ASSUME NEW k \in DOMAIN records
        PROVE  /\ k \in DOMAIN records'
               /\ records'[k].eventCount >= records[k].eventCount
               /\ records[k].configured => records'[k].configured
               /\ records[k].discovered => records'[k].discovered
    <3>1. CASE k = key
      <4>1. records'[key].eventCount = records[key].eventCount + 1 /\ records[key].eventCount \in Nat
        BY <3>1, <2>4, <2>7, <1>0 DEF CatalogOK
      <4> QED BY <3>1, <4>1, <2>1, <2>10 DEF EnsureState
    <3>2. CASE k # key
      <4>1. records[k].eventCount \in Nat
        BY <1>0 DEF CatalogOK
      <4> QED BY <3>2, <4>1, <2>1
    <3> QED BY <3>1, <3>2
  <2> HIDE DEF key
  <2> QED BY <1>1, <2>6, <2>8, <2>9
<1> QED BY <1>2, <1>3

(* The records of the defaults count nothing yet. *)
LEMMA DefaultsCountNothing ==
    ASSUME NEW recs, recs = SeedConfiguredSources(<<>>)
    PROVE  /\ recs = [k \in DOMAIN recs |-> recs[k]]
           /\ \A k \in DOMAIN recs : IsRecord(recs[k]) /\ recs[k].eventCount = 0
<1>1. /\ DOMAIN recs = DOMAIN DefaultSources
      /\ recs = [k \in DOMAIN recs |-> ConfiguredBy(EmptyRecord, DefaultSources[k])]
  BY DEF SeedConfiguredSources, MergeConfiguredSources, EnsureState
<1>2. IsRecord(EmptyRecord) /\ EmptyRecord.eventCount = 0
  BY DEF IsRecord, EmptyRecord
<1>3. ASSUME NEW row PROVE /\ IsRecord(ConfiguredBy(EmptyRecord, row))
                           /\ ConfiguredBy(EmptyRecord, row).eventCount = 0
  BY <1>2, RecordChanges
<1> QED BY <1>1, <1>3

(* Claiming an id moves one goroutine on. *)
LEMMA ClaimKeepsInv ==
    ASSUME CatalogInv, NEW g \in Ingesters, NEW e \in Events, pc[g] # "observe", ClaimOf(g, e),
           UNCHANGED <<file, uncounted, catalogVars, toLoad>>
    PROVE  CatalogInv'
<1>1. HoldersOK'
  BY DEF CatalogInv, HoldersOK, ClaimOf, Goto, Goroutines
<1>2. FileCounted'
  <2>1. \A h \in Ingesters : h # g => pc'[h] = pc[h] /\ ev'[h] = ev[h]
    BY DEF CatalogInv, HoldersOK, ClaimOf, Goto, Goroutines
  <2> QED BY <2>1 DEF CatalogInv, FileCounted, catalogVars
<1>3. RecordsOK' /\ CatalogOK'
  BY DEF CatalogInv, RecordsOK, CatalogOK, EventsOfKey, catalogVars
<1> QED BY <1>1, <1>2, <1>3 DEF CatalogInv

(* The steps of an event, from its arrival to its place in the catalog. *)
LEMMA IngestKeepsInv ==
    ASSUME CatalogInv, NEW g \in Ingesters, Ingest(g) PROVE CatalogInv'
<1> USE DEF CatalogInv
<1>1. ASSUME NEW e \in Events, ReceivePosted(g, e) PROVE CatalogInv'
  <2>1. pc[g] # "observe" /\ UNCHANGED <<file, uncounted, catalogVars, toLoad>> /\ ClaimOf(g, e)
    BY <1>1 DEF ReceivePosted
  <2> QED BY <2>1, ClaimKeepsInv
<1>2. ASSUME NEW e \in Events, ReceiveFromOT(g, e) PROVE CatalogInv'
  <2>1. /\ RecordsOK' /\ CatalogOK'
        /\ seenEventIDs' = seenEventIDs \cup {e}
    BY <1>2, EventIdentity, ObservingCounts DEF ReceiveFromOT
  <2>2. HoldersOK'
    BY <1>2 DEF HoldersOK, ReceiveFromOT, Goto, Goroutines, ingestVars
  <2>3. FileCounted'
    <3>1. \A h \in Ingesters : h # g => pc'[h] = pc[h] /\ ev'[h] = ev[h]
      BY <1>2 DEF HoldersOK, ReceiveFromOT, Goto, Goroutines
    <3> QED BY <1>2, <2>1, <3>1 DEF FileCounted, ReceiveFromOT, ingestVars
  <2> QED BY <2>1, <2>2, <2>3
<1>3. ASSUME Claim(g) PROVE CatalogInv'
  <2>1. /\ ev[g] \in Events /\ pc[g] # "observe" /\ ClaimOf(g, ev[g])
        /\ UNCHANGED <<file, uncounted, catalogVars, toLoad>>
    BY <1>3 DEF Claim, HoldersOK
  <2> QED BY <2>1, ClaimKeepsInv
<1>4. ASSUME AppendRecords(g) PROVE CatalogInv'
  <2>1. ev[g] \in Events /\ file' = Append(file, ev[g]) /\ file \in Seq(Events)
    BY <1>4 DEF AppendRecords, HoldersOK
  <2>2. HoldersOK'
    <3>1. file' \in Seq(Events) /\ UNCHANGED <<toLoad, ev>>
      BY <1>4, <2>1 DEF AppendRecords
    <3> QED BY <1>4, <3>1 DEF HoldersOK, AppendRecords, Goto, Goroutines
  <2>3. Range(file') = Range(file) \cup {ev[g]}
    BY <2>1, RangeAppend
  <2>4. /\ pc'[g] = "observe" /\ ev' = ev
        /\ \A h \in Ingesters : h # g => pc'[h] = pc[h]
        /\ pc[g] # "observe"
    BY <1>4 DEF HoldersOK, AppendRecords, Goto, Goroutines
  <2>5. FileCounted'
    BY <1>4, <2>3, <2>4 DEF FileCounted, AppendRecords, catalogVars
  <2>6. RecordsOK' /\ CatalogOK'
    BY <1>4 DEF RecordsOK, CatalogOK, EventsOfKey, catalogVars, AppendRecords
  <2> QED BY <2>2, <2>5, <2>6
<1>5. ASSUME AppendFails(g) PROVE CatalogInv'
  <2>1. ev[g] \in Events /\ file \in Seq(Events)
    BY <1>5 DEF AppendFails, HoldersOK
  <2>3. /\ file' \in Seq(Events) /\ uncounted \subseteq uncounted'
        /\ Range(file') \subseteq Range(file) \cup uncounted'
    <3>1. CASE UNCHANGED <<file, uncounted>>
      BY <2>1, <3>1
    <3>2. CASE file' = Append(file, ev[g]) /\ uncounted' = uncounted \cup {ev[g]}
      BY <2>1, <3>2, RangeAppend
    <3> QED BY <1>5, <3>1, <3>2 DEF AppendFails
  <2>2. HoldersOK'
    BY <1>5, <2>3 DEF HoldersOK, AppendFails, Goto, Goroutines
  <2>4. /\ \A h \in Ingesters : h # g => pc'[h] = pc[h] /\ ev'[h] = ev[h]
        /\ pc[g] # "observe"
    BY <1>5 DEF HoldersOK, AppendFails, Goto, Goroutines
  <2>5. FileCounted'
    BY <1>5, <2>3, <2>4 DEF FileCounted, AppendFails, catalogVars
  <2>6. RecordsOK' /\ CatalogOK'
    BY <1>5 DEF RecordsOK, CatalogOK, EventsOfKey, catalogVars, AppendFails
  <2> QED BY <2>2, <2>5, <2>6
<1>6. ASSUME ObserveStored(g) PROVE CatalogInv'
  <2>1. ev[g] \in Events /\ Observe(StoredEvent(ev[g]))
    BY <1>6 DEF ObserveStored, HoldersOK
  <2>2. /\ RecordsOK' /\ CatalogOK'
        /\ seenEventIDs' = seenEventIDs \cup {ev[g]}
    BY <2>1, EventIdentity, ObservingCounts
  <2>3. HoldersOK'
    BY <1>6 DEF HoldersOK, ObserveStored, Goto, Goroutines, ingestVars
  <2>4. \A h \in Ingesters : h # g => pc'[h] = pc[h] /\ ev'[h] = ev[h]
    BY <1>6 DEF HoldersOK, ObserveStored, Goto, Goroutines
  <2>5. FileCounted'
    BY <1>6, <2>2, <2>4 DEF FileCounted, ObserveStored, ingestVars
  <2> QED BY <2>2, <2>3, <2>5
<1> QED BY <1>1, <1>2, <1>3, <1>4, <1>5, <1>6 DEF Ingest

(* The steps of a refresh of the configuration. *)
LEMMA RefreshKeepsInv ==
    ASSUME CatalogInv,
           NEW r \in Requests \cup Pullers,
           (r \in Requests /\ Refresh(r)) \/ (r \in Pullers /\ SyncOTMetadata(r))
    PROVE  CatalogInv'
<1> USE DEF CatalogInv
<1>1. \/ r \in Requests /\ (Seed(r) \/ FetchFails(r) \/ Answer(r))
      \/ Fetch(r) \/ Merge(r)
  BY DEF Refresh, SyncOTMetadata
<1>2. /\ UNCHANGED <<file, toLoad, uncounted, ev, seenEventIDs>>
      /\ pc' = [g \in Goroutines |-> pc'[g]]
  BY <1>1 DEF Seed, Fetch, FetchFails, Merge, Answer, Goto, ingestVars, catalogVars, HoldersOK
<1>3. \A g \in Ingesters : pc[g] = "observe" => pc'[g] = "observe"
  BY <1>1, ActorsAssumption
     DEF Seed, Fetch, FetchFails, Merge, Answer, Goto, HoldersOK, Ingesters, Readers, Goroutines
<1>4. \A g \in Ingesters :
         pc'[g] \in {"claim", "append", "observe"} => pc'[g] = pc[g]
  BY <1>1, ActorsAssumption
     DEF Seed, Fetch, FetchFails, Merge, Answer, Goto, HoldersOK, Ingesters, Readers, Goroutines
<1>5. HoldersOK' /\ FileCounted'
  BY <1>2, <1>3, <1>4 DEF HoldersOK, FileCounted
<1>6. RecordsOK' /\ CatalogOK'
  <2>1. CASE records' = records
    BY <2>1, <1>2 DEF RecordsOK, CatalogOK, EventsOfKey
  <2>2. CASE \E rows_ : records' = MergeConfiguredSources(records, rows_)
    BY <2>2, <1>2, MergingKeepsCatalog
  <2>3. records' = records \/ \E rows_ : records' = MergeConfiguredSources(records, rows_)
    BY <1>1 DEF Seed, Fetch, FetchFails, Merge, Answer, catalogVars, SeedConfiguredSources
  <2> QED BY <2>1, <2>2, <2>3
<1> QED BY <1>5, <1>6

(* The restart and the reading of the file after it. *)
LEMMA RestartKeepsInv ==
    ASSUME CatalogInv, Restart PROVE CatalogInv'
<1> USE DEF CatalogInv, Restart, RestartLoading
<1>1. RecordsOK' /\ CatalogOK'
  <2>1. \A k : EventsOfKey(k)' = {}
    BY DEF EventsOfKey
  <2> QED BY <2>1, DefaultsCountNothing, FS_EmptySet DEF RecordsOK, CatalogOK
<1>2. HoldersOK'
  BY DEF HoldersOK, Goroutines
<1>3. FileCounted'
  <2>1. Range(file') = Range(file) /\ (Range(file) \subseteq uncounted' \cup Range(toLoad'))
    BY DEF Range
  <2> QED BY <2>1 DEF FileCounted
<1> QED BY <1>1, <1>2, <1>3

(* Each stored event read at the start moves from the file to the catalog. *)
LEMMA BootstrapKeepsInv ==
    ASSUME CatalogInv, Bootstrap PROVE CatalogInv'
<1> USE DEF CatalogInv
<1>1. toLoad \in Seq(Events) /\ toLoad # <<>>
  BY DEF HoldersOK, Bootstrap, Booted
<1>2. Head(toLoad) \in Events /\ Tail(toLoad) \in Seq(Events)
  BY <1>1
<1>3. /\ RecordsOK' /\ CatalogOK'
      /\ seenEventIDs' = seenEventIDs \cup {Head(toLoad)}
  <2> DEFINE e == Head(toLoad)
  <2>1. e \in Events /\ Observe(StoredEvent(e))
    BY <1>2 DEF Bootstrap
  <2> HIDE DEF e
  <2>2. RecordsOK' /\ CatalogOK' /\ seenEventIDs' = seenEventIDs \cup {e}
    BY <2>1, EventIdentity, ObservingCounts
  <2> QED BY <2>2 DEF e
<1>4. HoldersOK'
  BY <1>2 DEF Bootstrap, HoldersOK, ingestVars
<1>5. Range(toLoad) = {Head(toLoad)} \cup Range(Tail(toLoad))
  BY <1>1, RangeHeadTail
<1>6. FileCounted'
  BY <1>3, <1>5 DEF Bootstrap, FileCounted, ingestVars
<1> QED BY <1>3, <1>4, <1>6

(* CatalogInv is inductive. *)
THEOREM CatalogStaysRight == Spec => []CatalogInv
<1>1. Init => CatalogInv
  <2> SUFFICES ASSUME Init PROVE CatalogInv
    OBVIOUS
  <2>1. RecordsOK /\ CatalogOK
    <3>1. \A k : EventsOfKey(k) = {}
      BY DEF EventsOfKey, Init
    <3> QED BY <3>1, DefaultsCountNothing, FS_EmptySet DEF RecordsOK, CatalogOK, Init
  <2>2. HoldersOK
    BY DEF HoldersOK, Init, Goroutines
  <2>3. FileCounted
    BY DEF FileCounted, Init, Range
  <2> QED BY <2>1, <2>2, <2>3 DEF CatalogInv
<1>2. CatalogInv /\ [Next]_vars => CatalogInv'
  <2> SUFFICES ASSUME CatalogInv, [Next]_vars PROVE CatalogInv'
    OBVIOUS
  <2>1. ASSUME NEW g \in Ingesters, Ingest(g) PROVE CatalogInv'
    BY <2>1, IngestKeepsInv
  <2>2. ASSUME NEW r \in Requests, Refresh(r) PROVE CatalogInv'
    BY <2>2, RefreshKeepsInv
  <2>3. ASSUME NEW g \in Pullers, SyncOTMetadata(g) PROVE CatalogInv'
    BY <2>3, RefreshKeepsInv
  <2>4. CASE Bootstrap
    BY <2>4, BootstrapKeepsInv
  <2>5. CASE Restart
    BY <2>5, RestartKeepsInv
  <2>6. CASE ConfigChanges \/ UNCHANGED vars
    BY <2>6 DEF ConfigChanges, vars, ingestVars, catalogVars, CatalogInv, HoldersOK, RecordsOK,
                CatalogOK, EventsOfKey, FileCounted
  <2> QED BY <2>1, <2>2, <2>3, <2>4, <2>5, <2>6 DEF Next, Running
<1> QED BY <1>1, <1>2, PTL DEF Spec

(* A source counts every event it has seen once. *)
THEOREM EventsCountOnce == Spec => []CountedOnce
<1>1. CatalogInv => CountedOnce
  BY DEF CatalogInv, CatalogOK, CountedOnce, EventsOfKey
<1> QED BY <1>1, CatalogStaysRight, PTL

(* The catalog knows what is in the file. *)
THEOREM FileIsCounted == Spec => []StoredIsCounted
<1>1. CatalogInv => StoredIsCounted
  BY DEF CatalogInv, FileCounted, StoredIsCounted, Booted, Range
<1> QED BY <1>1, CatalogStaysRight, PTL

SpentOK == spent \in [failures : Nat, restarts : Nat, changes : Nat]

(* The bounds are counted. *)
LEMMA SpentStaysOK == Spec => []SpentOK
<1>1. Init => SpentOK
  BY DEF Init, SpentOK
<1>2. SpentOK /\ [Next]_vars => SpentOK'
  <2> SUFFICES ASSUME SpentOK, [Next]_vars PROVE SpentOK'
    OBVIOUS
  <2>1. ASSUME NEW g \in Ingesters, Ingest(g) PROVE SpentOK'
    BY <2>1 DEF SpentOK, Ingest, ReceivePosted, ReceiveFromOT, Claim, AppendRecords, AppendFails,
                ObserveStored
  <2>2. ASSUME NEW r, Refresh(r) \/ SyncOTMetadata(r) PROVE SpentOK'
    BY <2>2 DEF SpentOK, Refresh, SyncOTMetadata, Seed, Fetch, FetchFails, Merge, Answer
  <2>3. CASE Bootstrap \/ Restart \/ ConfigChanges \/ UNCHANGED vars
    BY <2>3 DEF SpentOK, Bootstrap, Restart, RestartLoading, ConfigChanges, vars
  <2> QED BY <2>1, <2>2, <2>3 DEF Next, Running
<1> QED BY <1>1, <1>2, PTL DEF Spec

(* what one step may not take from a source *)
NothingLost ==
    \A k \in DOMAIN records :
        /\ k \in DOMAIN records'
        /\ records'[k].eventCount >= records[k].eventCount
        /\ records[k].configured => records'[k].configured
        /\ records[k].discovered => records'[k].discovered

(* No step but a restart takes a source its events or its configuration. *)
LEMMA StepsForgetNothing ==
    ASSUME CatalogInv, SpentOK, Next, spent'.restarts = spent.restarts PROVE NothingLost
<1> USE DEF CatalogInv
<1>0. ASSUME NEW k \in DOMAIN records PROVE records[k].eventCount \in Nat
  <2>1. IsFiniteSet(EventsOfKey(k))
    BY FS_Subset DEF CatalogOK, EventsOfKey
  <2> QED BY <2>1, FS_CardinalityType DEF CatalogOK
<1>1. CASE records' = records
  BY <1>0, <1>1 DEF NothingLost
<1>2. ASSUME NEW e \in Events, NEW x, x \in {Parsed(e), StoredEvent(e)}, Observe(x)
      PROVE  NothingLost
  <2>1. x.id = e /\ KeyOf(x) = KeyOf(Parsed(e))
    BY <1>2, EventIdentity
  <2> QED BY <2>1, <1>2, ObservingCounts DEF NothingLost
<1>3. ASSUME NEW rows_, records' = MergeConfiguredSources(records, rows_),
             seenEventIDs' = seenEventIDs
      PROVE  NothingLost
  BY <1>0, <1>3, MergingKeepsCatalog DEF NothingLost
<1>4. ASSUME NEW g \in Ingesters, Ingest(g) PROVE NothingLost
  <2>1. CASE \E e \in Events : ReceiveFromOT(g, e)
    BY <2>1, <1>2 DEF ReceiveFromOT
  <2>2. CASE ObserveStored(g)
    <3>1. ev[g] \in Events /\ Observe(StoredEvent(ev[g]))
      BY <2>2 DEF ObserveStored, HoldersOK
    <3> QED BY <3>1, <1>2
  <2>3. CASE \/ \E e \in Events : ReceivePosted(g, e)
             \/ Claim(g) \/ AppendRecords(g) \/ AppendFails(g)
    BY <2>3, <1>1 DEF ReceivePosted, Claim, AppendRecords, AppendFails, catalogVars
  <2> QED BY <1>4, <2>1, <2>2, <2>3 DEF Ingest
<1>5. ASSUME NEW r, Refresh(r) \/ SyncOTMetadata(r) PROVE NothingLost
  <2>1. CASE Seed(r)
    BY <2>1, <1>3 DEF Seed, SeedConfiguredSources
  <2>2. CASE Merge(r)
    BY <2>2, <1>3 DEF Merge
  <2>3. CASE Fetch(r) \/ FetchFails(r) \/ Answer(r)
    BY <2>3, <1>1 DEF Fetch, FetchFails, Answer, catalogVars
  <2> QED BY <1>5, <2>1, <2>2, <2>3 DEF Refresh, SyncOTMetadata
<1>6. CASE Bootstrap
  <2>1. Head(toLoad) \in Events /\ Observe(StoredEvent(Head(toLoad)))
    BY <1>6 DEF Bootstrap, Booted, HoldersOK
  <2> QED BY <2>1, <1>2
<1>7. ~Restart
  BY DEF Restart, RestartLoading, SpentOK
<1>8. CASE ConfigChanges
  BY <1>1, <1>8 DEF ConfigChanges, catalogVars
<1> QED BY <1>4, <1>5, <1>6, <1>7, <1>8 DEF Next, Running

(* Whatever refreshes, events and failures cross each other, a source keeps the
   events it has been counted for and its configuration until a restart. *)
THEOREM NothingGetsForgotten == Spec => NothingIsForgotten
<1>1. CatalogInv /\ SpentOK /\ [Next]_vars =>
         [spent'.restarts = spent.restarts => NothingLost]_vars
  BY StepsForgetNothing
<1>2. [spent'.restarts = spent.restarts => NothingLost]_vars
      <=> [spent'.restarts = spent.restarts =>
              \A k \in DOMAIN records :
                  /\ k \in DOMAIN records'
                  /\ records'[k].eventCount >= records[k].eventCount
                  /\ records[k].configured => records'[k].configured
                  /\ records[k].discovered => records'[k].discovered]_vars
  BY DEF NothingLost
<1> QED BY <1>1, <1>2, CatalogStaysRight, SpentStaysOK, PTL DEF Spec, NothingIsForgotten
-----------------------------------------------------------------------------
(***************************************************************************)
(* The types, and where the records of the catalog come from.              *)
(***************************************************************************)
KeysOK ==
    /\ DOMAIN DefaultSources \subseteq DOMAIN records
    /\ DOMAIN records \subseteq DOMAIN DefaultSources \cup (UNION {DOMAIN c : c \in OTConfigs})
                                 \cup KeysOf(seenEventIDs)

Steps == {"idle", "claim", "append", "observe", "fetch", "merge", "answer"}

StepsOK ==
    /\ seenIDs \subseteq Events /\ uncounted \subseteq Events
    /\ pc \in [Goroutines -> Steps]
    /\ ev \in [Ingesters -> Events \cup {NoEvent}]
    /\ rows \in [Pullers \cup Requests -> OTConfigs \cup {NoRows}]
    /\ otConfig \in OTConfigs

LEMMA KeysWhenObserved ==
    ASSUME RecordsOK, KeysOK, NEW e \in Events, NEW x, x \in {Parsed(e), StoredEvent(e)}, Observe(x)
    PROVE  KeysOK'
<1>1. x.id = e /\ KeyOf(x) = KeyOf(Parsed(e))
  BY EventIdentity
<1>2. seenEventIDs' = seenEventIDs \cup {e} /\ DOMAIN records \subseteq DOMAIN records'
      /\ DOMAIN records' \subseteq DOMAIN records \cup {KeyOf(Parsed(e))}
  BY <1>1 DEF Observe, ObserveEvent
<1>3. KeysOf(seenEventIDs') = KeysOf(seenEventIDs) \cup {KeyOf(Parsed(e))}
  BY <1>2 DEF KeysOf
<1> QED BY <1>2, <1>3 DEF KeysOK

LEMMA KeysWhenMerged ==
    ASSUME KeysOK, NEW r \in OTConfigs \cup {NoRows, DefaultSources},
           records' = MergeConfiguredSources(records, r), seenEventIDs' = seenEventIDs
    PROVE  KeysOK'
<1>1. DOMAIN records' = DOMAIN records \cup DOMAIN r
  BY DEF MergeConfiguredSources
<1>2. DOMAIN NoRows = {}
  BY DEF NoRows
<1>3. DOMAIN r \subseteq DOMAIN DefaultSources \cup (UNION {DOMAIN c : c \in OTConfigs})
  BY <1>2
<1> QED BY <1>1, <1>3 DEF KeysOK

LEMMA KeysWhenStarted ==
    ASSUME records' = SeedConfiguredSources(<<>>), seenEventIDs' = {}
    PROVE  KeysOK'
<1>1. DOMAIN records' = DOMAIN DefaultSources
  BY DEF SeedConfiguredSources, MergeConfiguredSources
<1> QED BY <1>1 DEF KeysOK

LEMMA NextTypes ==
    ASSUME CatalogInv, KeysOK, StepsOK, [Next]_vars PROVE KeysOK' /\ StepsOK'
<1> USE DEF CatalogInv
<1>0. CASE UNCHANGED vars
  BY <1>0 DEF vars, ingestVars, catalogVars, requestVars, KeysOK, StepsOK
<1>1. ASSUME NEW g \in Ingesters, NEW e \in Events, ClaimOf(g, e),
             UNCHANGED <<file, uncounted, catalogVars, requestVars, toLoad, otConfig, spent>>
      PROVE  KeysOK' /\ StepsOK'
  <2>1. KeysOK'
    BY <1>1 DEF KeysOK, catalogVars
  <2>2. StepsOK'
    BY <1>1 DEF StepsOK, ClaimOf, Goto, Steps, requestVars
  <2> QED BY <2>1, <2>2
<1>2. ASSUME NEW g \in Ingesters, Ingest(g) PROVE KeysOK' /\ StepsOK'
  <2>1. ASSUME NEW e \in Events, ReceivePosted(g, e) PROVE KeysOK' /\ StepsOK'
    BY <2>1, <1>1 DEF ReceivePosted
  <2>2. ASSUME NEW e \in Events, ReceiveFromOT(g, e) PROVE KeysOK' /\ StepsOK'
    <3>1. KeysOK'
      BY <2>2, KeysWhenObserved DEF ReceiveFromOT
    <3>2. StepsOK'
      BY <2>2 DEF ReceiveFromOT, StepsOK, Goto, Steps, ingestVars, requestVars
    <3> QED BY <3>1, <3>2
  <2>3. CASE Claim(g)
    BY <2>3, <1>1 DEF Claim, HoldersOK
  <2>4. CASE AppendRecords(g)
    BY <2>4 DEF AppendRecords, KeysOK, StepsOK, Goto, Steps, catalogVars, requestVars
  <2>5. CASE AppendFails(g)
    <3>1. ev[g] \in Events
      BY <2>5 DEF AppendFails, HoldersOK
    <3> QED BY <2>5, <3>1 DEF AppendFails, KeysOK, StepsOK, Goto, Steps, catalogVars, requestVars
  <2>6. CASE ObserveStored(g)
    <3>1. ev[g] \in Events
      BY <2>6 DEF ObserveStored, HoldersOK
    <3>2. KeysOK'
      BY <2>6, <3>1, KeysWhenObserved DEF ObserveStored
    <3>3. StepsOK'
      BY <2>6 DEF ObserveStored, StepsOK, Goto, Steps, ingestVars, requestVars
    <3> QED BY <3>2, <3>3
  <2> QED BY <1>2, <2>1, <2>2, <2>3, <2>4, <2>5, <2>6 DEF Ingest
<1>3. ASSUME NEW r \in Requests \cup Pullers, Fetch(r) \/ Merge(r) PROVE KeysOK' /\ StepsOK'
  <2>1. CASE Fetch(r)
    BY <2>1 DEF Fetch, KeysOK, StepsOK, Goto, Steps, catalogVars, ingestVars
  <2>2. CASE Merge(r)
    <3>1. rows[r] \in OTConfigs \cup {NoRows}
      BY DEF StepsOK
    <3>2. KeysOK'
      BY <2>2, <3>1, KeysWhenMerged DEF Merge
    <3>3. rows' \in [Pullers \cup Requests -> OTConfigs \cup {NoRows}]
      BY <2>2 DEF Merge, StepsOK
    <3>4. StepsOK'
      BY <2>2, <3>3 DEF Merge, StepsOK, Goto, Steps, ingestVars
    <3> QED BY <3>2, <3>4
  <2> QED BY <1>3, <2>1, <2>2
<1>4. ASSUME NEW r \in Requests, Seed(r) \/ FetchFails(r) \/ Answer(r) PROVE KeysOK' /\ StepsOK'
  <2>1. CASE Seed(r)
    <3>1. KeysOK'
      BY <2>1, KeysWhenMerged DEF Seed, SeedConfiguredSources
    <3>2. StepsOK'
      BY <2>1 DEF Seed, StepsOK, Goto, Steps, ingestVars
    <3> QED BY <3>1, <3>2
  <2>2. CASE FetchFails(r)
    BY <2>2 DEF FetchFails, KeysOK, StepsOK, Goto, Steps, catalogVars, ingestVars, requestVars
  <2>3. CASE Answer(r)
    BY <2>3 DEF Answer, KeysOK, StepsOK, Goto, Steps, catalogVars, ingestVars
  <2> QED BY <1>4, <2>1, <2>2, <2>3
<1>5. CASE Bootstrap
  <2> DEFINE e == Head(toLoad)
  <2>1. e \in Events /\ Observe(StoredEvent(e))
    BY <1>5 DEF Bootstrap, Booted, HoldersOK
  <2> HIDE DEF e
  <2>2. KeysOK'
    BY <2>1, KeysWhenObserved
  <2>3. StepsOK'
    BY <1>5 DEF Bootstrap, StepsOK, ingestVars, requestVars
  <2> QED BY <2>2, <2>3
<1>6. CASE Restart
  <2>1. KeysOK'
    BY <1>6, KeysWhenStarted DEF Restart, RestartLoading
  <2>2. Range(file) \subseteq Events
    BY DEF HoldersOK, Range
  <2>3. StepsOK'
    BY <1>6, <2>2 DEF Restart, RestartLoading, StepsOK, Steps
  <2> QED BY <2>1, <2>3
<1>7. CASE ConfigChanges
  BY <1>7 DEF ConfigChanges, KeysOK, StepsOK, ingestVars, catalogVars, requestVars
<1> QED BY <1>0, <1>2, <1>3, <1>4, <1>5, <1>6, <1>7 DEF Next, Running, Refresh, SyncOTMetadata

LEMMA TypesStay == Spec => [](KeysOK /\ StepsOK)
<1>1. Init => KeysOK /\ StepsOK
  <2> SUFFICES ASSUME Init PROVE KeysOK /\ StepsOK
    OBVIOUS
  <2>1. KeysOK
    <3>1. DOMAIN records = DOMAIN DefaultSources
      BY DEF Init, SeedConfiguredSources, MergeConfiguredSources
    <3> QED BY <3>1 DEF KeysOK
  <2>2. StepsOK
    BY ConfigsAssumption DEF Init, StepsOK, Steps
  <2> QED BY <2>1, <2>2
<1> QED BY <1>1, NextTypes, CatalogStaysRight, PTL DEF Spec

(* The catalog has a record of each default, and of nothing that was neither a default,
   nor configured, nor the source of an event it has seen. *)
THEOREM TypeCorrect == Spec => []TypeOK
<1>1. CatalogInv /\ KeysOK /\ StepsOK => TypeOK
  <2> SUFFICES ASSUME CatalogInv, KeysOK, StepsOK PROVE TypeOK
    OBVIOUS
  <2>1. ASSUME NEW k \in DOMAIN records PROVE records[k].eventCount \in Nat
    <3>1. IsFiniteSet(EventsOfKey(k))
      BY FS_Subset DEF CatalogInv, CatalogOK, EventsOfKey
    <3> QED BY <3>1, FS_CardinalityType DEF CatalogInv, CatalogOK
  <2>2. file \in Seq(Events) /\ toLoad \in Seq(Events) /\ seenEventIDs \subseteq Events
    BY DEF CatalogInv, HoldersOK, CatalogOK
  <2> QED BY <2>1, <2>2 DEF KeysOK, StepsOK, Steps, TypeOK
<1> QED BY <1>1, TypesStay, CatalogStaysRight, PTL
-----------------------------------------------------------------------------
(***************************************************************************)
(* What a request answers.  Until another request seeds or merges, the     *)
(* records keep the flags it merged.                                       *)
(***************************************************************************)
Follows(recs, r) ==
    \A k \in DOMAIN r : /\ k \in DOMAIN recs /\ recs[k].configured
                        /\ recs[k].enabled = r[k].enabled

AnswerInv ==
    /\ \A r \in Requests : pc[r] \in {"idle", "fetch"} => rows[r] = NoRows
    /\ \A r \in Requests \ overtaken : pc[r] = "answer" => Follows(records, rows[r])

(* An event leaves a source that is configured as enabled or disabled as it was. *)
LEMMA ObservingKeepsFlags ==
    ASSUME RecordsOK, NEW x, Observe(x), NEW r, Follows(records, r) PROVE Follows(records', r)
<1> DEFINE key == KeyOf(x)
<1>1. CASE records' = records
  BY <1>1
<1>2. CASE records' # records
  <2>1. records' = [k \in DOMAIN records \cup {key} |->
                       IF k = key THEN ObservedIn(EnsureState(records, k), x) ELSE records[k]]
    BY <1>2 DEF Observe, ObserveEvent
  <2> HIDE DEF key
  <2>2. ASSUME NEW k \in DOMAIN r
        PROVE  /\ k \in DOMAIN records' /\ records'[k].configured
               /\ records'[k].enabled = r[k].enabled
    <3> DEFINE rec == records[k]
    <3>1. k \in DOMAIN records /\ rec.configured /\ rec.enabled = r[k].enabled /\ IsRecord(rec)
      BY DEF Follows, RecordsOK
    <3>2. k \in DOMAIN records' /\ (records'[k] = rec \/ records'[k] = ObservedIn(rec, x))
      BY <2>1, <3>1 DEF EnsureState
    <3> HIDE DEF rec
    <3>3. ObservedIn(rec, x).configured = rec.configured /\ ObservedIn(rec, x).enabled = rec.enabled
      BY <3>1 DEF ObservedIn, IsRecord, EmptyRecord
    <3> QED BY <3>1, <3>2, <3>3
  <2> QED BY <2>2 DEF Follows
<1> QED BY <1>1, <1>2

LEMMA MergingFollows ==
    ASSUME RecordsOK, NEW r, records' = MergeConfiguredSources(records, r) PROVE Follows(records', r)
<1>1. ASSUME NEW k \in DOMAIN r
      PROVE  /\ k \in DOMAIN records' /\ records'[k].configured
             /\ records'[k].enabled = r[k].enabled
  <2> DEFINE rec == EnsureState(records, k)
             row == r[k]
  <2>1. k \in DOMAIN records' /\ records'[k] = ConfiguredBy(rec, row)
    BY DEF MergeConfiguredSources
  <2>2. IsRecord(rec)
    BY DEF EnsureState, RecordsOK, IsRecord
  <2> HIDE DEF rec, row
  <2>3. ConfiguredBy(rec, row).configured /\ ConfiguredBy(rec, row).enabled = row.enabled
    BY <2>2 DEF ConfiguredBy, IsRecord, EmptyRecord
  <2> QED BY <2>1, <2>3 DEF row
<1> QED BY <1>1 DEF Follows

LEMMA NextAnswerInv ==
    ASSUME CatalogInv, StepsOK, AnswerInv, [Next]_vars PROVE AnswerInv'
<1> USE DEF CatalogInv
<1>0. CASE UNCHANGED <<pc, rows, overtaken, records>>
  BY <1>0 DEF AnswerInv
<1>1. ASSUME UNCHANGED <<rows, overtaken>>, \A r \in Requests : pc'[r] = pc[r],
             records' = records \/ \E x : Observe(x)
      PROVE  AnswerInv'
  <2>1. ASSUME NEW r, Follows(records, r) PROVE Follows(records', r)
    BY <1>1, <2>1, ObservingKeepsFlags
  <2> QED BY <1>1, <2>1 DEF AnswerInv
<1>2. ASSUME NEW g \in Ingesters, Ingest(g) PROVE AnswerInv'
  <2>1. UNCHANGED <<rows, overtaken>>
    BY <1>2 DEF Ingest, ReceivePosted, ReceiveFromOT, Claim, AppendRecords, AppendFails,
                ObserveStored, requestVars
  <2>2. \E step : Goto(g, step)
    BY <1>2 DEF Ingest, ReceivePosted, ReceiveFromOT, Claim, AppendRecords, AppendFails,
                ObserveStored, ClaimOf
  <2>3. \A r \in Requests : pc'[r] = pc[r]
    BY <2>2, ActorsAssumption DEF Goto, HoldersOK, Goroutines, Ingesters, Readers
  <2>4. records' = records \/ \E x : Observe(x)
    BY <1>2 DEF Ingest, ReceivePosted, ReceiveFromOT, Claim, AppendRecords, AppendFails,
                ObserveStored, catalogVars
  <2> QED BY <1>1, <2>1, <2>3, <2>4
<1>3. ASSUME NEW r \in Requests, Seed(r) PROVE AnswerInv'
  <2>1. /\ pc[r] = "idle" /\ pc' = [pc EXCEPT ![r] = "fetch"] /\ rows' = rows
        /\ overtaken' = overtaken \cup Open
    BY <1>3 DEF Seed, Goto
  <2>2. \A q \in Requests : pc[q] = "answer" => q \in overtaken'
    BY <2>1 DEF Open
  <2> QED BY <2>1, <2>2 DEF AnswerInv, StepsOK, Goroutines
<1>4. ASSUME NEW g \in Requests \cup Pullers, Fetch(g) PROVE AnswerInv'
  <2>1. UNCHANGED <<records, overtaken>>
        /\ rows' = [rows EXCEPT ![g] = otConfig] /\ pc' = [pc EXCEPT ![g] = "merge"]
    BY <1>4 DEF Fetch, Goto, catalogVars
  <2> QED BY <2>1 DEF AnswerInv, StepsOK, Goroutines, Ingesters, Readers
<1>5. ASSUME NEW r \in Requests, FetchFails(r) PROVE AnswerInv'
  <2>1. /\ UNCHANGED <<records, overtaken, rows>> /\ pc[r] = "fetch"
        /\ pc' = [pc EXCEPT ![r] = "answer"]
    BY <1>5 DEF FetchFails, Goto, catalogVars, requestVars
  <2>2. Follows(records, rows[r])
    <3>1. rows[r] = <<>>
      BY <2>1 DEF AnswerInv, NoRows
    <3> QED BY <3>1 DEF Follows
  <2> QED BY <2>1, <2>2 DEF AnswerInv, StepsOK, Goroutines
<1>6. ASSUME NEW g \in Requests \cup Pullers, Merge(g) PROVE AnswerInv'
  <2>1. /\ records' = MergeConfiguredSources(records, rows[g]) /\ pc[g] = "merge"
        /\ overtaken' = overtaken \cup (Open \ {g})
        /\ rows' = IF g \in Pullers THEN [rows EXCEPT ![g] = NoRows] ELSE rows
        /\ pc' = [pc EXCEPT ![g] = IF g \in Pullers THEN "idle" ELSE "answer"]
    BY <1>6 DEF Merge, Goto
  <2>2. Follows(records', rows[g])
    BY <2>1, MergingFollows
  <2>3. \A q \in Requests : q # g /\ pc[q] = "answer" => q \in overtaken'
    BY <2>1 DEF Open
  <2>4. \A q \in Requests : q # g => pc'[q] = pc[q] /\ rows'[q] = rows[q]
    BY <2>1 DEF StepsOK
  <2>5. CASE g \in Pullers
    <3>1. g \notin Requests
      BY <2>5, ActorsAssumption
    <3> QED BY <2>3, <2>4, <3>1 DEF AnswerInv
  <2>6. CASE g \in Requests /\ g \notin Pullers
    <3>1. rows' = rows /\ pc'[g] = "answer"
      BY <2>1, <2>6 DEF StepsOK, Goroutines
    <3> QED BY <2>2, <2>3, <2>4, <3>1 DEF AnswerInv
  <2> QED BY <2>5, <2>6
<1>7. ASSUME NEW r \in Requests, Answer(r) PROVE AnswerInv'
  <2>1. /\ records' = records /\ overtaken' = overtaken \ {r}
        /\ rows' = [rows EXCEPT ![r] = NoRows] /\ pc' = [pc EXCEPT ![r] = "idle"]
    BY <1>7 DEF Answer, Goto, catalogVars
  <2> QED BY <2>1 DEF AnswerInv, StepsOK, Goroutines
<1>8. CASE Bootstrap
  BY <1>8, <1>1 DEF Bootstrap, requestVars
<1>9. CASE Restart
  <2>1. \A r \in Requests : pc'[r] = "idle" /\ rows'[r] = NoRows
    BY <1>9 DEF Restart, RestartLoading, Goroutines
  <2> QED BY <2>1 DEF AnswerInv
<1>10. CASE ConfigChanges \/ UNCHANGED vars
  BY <1>10, <1>0 DEF ConfigChanges, vars, catalogVars, requestVars
<1> QED BY <1>2, <1>3, <1>4, <1>5, <1>6, <1>7, <1>8, <1>9, <1>10
        DEF Next, Running, Refresh, SyncOTMetadata

LEMMA AnswersStayRight == Spec => []AnswerInv
<1>1. Init => AnswerInv
  BY DEF Init, AnswerInv, Goroutines
<1> QED BY <1>1, NextAnswerInv, TypesStay, CatalogStaysRight, PTL DEF Spec

(* With all flags set, a request shows every record. *)
LEMMA EverythingIsAnswered == Answered = [k \in DOMAIN records |-> records[k]]
<1>1. Visible(records, Everything) = DOMAIN records
  BY DEF Visible, ShouldInclude, Everything
<1> QED BY <1>1 DEF Answered, Snapshot

(* Whatever events, polls and changes of the configuration come between, a request that
   reached the OT collector answers with what it fetched, unless another one seeded or
   merged meanwhile. *)
THEOREM AnswersFollowOT == Spec => AnswerFollowsOT
<1> DEFINE Right == \A r \in Requests \ overtaken :
               Answer(r) => \A k \in DOMAIN rows[r] : Answered[k].enabled = rows[r][k].enabled
<1>1. AnswerInv => Right
  <2> SUFFICES ASSUME AnswerInv, NEW r \in Requests \ overtaken, Answer(r), NEW k \in DOMAIN rows[r]
               PROVE  Answered[k].enabled = rows[r][k].enabled
    OBVIOUS
  <2>1. Follows(records, rows[r])
    BY DEF AnswerInv, Answer
  <2> QED BY <2>1, EverythingIsAnswered DEF Follows
<1>2. AnswerInv /\ [Next]_vars => [Right]_vars
  BY <1>1
<1> QED BY <1>2, AnswersStayRight, PTL DEF Spec, AnswerFollowsOT
-----------------------------------------------------------------------------
(***************************************************************************)
(* The panels.  Each record's severities and categories add up to its      *)
(* events, so adding up the records group by group, type by type or name   *)
(* by name gives the same.                                                 *)
(***************************************************************************)
NoAddress == ""

KeyOK(k) ==
    /\ k = <<k[1], k[2]>> /\ NormalizeSourceType(k[1]) = k[1]
    /\ k[2] \notin Events => k[2] # NoAddress

RecordCounts(rec) ==
    IsCount(rec.severityCounts, rec.eventCount) /\ IsCount(rec.categoryCounts, rec.eventCount)

PanelInv ==
    /\ IsFiniteSet(DOMAIN records)
    /\ \A k \in DOMAIN records : KeyOK(k) /\ RecordCounts(records[k])

LEMMA DefaultKeys ==
    IsFiniteSet(DOMAIN DefaultSources) /\ \A k \in DOMAIN DefaultSources : KeyOK(k)
<1>1. \A a, b, c : IsFiniteSet({a, b, c})
  <2>1. ASSUME NEW a, NEW b, NEW c PROVE IsFiniteSet({a, b, c})
    <3>1. {a, b, c} = ({a} \cup {b}) \cup {c}
      OBVIOUS
    <3>2. IsFiniteSet({a}) /\ IsFiniteSet({b}) /\ IsFiniteSet({c})
      BY FS_Singleton
    <3>3. IsFiniteSet({a} \cup {b})
      BY <3>2, FS_Union
    <3>4. IsFiniteSet(({a} \cup {b}) \cup {c})
      BY <3>2, <3>3, FS_Union, Zenon
    <3> QED BY <3>1, <3>4
  <2> QED BY <2>1
<1> DEFINE A == {<<"dmz_collector", "http://192.168.10.70:9000">>, <<"vault", "http://192.168.10.10:8200">>,
                 <<"vault_agent", "192.168.10.11">>}
           B == {<<"influxdb", "http://192.168.10.15:8086">>, <<"opcua_dmz_gateway", "192.168.10.20">>,
                 <<"gds", "192.168.10.30">>}
           C == {<<"postgres_gds", "192.168.10.31">>, <<"jumphost", "192.168.10.5">>,
                 <<"ids", "/ids/alerts">>}
<1>2. DOMAIN DefaultSources = (A \cup B) \cup C
  BY DEF DefaultSources
<1>3. IsFiniteSet(A) /\ IsFiniteSet(B) /\ IsFiniteSet(C)
  BY <1>1
<1>4. IsFiniteSet(A \cup B)
  BY <1>3, FS_Union
<1>5. IsFiniteSet((A \cup B) \cup C)
  BY <1>3, <1>4, FS_Union
<1>6. ASSUME NEW k \in (A \cup B) \cup C PROVE KeyOK(k)
  <2>1. k = <<k[1], k[2]>>
    OBVIOUS
  <2>2. k[2] # NoAddress
    <3>1. k[2] \in {"http://192.168.10.70:9000", "http://192.168.10.10:8200", "192.168.10.11", "http://192.168.10.15:8086",
                    "192.168.10.20", "192.168.10.30", "192.168.10.31", "192.168.10.5",
                    "/ids/alerts"}
      OBVIOUS
    <3> HIDE DEF A, B, C
    <3> QED BY ONLY <3>1, Zenon DEF NoAddress
  <2>3. k[1] \in KnownTypes
    BY DEF KnownTypes, DMZServices
  <2>4. NormalizeSourceType(k[1]) = k[1]
    BY <2>3, CanonicalStays DEF CanonicalTypes
  <2> QED BY <2>1, <2>2, <2>4 DEF KeyOK
<1> QED BY <1>2, <1>5, <1>6

LEMMA MergingKeepsPanels ==
    ASSUME RecordsOK, PanelInv, NEW r, IsFiniteSet(DOMAIN r), \A k \in DOMAIN r : KeyOK(k),
           records' = MergeConfiguredSources(records, r)
    PROVE  PanelInv'
<1>1. DOMAIN records' = DOMAIN records \cup DOMAIN r
  BY DEF MergeConfiguredSources
<1>2. IsFiniteSet(DOMAIN records')
  BY <1>1, FS_Union DEF PanelInv
<1>3. ASSUME NEW k \in DOMAIN records' PROVE RecordCounts(records'[k])
  <2> DEFINE rec == EnsureState(records, k)
  <2>1. IsRecord(rec) /\ RecordCounts(rec)
    <3>1. CASE k \in DOMAIN records
      BY <3>1 DEF EnsureState, RecordsOK, PanelInv
    <3>2. CASE k \notin DOMAIN records
      <4>1. RecordCounts(EmptyRecord) /\ IsRecord(EmptyRecord)
        BY NothingIsCounted DEF RecordCounts, EmptyRecord, IsRecord
      <4> QED BY <3>2, <4>1 DEF EnsureState
    <3> QED BY <3>1, <3>2
  <2>2. records'[k] = rec \/ \E row : records'[k] = ConfiguredBy(rec, row)
    BY <1>1 DEF MergeConfiguredSources, EnsureState
  <2> HIDE DEF rec
  <2>3. ASSUME NEW row PROVE RecordCounts(ConfiguredBy(rec, row))
    <3> DEFINE new == ConfiguredBy(rec, row)
    <3>1. /\ new.severityCounts = rec.severityCounts /\ new.categoryCounts = rec.categoryCounts
          /\ new.eventCount = rec.eventCount
      BY <2>1 DEF ConfiguredBy, IsRecord, EmptyRecord
    <3> QED BY <2>1, <3>1 DEF RecordCounts
  <2> QED BY <2>1, <2>2, <2>3
<1>4. \A k \in DOMAIN records' : KeyOK(k)
  BY <1>1 DEF PanelInv
<1> QED BY <1>2, <1>3, <1>4 DEF PanelInv

(* An event is counted under its severity and its category. *)
LEMMA ObservingKeepsPanels ==
    ASSUME RecordsOK, PanelInv, NEW e \in Events, NEW x, x \in {Parsed(e), StoredEvent(e)}, Observe(x)
    PROVE  PanelInv'
<1>1. CASE records' = records
  BY <1>1 DEF PanelInv
<1>2. CASE records' # records
  <2> DEFINE key == KeyOf(x)
             rec == EnsureState(records, key)
             new == ObservedIn(rec, x)
  <2>1. /\ DOMAIN records' = DOMAIN records \cup {key} /\ records'[key] = new
        /\ \A k \in DOMAIN records' \ {key} : k \in DOMAIN records /\ records'[k] = records[k]
    BY <1>2 DEF Observe, ObserveEvent
  <2>2. IsRecord(rec) /\ RecordCounts(rec)
    <3>1. CASE key \in DOMAIN records
      BY <3>1 DEF EnsureState, RecordsOK, PanelInv
    <3>2. CASE key \notin DOMAIN records
      <4>1. RecordCounts(EmptyRecord) /\ IsRecord(EmptyRecord)
        BY NothingIsCounted DEF RecordCounts, EmptyRecord, IsRecord
      <4> QED BY <3>2, <4>1 DEF EnsureState
    <3> QED BY <3>1, <3>2
  <2>3. KeyOK(key)
    <3>1. x.id \in Events
      BY EventIdentity
    <3>2. key = <<NormalizeSourceType(x.type), IF x.ip # NoAddress THEN x.ip ELSE x.id>>
      BY Zenon DEF KeyOf, SourceKey, NoAddress
    <3>3. NormalizeSourceType(NormalizeSourceType(x.type)) = NormalizeSourceType(x.type)
      BY CanonicalType, CanonicalStays
    <3> HIDE DEF key
    <3>4. key[1] = NormalizeSourceType(x.type) /\ key[2] = (IF x.ip # NoAddress THEN x.ip ELSE x.id)
          /\ key = <<key[1], key[2]>>
      BY <3>2
    <3>5. key[2] \notin Events => key[2] # NoAddress
      BY <3>1, <3>4
    <3> QED BY <3>3, <3>4, <3>5 DEF KeyOK
  <2> HIDE DEF rec, key
  <2>4. /\ new.severityCounts = Incremented(rec.severityCounts, x.severity)
        /\ new.categoryCounts = Incremented(rec.categoryCounts, x.category)
        /\ new.eventCount = rec.eventCount + 1
    BY <2>2 DEF ObservedIn, IsRecord, EmptyRecord
  <2> HIDE DEF new
  <2>5. RecordCounts(new)
    BY <2>2, <2>4, CountingAddsOne DEF RecordCounts
  <2>6. IsFiniteSet(DOMAIN records')
    BY <2>1, FS_AddElement DEF PanelInv
  <2> QED BY <2>1, <2>3, <2>5, <2>6 DEF PanelInv
<1> QED BY <1>1, <1>2

(* What a step does to the records. *)
LEMMA RecordSteps ==
    ASSUME CatalogInv, StepsOK, [Next]_vars
    PROVE  \/ records' = records
           \/ \E e \in Events : \E x \in {Parsed(e), StoredEvent(e)} : Observe(x)
           \/ \E r \in OTConfigs \cup {NoRows, DefaultSources} :
                 records' = MergeConfiguredSources(records, r)
           \/ records' = SeedConfiguredSources(<<>>)
<1> USE DEF CatalogInv
<1>1. ASSUME NEW g \in Ingesters, Ingest(g)
      PROVE  records' = records \/ \E e \in Events : \E x \in {Parsed(e), StoredEvent(e)} : Observe(x)
  <2>1. CASE \E e \in Events : ReceiveFromOT(g, e)
    BY <2>1 DEF ReceiveFromOT
  <2>2. CASE ObserveStored(g)
    BY <2>2 DEF ObserveStored, HoldersOK
  <2>3. CASE (\E e \in Events : ReceivePosted(g, e)) \/ Claim(g) \/ AppendRecords(g) \/ AppendFails(g)
    BY <2>3 DEF ReceivePosted, Claim, AppendRecords, AppendFails, catalogVars
  <2> QED BY <1>1, <2>1, <2>2, <2>3 DEF Ingest
<1>2. ASSUME NEW r \in Requests \cup Pullers, Refresh(r) \/ SyncOTMetadata(r)
      PROVE  \/ records' = records
             \/ \E c \in OTConfigs \cup {NoRows, DefaultSources} :
                   records' = MergeConfiguredSources(records, c)
  <2>1. rows[r] \in OTConfigs \cup {NoRows}
    BY DEF StepsOK
  <2>2. CASE Merge(r)
    BY <2>1, <2>2 DEF Merge
  <2>3. CASE Seed(r)
    BY <2>3 DEF Seed, SeedConfiguredSources
  <2>4. CASE Fetch(r) \/ FetchFails(r) \/ Answer(r)
    BY <2>4 DEF Fetch, FetchFails, Answer, catalogVars
  <2> QED BY <1>2, <2>2, <2>3, <2>4 DEF Refresh, SyncOTMetadata
<1>3. CASE Bootstrap
  <2> DEFINE e == Head(toLoad)
  <2>1. e \in Events /\ Observe(StoredEvent(e))
    BY <1>3 DEF Bootstrap, Booted, HoldersOK
  <2> HIDE DEF e
  <2> QED BY <2>1
<1>4. CASE Restart
  BY <1>4 DEF Restart, RestartLoading
<1>5. CASE ConfigChanges \/ UNCHANGED vars
  BY <1>5 DEF ConfigChanges, vars, catalogVars
<1> QED BY <1>1, <1>2, <1>3, <1>4, <1>5 DEF Next, Running

LEMMA SeedingMakesPanels ==
    ASSUME NEW recs, recs = SeedConfiguredSources(<<>>)
    PROVE  IsFiniteSet(DOMAIN recs) /\ \A k \in DOMAIN recs : KeyOK(k) /\ RecordCounts(recs[k])
<1>1. DOMAIN recs = DOMAIN DefaultSources
      /\ \A k \in DOMAIN recs : recs[k] = ConfiguredBy(EmptyRecord, DefaultSources[k])
  BY DEF SeedConfiguredSources, MergeConfiguredSources, EnsureState
<1>2. ASSUME NEW row PROVE RecordCounts(ConfiguredBy(EmptyRecord, row))
  <2> DEFINE new == ConfiguredBy(EmptyRecord, row)
  <2>1. new.severityCounts = <<>> /\ new.categoryCounts = <<>> /\ new.eventCount = 0
    BY DEF ConfiguredBy, EmptyRecord
  <2> QED BY <2>1, NothingIsCounted DEF RecordCounts
<1> QED BY <1>1, <1>2, DefaultKeys

LEMMA PanelsStay == Spec => []PanelInv
<1>1. Init => PanelInv
  BY SeedingMakesPanels DEF Init, PanelInv
<1>2. CatalogInv /\ StepsOK /\ PanelInv /\ [Next]_vars => PanelInv'
  <2> SUFFICES ASSUME CatalogInv, StepsOK, PanelInv, [Next]_vars PROVE PanelInv'
    OBVIOUS
  <2>1. CASE records' = records
    BY <2>1 DEF PanelInv
  <2>2. CASE \E e \in Events : \E x \in {Parsed(e), StoredEvent(e)} : Observe(x)
    BY <2>2, ObservingKeepsPanels DEF CatalogInv
  <2>3. ASSUME NEW r \in OTConfigs \cup {NoRows, DefaultSources},
               records' = MergeConfiguredSources(records, r)
        PROVE  PanelInv'
    <3>1. IsFiniteSet(DOMAIN r) /\ \A k \in DOMAIN r : KeyOK(k)
      <4>1. CASE r \in OTConfigs
        <5>1. ASSUME NEW k \in DOMAIN r PROVE KeyOK(k)
          <6>1. r \in OTConfigs
            BY <4>1
          <6>2. k = SourceKey(k[1], k[2], k[2]) /\ k[2] # NoAddress
            BY ONLY <6>1, <5>1, ConfigsAssumption, Zenon DEF NoAddress
          <6>3. SourceKey(k[1], k[2], k[2]) = <<NormalizeSourceType(k[1]), k[2]>>
            BY ONLY <6>2, Zenon DEF SourceKey, NoAddress
          <6>4. k = <<NormalizeSourceType(k[1]), k[2]>>
            BY ONLY <6>2, <6>3
          <6>5. k = <<k[1], k[2]>> /\ NormalizeSourceType(k[1]) = k[1]
            BY ONLY <6>4
          <6> QED BY <6>2, <6>5 DEF KeyOK
        <5>2. IsFiniteSet(DOMAIN r)
          BY ONLY <4>1, ConfigsAssumption, Zenon
        <5> QED BY <5>1, <5>2
      <4>2. CASE r = NoRows
        <5>1. DOMAIN r = {}
          BY <4>2 DEF NoRows
        <5> QED BY <5>1, FS_EmptySet
      <4>3. CASE r = DefaultSources
        BY <4>3, DefaultKeys
      <4> QED BY <4>1, <4>2, <4>3
    <3> QED BY <2>3, <3>1, MergingKeepsPanels DEF CatalogInv
  <2>4. CASE records' = SeedConfiguredSources(<<>>)
    BY <2>4, SeedingMakesPanels DEF PanelInv
  <2> QED BY <2>1, <2>2, <2>3, <2>4, RecordSteps
<1> QED BY <1>1, <1>2, TypesStay, CatalogStaysRight, PTL DEF Spec

(* The events of some records, or groups, are a sum. *)
LEMMA EventsOfIsSum ==
    ASSUME NEW table, NEW S, IsFiniteSet(S), NEW n, \A k \in S : n[k] \in Nat /\ n[k] = table[k].eventCount
    PROVE  EventsOf(table, S) = SumOf(n, S)
<1> DEFINE Sums(h) == h = [s \in SUBSET S |->
                              IF s = {} THEN 0 ELSE table[Some(s)].eventCount + h[s \ {Some(s)}]]
           sums == CHOOSE h : Sums(h)
<1>1. EventsOf(table, S) = sums[S]
  BY DEF EventsOf, MapThenSumSet, MapThenFoldSet, Some
<1>2. PICK h : SumsOf(h, n, S) /\ SumOf(n, S) = h[S]
  BY SumIsOneOf
<1>3. ASSUME NEW j PROVE Sums(j) <=> SumsOf(j, n, S)
  <2>1. \A s \in SUBSET S : s # {} => n[Some(s)] = table[Some(s)].eventCount
    BY DEF Some
  <2> QED BY <2>1 DEF SumsOf
<1>4. Sums(h)
  BY <1>2, <1>3
<1>5. Sums(sums)
  <2> HIDE DEF Sums
  <2> QED BY <1>4
<1>6. SumsOf(sums, n, S)
  BY <1>3, <1>5
<1> HIDE DEF Sums, sums
<1>7. sums[S] = h[S]
  BY <1>2, <1>6, SumsAgree
<1> QED BY <1>1, <1>2, <1>7

SourcesOf(table, S) == MapThenSumSet(LAMBDA g : table[g].sourceCount, S)

(* So are the sources of some groups, *)
LEMMA SourcesOfIsSum ==
    ASSUME NEW table, NEW S, IsFiniteSet(S), NEW n, \A k \in S : n[k] \in Nat /\ n[k] = table[k].sourceCount
    PROVE  SourcesOf(table, S) = SumOf(n, S)
<1> DEFINE Sums(h) == h = [s \in SUBSET S |->
                              IF s = {} THEN 0 ELSE table[Some(s)].sourceCount + h[s \ {Some(s)}]]
           sums == CHOOSE h : Sums(h)
<1>1. SourcesOf(table, S) = sums[S]
  BY DEF SourcesOf, MapThenSumSet, MapThenFoldSet, Some
<1>2. PICK h : SumsOf(h, n, S) /\ SumOf(n, S) = h[S]
  BY SumIsOneOf
<1>3. ASSUME NEW j PROVE Sums(j) <=> SumsOf(j, n, S)
  <2>1. \A s \in SUBSET S : s # {} => n[Some(s)] = table[Some(s)].sourceCount
    BY DEF Some
  <2> QED BY <2>1 DEF SumsOf
<1>4. Sums(h)
  BY <1>2, <1>3
<1>5. Sums(sums)
  <2> HIDE DEF Sums
  <2> QED BY <1>4
<1>6. SumsOf(sums, n, S)
  BY <1>3, <1>5
<1> HIDE DEF Sums, sums
<1>7. sums[S] = h[S]
  BY <1>2, <1>6, SumsAgree
<1> QED BY <1>1, <1>2, <1>7

CountsOf(counts, x, S) == MapThenSumSet(LAMBDA k : CountOf(counts[k], x), S)

(* and the counts of a name. *)
LEMMA CountsOfIsSum ==
    ASSUME NEW counts, NEW x, NEW S, IsFiniteSet(S), NEW n, \A k \in S : n[k] \in Nat /\ n[k] = CountOf(counts[k], x)
    PROVE  CountsOf(counts, x, S) = SumOf(n, S)
<1> DEFINE Sums(h) == h = [s \in SUBSET S |->
                              IF s = {} THEN 0 ELSE CountOf(counts[Some(s)], x) + h[s \ {Some(s)}]]
           sums == CHOOSE h : Sums(h)
<1>1. CountsOf(counts, x, S) = sums[S]
  BY DEF CountsOf, MapThenSumSet, MapThenFoldSet, Some
<1>2. PICK h : SumsOf(h, n, S) /\ SumOf(n, S) = h[S]
  BY SumIsOneOf
<1>3. ASSUME NEW j PROVE Sums(j) <=> SumsOf(j, n, S)
  <2>1. \A s \in SUBSET S : s # {} => n[Some(s)] = CountOf(counts[Some(s)], x)
    BY DEF Some
  <2> QED BY <2>1 DEF SumsOf
<1>4. Sums(h)
  BY <1>2, <1>3
<1>5. Sums(sums)
  <2> HIDE DEF Sums
  <2> QED BY <1>4
<1>6. SumsOf(sums, n, S)
  BY <1>3, <1>5
<1> HIDE DEF Sums, sums
<1>7. sums[S] = h[S]
  BY <1>2, <1>6, SumsAgree
<1> QED BY <1>1, <1>2, <1>7

(* Merged, the counts of some records add up to their events. *)
LEMMA MergedCountsAddUp ==
    ASSUME NEW counts, NEW S, IsFiniteSet(S), NEW n, \A k \in S : IsCount(counts[k], n[k])
    PROVE  TotalOf(MergedCounts(counts, S)) = SumOf(n, S)
<1> DEFINE m == MergedCounts(counts, S)
           N == UNION {DOMAIN counts[k] : k \in S}
           row == [k \in S |-> [x \in N |-> CountOf(counts[k], x)]]
           col == [x \in N |-> [k \in S |-> CountOf(counts[k], x)]]
<1>1. IsFiniteSet(N)
  <2> DEFINE f == [k \in S |-> DOMAIN counts[k]]
             T == {DOMAIN counts[k] : k \in S}
  <2>1. f \in [S -> T] /\ \A x \in T : \E k \in S : f[k] = x
    OBVIOUS
  <2>2. \A x \in T : IsFiniteSet(x)
    BY DEF IsCount
  <2> HIDE DEF f, T
  <2>3. IsFiniteSet(T)
    <3>1. f \in Surjection(S, T)
      BY <2>1 DEF Surjection
    <3> QED BY <3>1, FS_Surjection DEF ExistsSurjection
  <2>4. IsFiniteSet(UNION T)
    BY <2>2, <2>3, FS_UNION
  <2> QED BY <2>4 DEF T
<1>2. DOMAIN m = N /\ \A x \in N : m[x] = CountsOf(counts, x, S)
  BY DEF MergedCounts, CountsOf
<1>3. \A k \in S : DOMAIN counts[k] \subseteq N
  OBVIOUS
<1>4. \A k \in S, x \in N : row[k][x] = CountOf(counts[k], x) /\ col[x][k] = CountOf(counts[k], x)
  OBVIOUS
<1> HIDE DEF m, N, row, col
<1>5. \A k \in S, x \in N : CountOf(counts[k], x) \in Nat
  BY DEF IsCount, CountOf
<1>6. \A k \in S : n[k] = SumOf(row[k], N)
  BY <1>1, <1>3, <1>4, TotalOverMore
<1>7. \A x \in N : m[x] = SumOf(col[x], S)
  BY <1>2, <1>4, <1>5, CountsOfIsSum
<1>8. SumOf(n, S) = SumOf(m, N)
  <2>1. \A k \in S, x \in N : row[k][x] \in Nat /\ col[x][k] = row[k][x]
    BY <1>4, <1>5
  <2>2. IsTable(S, N, row, col, n, m)
    BY <1>6, <1>7, <2>1 DEF IsTable
  <2> QED BY <1>1, <2>2, SumOfTable
<1>9. TotalOf(m) = SumOf(m, N)
  BY <1>2 DEF TotalOf, SumOf
<1> QED BY <1>8, <1>9 DEF m

(* The list and the summary of the same records agree, for any flags. *)
LEMMA ListAndSummaryAgree ==
    ASSUME PanelInv, NEW opts
    PROVE  Agree(opts)
<1> DEFINE shown == Visible(records, opts)
           snap == Snapshot(records, opts)
           sum == Summary(records, opts)
           n == [k \in shown |-> records[k].eventCount]
           one == [k \in shown |-> 1]
           class == [k \in shown |-> GroupForSourceType(k[1])]
           type == [k \in shown |-> k[1]]
           events == EventsOf(snap.sources, DOMAIN snap.sources)
           groups == DOMAIN sum.byGroup
           types == DOMAIN sum.bySourceType
<1>1. shown \subseteq DOMAIN records /\ IsFiniteSet(shown)
  <2>1. shown \subseteq DOMAIN records
    BY DEF Visible
  <2> QED BY <2>1, FS_Subset DEF PanelInv
<1>2. /\ DOMAIN n = shown /\ \A k \in shown : n[k] = records[k].eventCount
      /\ \A k \in shown : one[k] = 1
      /\ \A k \in shown : class[k] = GroupForSourceType(k[1])
      /\ \A k \in shown : type[k] = k[1]
  OBVIOUS
<1>3. \A k \in shown : /\ IsCount(records[k].severityCounts, n[k])
                       /\ IsCount(records[k].categoryCounts, n[k])
                       /\ n[k] \in Nat
  BY <1>1, <1>2 DEF PanelInv, RecordCounts, IsCount
<1> HIDE DEF shown
<1>4. /\ snap.sources = [k \in shown |-> records[k]] /\ snap.visible = Cardinality(shown)
      /\ snap.hidden = Cardinality(DOMAIN records \ shown)
      /\ sum.hidden = Cardinality(DOMAIN records \ shown)
      /\ sum.bySeverity = MergedCounts(SeverityCounts(records), shown)
      /\ sum.byCategory = MergedCounts(CategoryCounts(records), shown)
  BY DEF Snapshot, Summary, shown
<1>5. /\ groups = {class[k] : k \in shown}
      /\ \A g \in groups :
            /\ sum.byGroup[g].sourceCount = Cardinality({k \in shown : class[k] = g})
            /\ sum.byGroup[g].eventCount = EventsOf(records, {k \in shown : class[k] = g})
  BY DEF Summary, shown
<1>6. /\ types = {type[k] : k \in shown}
      /\ \A t \in types :
            sum.bySourceType[t] = EventsOf(records, {k \in shown : type[k] = t})
  BY <1>2 DEF Summary, shown
<1> HIDE DEF snap, sum, n, one, class, type, groups, types, events
<1>7. events = SumOf(n, shown)
  <2>1. DOMAIN snap.sources = shown /\ \A k \in shown : snap.sources[k] = records[k]
    BY <1>4
  <2> QED BY <1>1, <1>2, <1>3, <2>1, EventsOfIsSum DEF events
<1>8. \A S \in SUBSET shown :
         /\ IsFiniteSet(S) /\ EventsOf(records, S) = SumOf(n, S)
         /\ Cardinality(S) = SumOf(one, S)
  <2> SUFFICES ASSUME NEW S \in SUBSET shown
               PROVE  /\ IsFiniteSet(S) /\ EventsOf(records, S) = SumOf(n, S)
                      /\ Cardinality(S) = SumOf(one, S)
    OBVIOUS
  <2>1. IsFiniteSet(S)
    BY <1>1, FS_Subset
  <2>2. \A k \in S : n[k] \in Nat /\ n[k] = records[k].eventCount /\ one[k] = 1
    BY <1>2, <1>3
  <2> QED BY <2>1, <2>2, EventsOfIsSum, SumOfOnes
<1>9. IsFiniteSet(groups)
  <2>1. class \in Surjection(shown, groups)
    BY <1>5 DEF Surjection, class
  <2> QED BY <1>1, <2>1, FS_Surjection DEF ExistsSurjection
<1>10. snap.visible = SourcesOf(sum.byGroup, groups)
  <2> DEFINE s == [g \in groups |-> sum.byGroup[g].sourceCount]
  <2>1. \A g \in groups : /\ s[g] = sum.byGroup[g].sourceCount
                          /\ s[g] = SumOf(one, {k \in shown : class[k] = g})
    BY <1>5, <1>8
  <2>2. \A g \in groups : s[g] \in Nat
    <3> SUFFICES ASSUME NEW g \in groups PROVE s[g] \in Nat
      OBVIOUS
    <3> DEFINE S == {k \in shown : class[k] = g}
    <3>1. IsFiniteSet(S) /\ s[g] = Cardinality(S)
      BY <1>1, <1>5, FS_Subset
    <3> HIDE DEF S
    <3> QED BY <3>1, FS_CardinalityType
  <2> HIDE DEF s
  <2>3. SourcesOf(sum.byGroup, groups) = SumOf(s, groups)
    <3>1. \A g \in groups : s[g] \in Nat /\ s[g] = sum.byGroup[g].sourceCount
      BY ONLY <2>1, <2>2
    <3> DEFINE table == sum.byGroup
    <3>2. \A g \in groups : s[g] \in Nat /\ s[g] = table[g].sourceCount
      BY ONLY <3>1
    <3> HIDE DEF table
    <3>3. SourcesOf(table, groups) = SumOf(s, groups)
      BY ONLY <1>9, <3>2, SourcesOfIsSum
    <3> QED BY <3>3 DEF table
  <2>4. \A k \in shown : one[k] \in Nat
    BY <1>2
  <2>5. SumOf(s, groups) = SumOf(one, shown)
    <3>1. IsByClass(one, shown, class, groups, s)
      BY <1>5, <2>1 DEF IsByClass
    <3> QED BY <1>1, <2>4, <3>1, SumByClass
  <2>6. SumOf(one, shown) = Cardinality(shown)
    BY <1>8
  <2> QED BY <1>4, <2>3, <2>5, <2>6
<1>11. events = EventsOf(sum.byGroup, groups)
  <2> DEFINE s == [g \in groups |-> sum.byGroup[g].eventCount]
  <2>1. \A g \in groups : /\ s[g] = sum.byGroup[g].eventCount
                          /\ s[g] = SumOf(n, {k \in shown : class[k] = g})
    BY <1>5, <1>8
  <2>2. \A g \in groups : s[g] \in Nat
    <3> SUFFICES ASSUME NEW g \in groups PROVE s[g] \in Nat
      OBVIOUS
    <3> DEFINE S == {k \in shown : class[k] = g}
    <3>1. IsFiniteSet(S) /\ s[g] = SumOf(n, S) /\ \A k \in S : n[k] \in Nat
      BY <1>1, <1>3, <2>1, FS_Subset
    <3> HIDE DEF S
    <3> QED BY <3>1, SumTakes
  <2> HIDE DEF s
  <2>3. EventsOf(sum.byGroup, groups) = SumOf(s, groups)
    <3>1. \A g \in groups : s[g] \in Nat /\ s[g] = sum.byGroup[g].eventCount
      BY ONLY <2>1, <2>2
    <3> DEFINE table == sum.byGroup
    <3>2. \A g \in groups : s[g] \in Nat /\ s[g] = table[g].eventCount
      BY ONLY <3>1
    <3> HIDE DEF table
    <3>3. EventsOf(table, groups) = SumOf(s, groups)
      BY ONLY <1>9, <3>2, EventsOfIsSum
    <3> QED BY <3>3 DEF table
  <2>4. SumOf(s, groups) = SumOf(n, shown)
    <3>1. IsByClass(n, shown, class, groups, s)
      BY <1>5, <2>1 DEF IsByClass
    <3> QED BY <1>1, <1>3, <3>1, SumByClass
  <2> QED BY <1>7, <2>3, <2>4
<1>12. events = TotalOf(sum.bySourceType)
  <2> DEFINE s == sum.bySourceType
  <2>1. TotalOf(s) = SumOf(s, types)
    BY DEF TotalOf, SumOf, types
  <2>2. \A t \in types : s[t] = SumOf(n, {k \in shown : type[k] = t})
    BY <1>6, <1>8
  <2> HIDE DEF s
  <2>3. SumOf(s, types) = SumOf(n, shown)
    <3>1. IsByClass(n, shown, type, types, s)
      BY <1>6, <2>2 DEF IsByClass
    <3> QED BY <1>1, <1>3, <3>1, SumByClass
  <2> QED BY <1>7, <2>1, <2>3 DEF s
<1>13. events = TotalOf(sum.bySeverity) /\ events = TotalOf(sum.byCategory)
  <2>1. \A k \in shown : /\ SeverityCounts(records)[k] = records[k].severityCounts
                         /\ CategoryCounts(records)[k] = records[k].categoryCounts
    BY <1>1 DEF SeverityCounts, CategoryCounts
  <2>2. \A k \in shown : /\ IsCount(SeverityCounts(records)[k], n[k])
                         /\ IsCount(CategoryCounts(records)[k], n[k])
    BY <1>3, <2>1
  <2> QED BY <1>1, <1>4, <1>7, <2>2, MergedCountsAddUp
<1> QED BY <1>4, <1>10, <1>11, <1>12, <1>13
        DEF Agree, snap, sum, groups, events, EventsOf, SourcesOf

(* The internal panel hides a number of sources, and the record filed under the
   type and address of a source that has one is its own. *)
LEMMA PanelsShowRecords ==
    ASSUME PanelInv
    PROVE  /\ InternalSources(records).hidden >= 0
           /\ \A k \in DOMAIN Answered :
                 k[2] \notin Events => Detail(records, k[1], k[2]) = {Answered[k]}
<1>1. InternalSources(records).hidden >= 0
  <2> DEFINE all == Visible(records, {"internal", "disabled"})
             kept == {k \in all : \/ IsInternalDMZSourceType(k[1])
                                  \/ GroupForSourceType(k[1]) = "DMZ Services"
                                  \/ IsSupportOnlySourceName(records[k].name)}
  <2>1. IsFiniteSet(all)
    <3>1. all \subseteq DOMAIN records
      BY DEF Visible
    <3> QED BY <3>1, FS_Subset DEF PanelInv
  <2>2. InternalSources(records).hidden = Cardinality(all) - Cardinality(kept)
    BY DEF InternalSources
  <2>3. kept \subseteq all
    <3> HIDE DEF all
    <3> QED BY ONLY Zenon
  <2> HIDE DEF all, kept
  <2>4. /\ Cardinality(kept) <= Cardinality(all)
        /\ Cardinality(kept) \in Nat /\ Cardinality(all) \in Nat
    BY <2>1, <2>3, FS_Subset, FS_CardinalityType
  <2> QED BY <2>2, <2>4
<1>2. ASSUME NEW k \in DOMAIN Answered, k[2] \notin Events
      PROVE  Detail(records, k[1], k[2]) = {Answered[k]}
  <2>1. k \in DOMAIN records /\ Answered[k] = records[k]
    BY EverythingIsAnswered
  <2>2. k = <<k[1], k[2]>> /\ NormalizeSourceType(k[1]) = k[1] /\ k[2] # NoAddress
    BY <1>2, <2>1 DEF PanelInv, KeyOK
  <2>3. SourceKey(k[1], k[2], "unknown") = <<NormalizeSourceType(k[1]), k[2]>>
    BY ONLY <2>2, Zenon DEF SourceKey, NoAddress
  <2>4. SourceKey(k[1], k[2], "unknown") = k
    BY ONLY <2>2, <2>3
  <2> QED BY <2>1, <2>4 DEF Detail
<1> QED BY <1>1, <1>2

(* Whatever events, refreshes and restarts come before and between, the panels agree. *)
THEOREM PanelsAlwaysAgree == Spec => PanelsAgree
<1> DEFINE Right == \A r \in Requests : Answer(r) =>
               /\ \A opts \in SUBSET Everything : Agree(opts)
               /\ InternalSources(records).hidden >= 0
               /\ \A k \in DOMAIN Answered :
                     k[2] \notin Events => Detail(records, k[1], k[2]) = {Answered[k]}
<1>1. PanelInv => Right
  BY ListAndSummaryAgree, PanelsShowRecords
<1>2. PanelInv /\ [Next]_vars => [Right]_vars
  BY <1>1
<1> QED BY <1>2, PanelsStay, PTL DEF Spec, PanelsAgree
=============================================================================
