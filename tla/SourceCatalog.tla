---------------------------- MODULE SourceCatalog ----------------------------
(***************************************************************************)
(* The inventory of sources (internal/sourcecatalog/catalog.go): one       *)
(* record per type and address, filled from three sides: the defaults      *)
(* built in, the configuration of the OT collector, and every event seen.  *)
(* Each operation holds the catalog's mutex, so each is one operator here, *)
(* from the records before to the records after.                           *)
(*                                                                         *)
(* `recs` is a function from the keys present.  Kept of a record is what   *)
(* decides whether it is shown and what the panels add up; times, index    *)
(* hints and the redacted copies of events for display are left out.  The  *)
(* OT collector is taken to configure a type and address once.             *)
(***************************************************************************)
EXTENDS EventNormalization, Counters, FiniteSets

SourceKey(type, ip, id) ==
    <<NormalizeSourceType(type), IF ip # "" THEN ip ELSE id>>

KeyOf(e) == SourceKey(e.type, e.ip, e.id)

EmptyRecord ==
    [name |-> "", enabled |-> FALSE, configured |-> FALSE, discovered |-> FALSE,
     eventCount |-> 0, severityCounts |-> <<>>, categoryCounts |-> <<>>]

EnsureState(recs, key) == IF key \in DOMAIN recs THEN recs[key] ELSE EmptyRecord
-----------------------------------------------------------------------------
(* Faulty variant: a row of the configuration starts the record afresh. *)
ConfiguredAnew(rec, row) ==
    [EmptyRecord EXCEPT !.name = FirstNonEmpty(row.name, row.id),
                        !.enabled = row.enabled, !.configured = TRUE]

(* Faulty variant: a source once enabled stays so. *)
ConfiguredSticky(rec, row) ==
    [rec EXCEPT !.name = FirstNonEmpty(row.name, FirstNonEmpty(@, row.id)),
                !.enabled = @ \/ row.enabled,
                !.configured = TRUE]

ConfiguredBy(rec, row) ==
    [rec EXCEPT !.name = FirstNonEmpty(row.name, FirstNonEmpty(@, row.id)),
                !.enabled = row.enabled,
                !.configured = TRUE]

(* `rows` is a function from the keys configured *)
MergeConfiguredSources(recs, rows) ==
    [key \in DOMAIN recs \cup DOMAIN rows |->
        IF key \in DOMAIN rows THEN ConfiguredBy(EnsureState(recs, key), rows[key])
                               ELSE recs[key]]

(* ids and names are those of the types, but for the one name the code looks at *)
Row(id, name, enabled) == [id |-> id, name |-> name, enabled |-> enabled]

DefaultSources ==
    [key \in {<<"dmz_collector", "http://192.168.10.70:9000">>, <<"vault", "http://192.168.10.10:8200">>,
              <<"vault_agent", "192.168.10.11">>, <<"influxdb", "http://192.168.10.15:8086">>,
              <<"opcua_dmz_gateway", "192.168.10.20">>, <<"gds", "192.168.10.30">>,
              <<"postgres_gds", "192.168.10.31">>, <<"jumphost", "192.168.10.5">>,
              <<"ids", "/ids/alerts">>} |->
        Row(key[1], IF key[1] = "ids" THEN "IDS Future" ELSE key[1],
            key[1] \in {"dmz_collector", "influxdb", "opcua_dmz_gateway", "ids"})]

SeedConfiguredSources(recs) == MergeConfiguredSources(recs, DefaultSources)
-----------------------------------------------------------------------------
(* Faulty variant: the category is not counted. *)
ObservedUncategorized(rec, e) ==
    [rec EXCEPT !.name = IF @ = "" \/ ~rec.configured THEN e.name ELSE @,
                !.eventCount = @ + 1,
                !.severityCounts = Incremented(@, e.severity),
                !.discovered = TRUE,
                !.enabled = IF rec.configured THEN @ ELSE TRUE]

(* what an event that is new to the catalog does to the record of its source;
   e.name is its asset, or its `source`, which is never empty, when it names none *)
ObservedIn(rec, e) ==
    [rec EXCEPT !.name = IF @ = "" \/ ~rec.configured THEN e.name ELSE @,
                !.eventCount = @ + 1,
                !.severityCounts = Incremented(@, e.severity),
                !.categoryCounts = Incremented(@, e.category),
                !.discovered = TRUE,
                !.enabled = IF rec.configured THEN @ ELSE TRUE]

(* Faulty variant: the ids seen do not matter. *)
ObserveEventAgain(recs, seen, e) ==
    LET key == KeyOf(e) IN
    [k \in DOMAIN recs \cup {key} |->
        IF k = key THEN ObservedIn(EnsureState(recs, k), e) ELSE recs[k]]

ObserveEvent(recs, seen, e) ==
    LET key == KeyOf(e) IN
    IF e.id \in seen THEN recs
    ELSE [k \in DOMAIN recs \cup {key} |->
             IF k = key THEN ObservedIn(EnsureState(recs, k), e) ELSE recs[k]]
-----------------------------------------------------------------------------
IsInternal(key, rec) ==
    \/ IsInternalDMZSourceType(key[1])
    \/ GroupForSourceType(key[1]) = "DMZ Services"
    \/ IsPlaceholderSourceName(rec.name)

(* opts is the subset of {"internal", "disabled", "direct"} asked for *)
ShouldInclude(key, rec, opts) ==
    \/ "disabled" \in opts
    \/ IsDirectSIEMSourceType(key[1]) /\ "direct" \in opts
    \/ /\ ~IsDirectSIEMSourceType(key[1])
       /\ IsInternal(key, rec)
       /\ "internal" \in opts
    \/ /\ ~IsDirectSIEMSourceType(key[1])
       /\ ~IsInternal(key, rec)
       /\ rec.enabled

Visible(recs, opts) == {k \in DOMAIN recs : ShouldInclude(k, recs[k], opts)}

Snapshot(recs, opts) ==
    LET shown  == Visible(recs, opts)
        hidden == DOMAIN recs \ shown
    IN [sources |-> [k \in shown |-> recs[k]],
        visible |-> Cardinality(shown),
        hidden |-> Cardinality(hidden),
        configuredTotal |-> Quantify(DOMAIN recs, LAMBDA k : recs[k].configured),
        discoveredVisible |-> Quantify(shown, LAMBDA k : recs[k].discovered),
        internalHidden |-> Quantify(hidden, LAMBDA k : IsInternal(k, recs[k])),
        disabledHidden |-> Quantify(hidden, LAMBDA k : ~recs[k].enabled),
        directSIEMHidden |-> Quantify(hidden, LAMBDA k : IsDirectSIEMSourceType(k[1]))]

(* mergeCounts over the records of a set of keys *)
MergedCounts(counts, keys) ==
    [n \in UNION {DOMAIN counts[k] : k \in keys} |->
        MapThenSumSet(LAMBDA k : CountOf(counts[k], n), keys)]

SeverityCounts(recs) == [k \in DOMAIN recs |-> recs[k].severityCounts]
CategoryCounts(recs) == [k \in DOMAIN recs |-> recs[k].categoryCounts]

EventsOf(recs, keys) == MapThenSumSet(LAMBDA k : recs[k].eventCount, keys)

Summary(recs, opts) ==
    LET shown   == Visible(recs, opts)
        group   == [k \in shown |-> GroupForSourceType(k[1])]
        members == [g \in {group[k] : k \in shown} |-> {k \in shown : group[k] = g}]
    IN [visible |-> Cardinality(shown),
        hidden |-> Cardinality(DOMAIN recs \ shown),
        byGroup |-> [g \in DOMAIN members |->
                        [sourceCount |-> Cardinality(members[g]),
                         configuredCount |-> Quantify(members[g], LAMBDA k : recs[k].configured),
                         discoveredCount |-> Quantify(members[g], LAMBDA k : recs[k].discovered),
                         eventCount |-> EventsOf(recs, members[g]),
                         severityCounts |-> MergedCounts(SeverityCounts(recs), members[g]),
                         categoryCounts |-> MergedCounts(CategoryCounts(recs), members[g])]],
        bySourceType |-> [t \in {k[1] : k \in shown} |-> EventsOf(recs, {k \in shown : k[1] = t})],
        bySeverity |-> MergedCounts(SeverityCounts(recs), shown),
        byCategory |-> MergedCounts(CategoryCounts(recs), shown)]

(* GET /sources/detail: the record filed under a type and an address, if any *)
Detail(recs, type, ip) ==
    LET key == SourceKey(type, ip, "unknown") IN IF key \in DOMAIN recs THEN {recs[key]} ELSE {}

(* InternalSources: what a snapshot with internal and disabled sources hides
   again, unless it is internal or there for support only *)
InternalSources(recs) ==
    LET all  == Visible(recs, {"internal", "disabled"})
        kept == {k \in all : \/ IsInternalDMZSourceType(k[1])
                             \/ GroupForSourceType(k[1]) = "DMZ Services"
                             \/ IsSupportOnlySourceName(recs[k].name)}
    IN [sources |-> [k \in kept |-> recs[k]],
        hidden |-> Cardinality(all) - Cardinality(kept)]
=============================================================================
