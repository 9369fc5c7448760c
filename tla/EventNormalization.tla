-------------------------- MODULE EventNormalization --------------------------
(***************************************************************************)
(* What every event goes through before it is stored: defaults            *)
(* (internal/event/model.go), validation and the rules of its source type  *)
(* (internal/normalizer/validator.go), enrichment (enricher.go).           *)
(*                                                                         *)
(* An event is a record.  `words` holds the needles the code looks for     *)
(* that occur in its text; the tags the code reads or writes are fields:   *)
(* alert, sensitive, sourcetype, hint, high.  A time is a number of        *)
(* hundredths of a second; `received` is written with the zone its sender  *)
(* gave it, `offset` ahead of UTC.                                         *)
(***************************************************************************)
EXTENDS Integers, SourceTypes

NoId == <<>>
NoTime == 0         \* an empty field
InvalidTime == -1   \* a field that is no RFC 3339 time

(* A JSON object of which the sender set nothing but its text. *)
BlankEvent ==
    [id |-> NoId, timestamp |-> NoTime, received |-> NoTime, offset |-> 0, type |-> "unknown",
     ip |-> "", name |-> "", severity |-> "", category |-> "", message |-> "",
     raw |-> <<>>, words |-> {}, risk |-> "", alert |-> FALSE, sensitive |-> FALSE,
     sourcetype |-> UnknownSourcetype, hint |-> "", high |-> FALSE]

(* a record with the fields of an event *)
IsEvent(e) == /\ DOMAIN e = DOMAIN BlankEvent
              /\ e = [f \in DOMAIN BlankEvent |-> e[f]]
              /\ e.high \in BOOLEAN

(* Faulty variant: the id has the time of arrival in it. *)
ArrivalId(e) == <<e.received, e.type, e.ip, e.message, e.raw, e.category>>

(* sha1 is taken to be injective *)
ComputedId(e) == <<e.timestamp, e.type, e.ip, e.message, e.raw, e.category>>

(* Faulty variant: an id that the event has is computed anew. *)
EnsureDefaultsAnew(e, now) ==
    LET d == [e EXCEPT !.timestamp = IF @ = NoTime THEN now ELSE @,
                       !.received  = IF @ = NoTime THEN now ELSE @,
                       !.severity  = IF @ = "" THEN "info" ELSE @,
                       !.category  = IF @ = "" THEN "unknown" ELSE @]
    IN [d EXCEPT !.id = ComputedId(d)]

EnsureDefaults(e, now) ==
    LET d == [e EXCEPT !.timestamp = IF @ = NoTime THEN now ELSE @,
                       !.received  = IF @ = NoTime THEN now ELSE @,
                       !.severity  = IF @ = "" THEN "info" ELSE @,
                       !.category  = IF @ = "" THEN "unknown" ELSE @]
    IN [d EXCEPT !.id = IF @ = NoId THEN ComputedId(d) ELSE @]

(* an element of a body of POST /events, a row of the OT collector, a stored line *)
ParseOne(row, now) ==
    EnsureDefaults([row EXCEPT !.type = NormalizeSourceType(@)], now)
-----------------------------------------------------------------------------
(* parsing wants a time, in whatever zone *)
IsValid(e) == e.timestamp # InvalidTime

FirewallCategory(e) ==
    IF e.words \cap {"drop", "block", "deny", "reject", "alert"} # {}
    THEN "security" ELSE "network"

WithSourcetype(e) ==
    [e EXCEPT !.sourcetype = IF @ = UnknownSourcetype THEN SplunkSourcetypeFor(e.type) ELSE @]

ApplySourceSpecificNormalization(e) ==
    IF e.type = "firewall"
    THEN [e EXCEPT !.category = FirewallCategory(e),
                   !.sourcetype = SplunkSourcetypeFor("firewall"),
                   !.hint = "ot_security"]
    ELSE IF e.type \in KnownTypes \ {"collector", "manual_test"} THEN WithSourcetype(e) ELSE e

(* what is trimmed away is not filled in any more: the defaults came before *)
ValidateAndNormalize(e, now) ==
    LET d == EnsureDefaults([e EXCEPT !.type = NormalizeSourceType(@)], now)
    IN ApplySourceSpecificNormalization(
           [d EXCEPT !.received = IF @ = InvalidTime THEN now ELSE @,
                     !.severity = Trimmed(@), !.category = Trimmed(@)])
-----------------------------------------------------------------------------
IndexHintFor(e) ==
    IF \/ e.type \in {"ids", "firewall"}
       \/ e.category = "security"
       \/ e.severity \in {"critical", "error"} THEN "ot_security"
    ELSE IF e.category \in {"operator_action", "operator_read", "operator_write"} THEN "ot_operations"
    ELSE IF e.category \in {"runtime", "system", "network", "communication"} THEN "ot_telemetry"
    ELSE "ot_security"

IsHighValue(e) ==
    \/ e.category \in {"operator_write", "security"}
    \/ e.severity \in {"critical", "error"}
    \/ e.type \in {"ids", "firewall"}
    \/ e.alert
    \/ e.sensitive

EnrichDMZ(e) ==
    [WithSourcetype(e) EXCEPT !.hint = IndexHintFor(e),
                              !.high = @ \/ IsHighValue(e)]

(* what ingestOne stores for an event it accepts *)
Accepted(e, now) == EnrichDMZ(ValidateAndNormalize(e, now))
=============================================================================
