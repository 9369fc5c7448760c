---------------------------- MODULE SourceEvents ----------------------------
(***************************************************************************)
(* What the normalizers of internal/ingest share: the row they are given,  *)
(* the class they put it in and the event they build from it.              *)
(*                                                                         *)
(* A row is what a sender reports about one occurrence.  Its text as a     *)
(* whole is `details`, which only tells it from another text, as do        *)
(* `original` for the object in its field raw and `safe` for the fields    *)
(* that the whitelist of its endpoint lets through; secrets are masked in  *)
(* all of them.  Of its words only the needles the code looks for are      *)
(* kept, in `words`, their blanks written as underscores.  Where else in a *)
(* JSON object a field may stand (at the top, in tags) is left out, except *)
(* for the text of a jump host: `words` and `line` are found in different  *)
(* fields.                                                                 *)
(***************************************************************************)
EXTENDS EventNormalization, Sequences, SequencesExt

NoLog == <<"", "">>  \* log_message "family: action", or without a family "action"

NoHTTP == [method |-> "", endpoint |-> "", asks |-> FALSE, status |-> 0]

BlankRow ==
    [json |-> TRUE,          \* a JSON object, or else a line of text
     time |-> NoTime, details |-> "", original |-> "", safe |-> "", words |-> {},
     message |-> "", event |-> "", action |-> "", log |-> NoLog,
     severity |-> "", category |-> "", alert |-> FALSE,
     own |-> FALSE, facade |-> FALSE, postgres |-> "",       \* GDS
     http |-> NoHTTP, status |-> 0, errorCode |-> FALSE,
     prefixed |-> FALSE,                                     \* OPC UA: event begins opcua_dmz_
     line |-> {},                                            \* jump host
     host |-> {},                                            \* syslog
     audit |-> "", path |-> {}, operation |-> "", error |-> {}, root |-> FALSE, \* Vault
     level |-> 0]                                            \* IDS

Class(message, category, severity, risk, alert) ==
    [message |-> message, category |-> category, severity |-> severity,
     risk |-> risk, alert |-> alert]

NoClass == Class("", "", "", "", FALSE)

Info(message, category) == Class(message, category, "info", "LOW", FALSE)
Warning(message, category) == Class(message, category, "warning", "MEDIUM", TRUE)
Grave(message, category, severity, risk) == Class(message, category, severity, risk, TRUE)

(* the first class, unless it is none *)
Either(class, other) == IF class.message # "" THEN class ELSE other

(* A switch whose cases overlap: the second component of the first pair whose
   condition holds. *)
FirstMatch(cases, default) ==
    LET i == SelectInSeq(cases, LAMBDA c : c[1]) IN IF i = 0 THEN default ELSE cases[i][2]

Asset == [gds |-> "192.168.10.30", jumphost |-> "192.168.10.5",
          opcua_dmz_gateway |-> "192.168.10.20", vault |-> "192.168.10.10"]

(* The event of a class: id and timestamp are the row's, if it has them. *)
EventOf(type, class, row, raw, now) ==
    EnsureDefaults(
        [BlankEvent EXCEPT !.timestamp = IF row.time = NoTime THEN now ELSE row.time,
                           !.received = now,
                           !.type = type, !.ip = Asset[type], !.name = type,
                           !.severity = class.severity, !.category = class.category,
                           !.message = class.message, !.raw = raw, !.words = row.words,
                           !.risk = class.risk, !.alert = class.alert,
                           !.sourcetype = SplunkSourcetypeFor(type),
                           !.hint = "ot_security"], now)
=============================================================================
