-------------------------------- MODULE Intake --------------------------------
(***************************************************************************)
(* What senders POST and what becomes of it: the handlers of /events,      *)
(* /gds/events, /opcua-dmz/events, /jumphost/events, /vault/audit and      *)
(* /ids/alerts (internal/api/handlers.go) and the syslog listener decode a *)
(* body with the normalizer of its endpoint, all rows at once, and hand    *)
(* the events one by one to ingestOne, which stores and counts them.       *)
(* A sender whose answer gets lost sends the same bytes again.  Meanwhile  *)
(* somebody polls GET /stats/summary, which reads the counters under       *)
(* several locks, one after the other.                                     *)
(*                                                                         *)
(* Appends do not fail here: DeliveryPipeline has their failures, crashes  *)
(* and the races of two handlers for an id.                                *)
(***************************************************************************)
EXTENDS GDSEvents, JumphostEvents, OPCUADMZEvents, VaultAudit, Statistics, Functions

CONSTANTS
    Senders,
    Deliveries,    \* the bodies: their endpoint, form and rows
    Instants,      \* the instants at which things happen, in hundredths of a second
    MaxPosts,      \* bound: bodies sent, those sent again included
    MaxResends     \* bound: bodies sent again

ASSUME InstantsAssumption == Instants \in Seq(Nat \ {0}) /\ Instants # <<>>
ASSUME BoundsAssumption == {MaxPosts, MaxResends} \subseteq Nat

VARIABLES
    instant,   \* the index of the time in Instants
    seenIDs,   \* App.seenIDs
    stored,    \* the events file: each event with the row it came from
    stats,     \* the counters
    pc, post,  \* of each sender: its step, its body
    todo,      \* decoded events not yet ingested, each with its row
    tally,     \* accepted and rejected so far
    spent,     \* bodies sent and sent again
    reading,   \* of the monitor: what it has read of the counters so far
    shown      \* what it was answered last

senderVars == <<pc, post, todo, tally, spent>>
monitorVars == <<reading, shown>>
vars == <<instant, seenIDs, stored, stats, senderVars, monitorVars>>

Now == Instants[instant]
-----------------------------------------------------------------------------
(* row.level is the severity Suricata gives *)
NormalizeIDSAlert(row, now) ==
    EnsureDefaults(
        [BlankEvent EXCEPT !.timestamp = IF row.time = NoTime THEN now ELSE row.time,
                           !.received = now, !.type = "ids", !.name = "suricata",
                           !.severity = CASE row.level <= 1 -> "critical"
                                          [] row.level = 2 -> "error"
                                          [] OTHER -> "warning",
                           !.category = "security", !.message = row.message,
                           !.raw = <<row.details>>], now)

Normalize(endpoint, row, now) ==
    CASE endpoint = "events"   -> ParseOne(row, now)
      [] endpoint = "gds"      -> NormalizeGDSEvent(row, now)
      [] endpoint = "opcua"    -> NormalizeOPCUADMZEvent(row, now)
      [] endpoint = "jumphost" -> NormalizeJumphostEvent(row, now)
      [] endpoint = "vault"    -> NormalizeVaultAudit(row, now)
      [] endpoint = "ids"      -> NormalizeIDSAlert(row, now)
      [] endpoint = "syslog"   -> NormalizeSyslogLine(row, now)

(* these take a line that is no JSON for a line of text *)
TextEndpoints == {"gds", "opcua", "jumphost", "syslog"}

IsJSON(d) == d.endpoint = "events" \/ \A i \in DOMAIN d.rows : d.rows[i].json

Suppressed(row) == ClassifyVaultAudit(row) = NoClass

Kept(d) ==
    IF d.endpoint = "vault" THEN SelectSeq(d.rows, LAMBDA row : ~Suppressed(row)) ELSE d.rows

ASSUME DeliveriesAssumption ==
    \A d \in Deliveries :
        /\ d.endpoint \in {"events", "gds", "opcua", "jumphost", "vault", "ids", "syslog"}
        /\ \A i \in DOMAIN d.rows :
              IF d.endpoint = "events"
              THEN /\ IsEvent(d.rows[i])
                   /\ d.rows[i].received \in Nat \cup {InvalidTime}
                   /\ IF d.rows[i].received \in {NoTime, InvalidTime}
                      THEN d.rows[i].offset = 0
                      ELSE d.rows[i].offset \in Int /\ d.rows[i].received + d.rows[i].offset \in Nat
              ELSE DOMAIN d.rows[i] = DOMAIN BlankRow
        /\ d.endpoint = "syslog" =>
              \A i \in DOMAIN d.rows : ~d.rows[i].json /\ d.rows[i].time = NoTime
        /\ d.rows \in Seq(Range(d.rows)) /\ Kept(d) \in Seq(Range(d.rows))

(* A body is decoded as a whole or refused as a whole.  Its form is "array", "object",
   "lines", or "large" when its Content-Length is over 4 MiB, which only /events asks. *)
Refused(d) ==
    CASE d.form = "array"  -> \/ ~IsJSON(d)
                              \/ d.endpoint = "gds" /\ d.rows = <<>>
                              \/ d.endpoint = "ids"
      [] d.form = "object" -> ~IsJSON(d) \/ Kept(d) = <<>>
      [] d.form = "lines"  -> \/ d.endpoint \notin TextEndpoints \cup {"vault"}
                              \/ d.endpoint = "vault" /\ ~IsJSON(d)
                              \/ Kept(d) = <<>>
      [] d.form = "large"  -> TRUE

Decode(d, now) ==
    [i \in DOMAIN Kept(d) |-> [row |-> Kept(d)[i], event |-> Normalize(d.endpoint, Kept(d)[i], now)]]
-----------------------------------------------------------------------------
NoPost == [endpoint |-> "none"]
NoTally == [accepted |-> 0, rejected |-> 0, known |-> 0]
NothingRead == [security |-> -1, total |-> -1, critical |-> -1]

Init ==
    /\ instant = 1
    /\ seenIDs = {} /\ stored = <<>> /\ stats = NewStats
    /\ pc = [s \in Senders |-> "idle"]
    /\ post = [s \in Senders |-> NoPost]
    /\ todo = [s \in Senders |-> <<>>]
    /\ tally = [s \in Senders |-> NoTally]
    /\ spent = [posts |-> 0, resends |-> 0]
    /\ reading = NothingRead /\ shown = NothingRead

Goto(s, step) == pc' = [pc EXCEPT ![s] = step]

(* a handler reads the body and decodes it *)
Deliver(s, d) ==
    /\ spent.posts < MaxPosts
    /\ post' = [post EXCEPT ![s] = d]
    /\ tally' = [tally EXCEPT ![s] = NoTally]
    /\ IF Refused(d)
       THEN /\ todo' = [todo EXCEPT ![s] = <<>>]
            /\ Goto(s, "refused")
       ELSE /\ todo' = [todo EXCEPT ![s] = Decode(d, Now)]
            /\ Goto(s, "ingest")
    /\ UNCHANGED <<instant, seenIDs, stored, stats, monitorVars>>

Send(s) ==
    /\ pc[s] = "idle"
    /\ spent' = [spent EXCEPT !.posts = @ + 1]
    /\ \E d \in Deliveries : Deliver(s, d)

(* the answer does not arrive *)
SendAgain(s) ==
    /\ pc[s] \in {"refused", "answered"}
    /\ spent.resends < MaxResends
    /\ spent' = [spent EXCEPT !.posts = @ + 1, !.resends = @ + 1]
    /\ Deliver(s, post[s])

AnswerArrives(s) ==
    /\ pc[s] \in {"refused", "answered"}
    /\ Goto(s, "idle")
    /\ post' = [post EXCEPT ![s] = NoPost]
    /\ tally' = [tally EXCEPT ![s] = NoTally]
    /\ UNCHANGED <<instant, seenIDs, stored, stats, todo, spent, monitorVars>>

(* ingestOne up to the appends: invalid, known already, or stored *)
Ingesting(s, afterInvalid) ==
    LET row == Head(todo[s]).row
        e   == Accepted(Head(todo[s]).event, Now)
    IN
    /\ pc[s] = "ingest" /\ todo[s] # <<>>
    /\ \/ /\ ~IsValid(e)
          /\ tally' = [tally EXCEPT ![s].rejected = @ + 1]
          /\ todo' = [todo EXCEPT ![s] = afterInvalid]
          /\ UNCHANGED <<seenIDs, stored, pc>>
       \/ /\ IsValid(e) /\ e.id \in seenIDs
          /\ tally' = [tally EXCEPT ![s].known = @ + 1]
          /\ todo' = [todo EXCEPT ![s] = Tail(@)]
          /\ UNCHANGED <<seenIDs, stored, pc>>
       \/ /\ IsValid(e) /\ e.id \notin seenIDs
          /\ seenIDs' = seenIDs \cup {e.id}
          /\ stored' = Append(stored, [endpoint |-> post[s].endpoint, row |-> row, event |-> e])
          /\ todo' = [todo EXCEPT ![s][1].event = e]
          /\ Goto(s, "count")
          /\ UNCHANGED tally
    /\ UNCHANGED <<instant, stats, post, spent, monitorVars>>

(* Faulty variant: an event that is rejected ends the batch. *)
IngestUntilInvalid(s) == Ingesting(s, <<>>)

Ingest(s) == Ingesting(s, Tail(todo[s]))

Count(s) ==
    /\ pc[s] = "count"
    /\ stats' = StatsAdd(stats, Head(todo[s]).event, Now \div 100)
    /\ tally' = [tally EXCEPT ![s].accepted = @ + 1]
    /\ todo' = [todo EXCEPT ![s] = Tail(@)]
    /\ Goto(s, "ingest")
    /\ UNCHANGED <<instant, seenIDs, stored, post, spent, monitorVars>>

(* Faulty variant: the answer does not wait for the last row. *)
AnswerEarly(s) ==
    /\ pc[s] = "ingest"
    /\ Goto(s, "answered")
    /\ UNCHANGED <<instant, seenIDs, stored, stats, post, todo, tally, spent, monitorVars>>

AnswerPost(s) ==
    /\ pc[s] = "ingest" /\ todo[s] = <<>>
    /\ Goto(s, "answered")
    /\ UNCHANGED <<instant, seenIDs, stored, stats, post, todo, tally, spent, monitorVars>>
-----------------------------------------------------------------------------
(* StatsSummary: the three of Summary at once, then the others one by one *)
ReadSummary ==
    /\ reading.security = -1
    /\ reading' = [reading EXCEPT !.security = stats.securityCount]
    /\ UNCHANGED <<instant, seenIDs, stored, stats, senderVars, shown>>

(* Faulty variant: the total is read before the summary is. *)
ReadTotalFirst ==
    /\ reading.total = -1
    /\ reading' = [reading EXCEPT !.total = stats.totalReceived]
    /\ UNCHANGED <<instant, seenIDs, stored, stats, senderVars, shown>>

ReadTotal ==
    /\ reading.security # -1 /\ reading.total = -1
    /\ reading' = [reading EXCEPT !.total = stats.totalReceived]
    /\ UNCHANGED <<instant, seenIDs, stored, stats, senderVars, shown>>

ReadCritical ==
    /\ reading.security # -1 /\ reading.total # -1
    /\ shown' = [reading EXCEPT !.critical = SeverityCount(stats, "critical")]
    /\ reading' = NothingRead
    /\ UNCHANGED <<instant, seenIDs, stored, stats, senderVars>>

Tick ==
    /\ instant < Len(Instants)
    /\ instant' = instant + 1
    /\ UNCHANGED <<seenIDs, stored, stats, senderVars, monitorVars>>

Next ==
    \/ \E s \in Senders :
          Send(s) \/ SendAgain(s) \/ AnswerArrives(s) \/ Ingest(s) \/ Count(s) \/ AnswerPost(s)
    \/ ReadSummary \/ ReadTotal \/ ReadCritical \/ Tick

Spec == Init /\ [][Next]_vars
-----------------------------------------------------------------------------
StoredEvents == {stored[i].event : i \in DOMAIN stored}

(* The type invariant; the ids seen are those of the events stored. *)
TypeOK ==
    /\ instant \in DOMAIN Instants
    /\ seenIDs = {e.id : e \in StoredEvents}
    /\ pc \in [Senders -> {"idle", "refused", "ingest", "count", "answered"}]
    /\ post \in [Senders -> Deliveries \cup {NoPost}]
    /\ \A s \in Senders : Len(todo[s]) <= IF post[s] = NoPost THEN 0 ELSE Len(Kept(post[s]))
    /\ tally \in [Senders -> [accepted : Nat, rejected : Nat, known : Nat]]
    /\ spent.posts \in 0..MaxPosts /\ spent.resends \in 0..MaxResends
    /\ reading.critical = -1

(* the sender gave the row an id or a time of its own *)
Dated(row) ==
    IF "time" \in DOMAIN row THEN row.time # NoTime ELSE row.timestamp # NoTime \/ row.id # NoId

(* The form in which the control plane of the GDS reports. *)
FromControlPlane(d, row) ==
    /\ d.endpoint = "gds" /\ row.json /\ ~IsFacadeEvent(row)
    /\ ContractClass(ContractMessage(row)) = NoClass
    /\ IsControlPlane(row)

(* what an event says, but for its category *)
Says(e) == <<e.timestamp, e.type, e.ip, e.message, e.raw>>

(* A body that was answered with 202 is dealt with to its last row: each row is
   counted once as accepted, rejected or known, and a rejected row does not keep the
   next ones out (main.go:138-157).  Each dated row that is valid is in the file under
   its id, from this request or an earlier one; unless the id was given by a sender of
   /events, the event there says what the row says, as far as the normalizer keeps it.
   Two rows that differ only in what it does not keep are therefore stored once
   (gds_events.go:235-240, 364-373, 436-439; opcua_dmz_events.go:157-161). *)
RowsAreAnswered ==
    \A s \in Senders : pc[s] = "answered" =>
        LET d == post[s] rows == Kept(post[s]) IN
        /\ tally[s].accepted + tally[s].rejected + tally[s].known = Len(rows)
        /\ \A i \in DOMAIN rows :
              LET e == Normalize(d.endpoint, rows[i], 1) IN
              Dated(rows[i]) /\ IsValid(e) =>
                  \E j \in DOMAIN stored :
                      /\ stored[j].event.id = e.id
                      /\ "events" \in {d.endpoint, stored[j].endpoint}
                            \/ Says(stored[j].event) = Says(e)

(* However often a body is sent again, before or after its answer, and whatever
   the time is then, a row with an id or a time of its own is stored once: the
   normalizers compute the same id again (model.go:139-143). *)
RetryStoresOnce ==
    \A i, j \in DOMAIN stored :
        /\ stored[i].endpoint = stored[j].endpoint /\ stored[i].row = stored[j].row
        /\ Dated(stored[i].row)
        => i = j

(* What is read back from the file, when the collector starts or when another
   collector pulls it, is normalized and enriched again: that changes nothing,
   so the id is known and the counters agree (validator.go, enricher.go).  Only a
   severity or category of nothing but blanks, which is trimmed after the defaults
   and stored empty (validator.go:24-25), is filled in when it is read back. *)
StoredIsStable ==
    \A e \in StoredEvents :
        Accepted(ParseOne(e, 1), 1) =
            [e EXCEPT !.severity = FirstNonEmpty(@, "info"),
                      !.category = FirstNonEmpty(@, "unknown")]

(* Whichever of its forms an occurrence is reported in, what the tables call
   critical has a high risk and is an alert, and every alert is of high value,
   which is what the forward worker sends first; only the GDS control plane's
   form loses the alert (gds_events.go:642-655), and what is posted as an event
   goes through no table. *)
AlarmIsRaised ==
    \A i \in DOMAIN stored :
        LET e == stored[i].event IN
        /\ e.alert => e.high
        /\ e.severity = "critical" /\ e.risk # NoName /\ stored[i].endpoint # "events" =>
              /\ e.risk \in {"HIGH", "CRITICAL"}
              /\ e.high
              /\ e.alert \/ FromControlPlane(stored[i], stored[i].row)

(* The line of sshd is looked for in other fields than the text. *)
IsSSHLine(row) ==
    /\ row.words \cap SSHNeedles # {} /\ row.event = NoName /\ row.action = NoName
    /\ \/ row.message = NoName /\ SSHLine(row) \in {{}, row.words}
       \/ row.message = UnknownMessage /\ SSHLine(row) = row.words

(* A line of sshd means the same whether it comes by syslog, as a line of text or
   in the JSON of the jump host, without a name or, where both lookups find it, under
   that of unknown events (jumphost_events.go:104-126, 149-199, 313-322); what is
   posted as an event has the message its sender gave it. *)
SameLineSameMessage ==
    \A i, j \in {k \in DOMAIN stored : stored[k].endpoint # "events"} :
        /\ stored[i].event.type = "jumphost" /\ stored[j].event.type = "jumphost"
        /\ stored[i].row.words = stored[j].row.words
        /\ IsSSHLine(stored[i].row) /\ IsSSHLine(stored[j].row)
        => stored[i].event.message = stored[j].event.message

(* The counters add up, by source type, severity, category, sourcetype, minute
   and source, to the events stored and not being counted right now
   (stats.go:53-93, main.go:180-192). *)
StatsAddUp ==
    /\ stats.totalReceived = Len(stored) - Quantify(Senders, LAMBDA s : pc[s] = "count")
    /\ {stats.totalReceived} =
          {TotalOf(stats.bySource), TotalOf(stats.bySeverity), TotalOf(stats.byCategory),
           TotalOf(stats.bySourcetype), TotalOf(stats.timeline), TotalOf(stats.sources)}

Second(t) == t \div 100

Counted == {stored[i].event : i \in DOMAIN stored}
               \ {Head(todo[s]).event : s \in {t \in Senders : pc[t] = "count"}}

(* The latest time is found by comparing strings; it is that of the last event to
   the second, although not within the second, as the times are written: one that is
   written in a zone ahead of UTC stays the latest for hours (stats.go:87-91). *)
LatestIsThisSecond ==
    Counted # {} =>
        Second(stats.latest.digits) = Max({Second(Written(e).digits) : e \in Counted})

(* The monitor's numbers come from different moments, yet none goes back from one
   answer to the next, and the security events it is shown are among the total it
   is shown, which is read after them (main.go:214-240). *)
StatsAnswerIsForward ==
    [][shown' # shown =>
        /\ shown'.security <= shown'.total
        /\ \A n \in DOMAIN shown : shown[n] <= shown'[n]]_vars
=============================================================================
