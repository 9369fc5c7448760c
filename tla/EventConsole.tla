----------------------------- MODULE EventConsole -----------------------------
(***************************************************************************)
(* The event table of the web console (web/app.js): it is loaded from GET  *)
(* /events, as a whole, and kept up to date by the live stream, while      *)
(* events are stored and published.  A request for the table is answered   *)
(* from the events file at some moment and its answer arrives at another,  *)
(* with any number of live events in between; a second request may be made *)
(* before the first is answered, and the answers may change places.        *)
(***************************************************************************)
EXTENDS StreamHub, EventQuery

CONSTANTS
    Consoles,       \* the viewers that are browsers; the others just read the stream
    TypeOf,         \* the source type each publisher ingests
    Types,          \* the source types a console may filter by, "" for any
    TableSize,      \* MAX_LIVE_EVENTS, and the limit of each request
    MaxLoads,       \* bound: requests each console makes
    Supply          \* bound: events each publisher stores, MaxEvents at most

ASSUME ConsolesAssumption == Consoles \subseteq Viewers
ASSUME TypeOfAssumption == TypeOf \in [Publishers -> CanonicalTypes]
ASSUME SupplyAssumption == Supply \in [Publishers -> 0 .. MaxEvents]
ASSUME TableSizeAssumption == TableSize \in Nat \ {0} /\ MaxLoads \in Nat

VARIABLES
    file,           \* the events file
    table,          \* state.events of each console, the newest first
    ready,          \* consoles whose first load has ended: init() goes on to connect
    answers,        \* the answers on their way to each console
    loads           \* how many requests each console has made

consoleVars == <<table, ready, answers, loads>>
allVars == <<vars, file, consoleVars>>

ConsoleInit ==
    /\ Init
    /\ file = <<>>
    /\ table = [c \in Consoles |-> <<>>]
    /\ ready = {}
    /\ answers = [c \in Consoles |-> {}]
    /\ loads = [c \in Consoles |-> 0]

Stored(e) == [BlankEvent EXCEPT !.id = e, !.type = TypeOf[e[1]]]
Query(type) == [NoFilter EXCEPT !.limit = TableSize, !.type = type]
IdsOf(rows) == {rows[i].id : i \in DOMAIN rows}
-----------------------------------------------------------------------------
(* ingestOne: the event is appended, then published *)
StoreEvent(p) ==
    LET e == Event(p, published[p] + 1) IN
    /\ p \notin reading /\ published[p] < Supply[p]
    /\ e \notin IdsOf(file)
    /\ file' = Append(file, Stored(e))
    /\ UNCHANGED <<vars, consoleVars>>

PublishStored(p) ==
    /\ p \notin reading => Event(p, published[p] + 1) \in IdsOf(file)
    /\ Publish(p)
    /\ UNCHANGED <<file, consoleVars>>
-----------------------------------------------------------------------------
(* loadEvents: init, Apply, Clear and Refresh.  The request and its answer are one
   action, the reading of the file.  The first one asks for any type. *)
Ask(c, type) ==
    /\ loads[c] < MaxLoads
    /\ c \notin ready => loads[c] = 0
    /\ loads' = [loads EXCEPT ![c] = @ + 1]
    /\ answers' = [answers EXCEPT ![c] = @ \cup
                      {ReadFiltered(file, Query(IF c \in ready THEN type ELSE ""))}]
    /\ UNCHANGED <<vars, file, table, ready>>

(* The answer is the table now, whatever the stream brought in the meantime; a
   request that fails leaves the table as it is. *)
LoadEnds(c, rows, ok) ==
    /\ rows \in answers[c]
    /\ table' = [table EXCEPT ![c] = IF ok THEN rows ELSE @]
    /\ answers' = [answers EXCEPT ![c] = @ \ {rows}]
    /\ ready' = ready \cup {c}
    /\ UNCHANGED <<vars, file, loads>>

(* Faulty variant: the table is not searched for the event. *)
WithAnotherRow(rows, e) ==
    LET longer == <<Stored(e)>> \o rows
    IN IF Len(longer) > TableSize THEN Front(longer) ELSE longer

WithLiveEvent(rows, e) ==
    IF e \in IdsOf(rows) THEN rows
    ELSE LET longer == <<Stored(e)>> \o rows
         IN IF Len(longer) > TableSize THEN SubSeq(longer, 1, TableSize) ELSE longer

(* state.stream.paused, which a button toggles at any time, keeps the event out *)
Show(v, paused) ==
    /\ Forward(v)
    /\ table' = IF v \in Consoles /\ ~paused
                THEN [table EXCEPT ![v] = WithLiveEvent(@, Head(channel[sub[v]]))]
                ELSE table
    /\ UNCHANGED <<file, ready, answers, loads>>

Connect(v) ==
    /\ v \in Consoles => v \in ready
    /\ Subscribe(v)
    /\ UNCHANGED <<file, consoleVars>>

Disconnect(v) == Unsubscribe(v) /\ UNCHANGED <<file, consoleVars>>

Browse(c) ==
    \/ \E type \in Types : Ask(c, type)
    \/ \E rows \in answers[c], ok \in BOOLEAN : LoadEnds(c, rows, ok)

ConsoleNext ==
    \/ \E p \in Publishers : StoreEvent(p) \/ PublishStored(p)
    \/ \E v \in Viewers : Connect(v) \/ Disconnect(v) \/ \E paused \in BOOLEAN : Show(v, paused)
    \/ \E c \in Consoles : Browse(c)

ConsoleSpec == ConsoleInit /\ [][ConsoleNext]_allVars

(* As in StreamHub: the scheduler runs the publishers. *)
ConsoleFairSpec == ConsoleSpec /\ \A p \in Publishers : WF_allVars(PublishStored(p))
-----------------------------------------------------------------------------
(* Whatever loads and live events cross each other, the table shows no event
   twice, none that is not in the file, and at most TableSize of them: the event
   is stored before it is published (main.go:182-194), and a live event is looked
   for in a table that a load may just have replaced (app.js:1348-1353). *)
TableIsFaithful ==
    \A c \in Consoles :
        /\ Cardinality(IdsOf(table[c])) = Len(table[c])
        /\ ToSet(table[c]) \subseteq ToSet(file)
        /\ Len(table[c]) <= TableSize

(* An answer holds the newest of the matching records that were in the file at one
   moment, oldest first, no more than asked for and no fewer if there are as many
   (jsonl.go:61-99). *)
AnswerIsNewest ==
    \A c \in Consoles : \A rows \in answers[c] : \E n \in 0 .. Len(file), type \in Types \cup {""} :
        LET matching == {i \in 1 .. n : type = "" \/ file[i].type = NormalizeSourceType(type)} IN
        /\ Len(rows) <= TableSize
        /\ \E at \in [DOMAIN rows -> matching] :
              /\ \A i \in DOMAIN rows : rows[i] = file[at[i]]
              /\ \A i, j \in DOMAIN rows : i < j => at[i] < at[j]
              /\ \A m \in matching \ Range(at) :
                    Len(rows) = TableSize /\ \A i \in DOMAIN rows : m < at[i]
=============================================================================
