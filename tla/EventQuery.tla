------------------------------ MODULE EventQuery ------------------------------
(***************************************************************************)
(* Reading the events file (internal/storage/jsonl.go), as GET /events     *)
(* and GET /sources/detail do.  `file` is the sequence of readable         *)
(* records.  A line over the scanner's limit makes every read of the file  *)
(* fail, whatever was asked.  Names are compared in lower case.            *)
(***************************************************************************)
EXTENDS EventNormalization, Sequences, SequencesExt

NoFilter == [limit |-> 0, type |-> "", severity |-> "", category |-> "", asset |-> "", search |-> ""]

DefaultLimit == 100

(* the search also looks at the names and values of the tags *)
Matches(e, q) ==
    /\ q.type = "" \/ NormalizeSourceType(e.type) = NormalizeSourceType(q.type)
    /\ q.severity = "" \/ e.severity = q.severity
    /\ q.category = "" \/ e.category = q.category
    /\ q.asset = "" \/ q.asset \in {e.ip, e.name}
    /\ q.search = "" \/ q.search \in e.words \cup {e.ip, e.name, e.category, e.type, e.severity}

Limit(q) == IF q.limit <= 0 THEN DefaultLimit ELSE q.limit

(* Faulty variant: the window is one short. *)
KeepFewer(out, e, limit) ==
    LET longer == Append(out, e) IN IF Len(longer) >= limit THEN Tail(longer) ELSE longer

Keep(out, e, limit) ==
    LET longer == Append(out, e) IN IF Len(longer) > limit THEN Tail(longer) ELSE longer

ReadFiltered(file, q) ==
    FoldLeft(LAMBDA out, e : IF Matches(e, q) THEN Keep(out, e, Limit(q)) ELSE out, <<>>, file)
=============================================================================
