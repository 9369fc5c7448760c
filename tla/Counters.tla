------------------------------- MODULE Counters -------------------------------
(***************************************************************************)
(* Go maps from names to counts: functions whose domain is the names seen. *)
(***************************************************************************)
EXTENDS Integers, FiniteSetsExt

CountOf(counts, name) == IF name \in DOMAIN counts THEN counts[name] ELSE 0

(* Faulty variant: a new name starts at zero. *)
FirstNotCounted(counts, name) ==
    [n \in DOMAIN counts \cup {name} |->
        IF n = name /\ n \in DOMAIN counts THEN counts[n] + 1 ELSE CountOf(counts, n)]

(* counts[name]++ *)
Incremented(counts, name) ==
    [n \in DOMAIN counts \cup {name} |-> CountOf(counts, n) + (IF n = name THEN 1 ELSE 0)]

TotalOf(counts) == MapThenSumSet(LAMBDA n : counts[n], DOMAIN counts)
=============================================================================
