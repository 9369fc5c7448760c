----------------------------- MODULE EventRelay -----------------------------
(***************************************************************************)
(* What the collector promises its clients, with no queue, no threads and  *)
(* no files: an event is stored before it is spooled, spooled before it is *)
(* acknowledged or forwarded, and none of these facts is ever undone, a    *)
(* crash included.  DeliveryPipeline implements this specification.        *)
(***************************************************************************)
CONSTANT Ids                \* the identities an event may carry (event.Event.ID)

VARIABLES
    stored,                 \* written to the events file
    spooled,                \* written to the spool file
    acked,                  \* counted as "accepted" in an answer to a client
    forwarded               \* a Send to the syslog destination returned no error

vars == <<stored, spooled, acked, forwarded>>

Init ==
    /\ stored = {}
    /\ spooled = {}
    /\ acked = {}
    /\ forwarded = {}

Store(e) ==
    /\ stored' = stored \cup {e}
    /\ UNCHANGED <<spooled, acked, forwarded>>

Spool(e) ==
    /\ e \in stored
    /\ spooled' = spooled \cup {e}
    /\ UNCHANGED <<stored, acked, forwarded>>

Acknowledge(e) ==
    /\ e \in spooled
    /\ acked' = acked \cup {e}
    /\ UNCHANGED <<stored, spooled, forwarded>>

Forward(e) ==
    /\ e \in spooled
    /\ forwarded' = forwarded \cup {e}
    /\ UNCHANGED <<stored, spooled, acked>>

Next == \E e \in Ids : Store(e) \/ Spool(e) \/ Acknowledge(e) \/ Forward(e)

Spec == Init /\ [][Next]_vars
=============================================================================
