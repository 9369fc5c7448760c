------------------------ MODULE MCForwardingSettings ------------------------
(* Instances of ForwardingSettings for TLC. *)
EXTENDS ForwardingSettings

CONSTANTS t0, t1

MCEnv == [paused |-> FALSE, token |-> t0]
=============================================================================
