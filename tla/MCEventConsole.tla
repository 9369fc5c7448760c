---------------------------- MODULE MCEventConsole ----------------------------
(* Instance of EventConsole for TLC: one publisher per source type. *)
EXTENDS EventConsole

CONSTANTS p1, p2

TheTypes == p1 :> "firewall" @@ p2 :> "plc"
TheSupply == p1 :> 2 @@ p2 :> 1
=============================================================================
