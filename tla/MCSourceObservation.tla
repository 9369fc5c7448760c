------------------------- MODULE MCSourceObservation -------------------------
(* An instance of SourceObservation for TLC. *)
EXTENDS SourceObservation, TLC

CONSTANTS e1, e2

(* an event of a firewall, under the name a sender may use, and one of the gateway *)
TheEvents ==
    e1 :> [BlankEvent EXCEPT !.id = e1, !.timestamp = 1, !.type = "opnsense", !.ip = "10.0.0.1",
                             !.name = "fw", !.severity = "critical", !.category = "system",
                             !.words = {"block"}]
 @@ e2 :> [BlankEvent EXCEPT !.id = e2, !.timestamp = 1, !.type = "opcua_dmz_gateway",
                             !.ip = "192.168.10.20", !.name = "gateway", !.severity = "info",
                             !.category = "runtime"]

(* the OT collector knows a PLC, and the gateway, which is a default too *)
Configured(plc, gateway) ==
    <<"plc", "10.0.0.2">> :> Row("plc1", "", plc)
 @@ <<"opcua_dmz_gateway", "192.168.10.20">> :> Row("gw", "OPC UA gateway", gateway)

Before == Configured(TRUE, FALSE)
After == Configured(FALSE, TRUE)
TheConfigs == {Before, After}
=============================================================================
