------------------------- MODULE MCDeliveryPipeline -------------------------
(* Instances of DeliveryPipeline for TLC. *)
EXTENDS DeliveryPipeline, TLC

SyslogOnly == [paused |-> FALSE, splunk |-> FALSE, syslog |-> TRUE]
Off     == [paused |-> FALSE, splunk |-> FALSE, syslog |-> FALSE]
Paused  == [paused |-> TRUE, splunk |-> FALSE, syslog |-> TRUE]

AlwaysOn  == {SyslogOnly}
Toggling  == {SyslogOnly, Paused}
Enabling  == {SyslogOnly, Off}

NoFile    == {}
DataFiles == {"store", "spool", "checkpoint"}
ConfigFile == {"config"}

(* Ingesters are interchangeable. *)
Workload == Permutations(Ingesters)

=============================================================================
