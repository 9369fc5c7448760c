---------------------------- MODULE OPCUADMZEvents ----------------------------
(***************************************************************************)
(* POST /opcua-dmz/events (internal/ingest/opcua_dmz_events.go).           *)
(***************************************************************************)
EXTENDS SourceEvents

(* event types, without the prefix opcua_dmz_ of the messages *)
HealthTypes == {"started", "stopped", "heartbeat", "northbound_started", "southbound_initialized"}
CriticalTypes == {"northbound_failed", "influx_unavailable", "client_alloc_failed"}
SessionWarnings == {"southbound_connect_failed", "southbound_poll_failed", "namespace_failed"}
PKIFailures == {"pki_load_failed", "trust_load_failed", "security_config_failed"}
TrustNews == {"gds_trust_update_detected", "gds_trust_pull_success", "gds_trust_applied"}
TrustFailures == {"gds_trust_pull_failed", "gds_trust_apply_failed"}
CertificateNews == {"gds_certificate_enrolled", "gds_certificate_renewed", "gds_certificate_applied"}
CertificateWarnings == {"gds_certificate_renewal_due", "gds_certificate_renewal_failed"}

GatewayMessages ==
    HealthTypes \cup CriticalTypes \cup SessionWarnings \cup PKIFailures \cup TrustNews
        \cup TrustFailures \cup CertificateNews \cup CertificateWarnings
        \cup {"influx_write_failed", "southbound_connected", "gds_bootstrap_failed",
              "event_unknown", "other", "other_failed"}

(* A message is known by its prefix, of which it is written without here; any
   message with the prefix is kept, and so is an event type that has it.  "other"
   and "other_failed" stand for those that no table has, the second for those that
   say so of a failure. *)
MessageForEventType(type, prefixed) ==
    CASE prefixed -> type
      [] type \in HealthTypes \cup CriticalTypes \cup SessionWarnings \cup PKIFailures
             \cup {"influx_write_failed", "southbound_connected", "gds_bootstrap_failed"} -> type
      [] type = "gateway_started" -> "started"
      [] type = "gateway_stopped" -> "stopped"
      [] type = "gateway_heartbeat" -> "heartbeat"
      [] type = "bootstrap_failed" -> "gds_bootstrap_failed"
      [] type = "trust_update_detected" -> "gds_trust_update_detected"
      [] type \in {"trust_pull_completed", "trust_pull_success"} -> "gds_trust_pull_success"
      [] type = "trust_pull_failed" -> "gds_trust_pull_failed"
      [] type = "trust_applied" -> "gds_trust_applied"
      [] type = "trust_apply_failed" -> "gds_trust_apply_failed"
      [] type = "certificate_enrolled" -> "gds_certificate_enrolled"
      [] type = "certificate_renewal_due" -> "gds_certificate_renewal_due"
      [] type = "certificate_renewed" -> "gds_certificate_renewed"
      [] type = "certificate_applied" -> "gds_certificate_applied"
      [] type = "certificate_renewal_failed" -> "gds_certificate_renewal_failed"
      [] OTHER -> ""

GatewayCategoryAndSeverity(message) ==
    CASE message \in CriticalTypes -> <<"error", "critical">>
      [] message = "influx_write_failed" -> <<"error", "warning">>
      [] message = "southbound_connected" -> <<"opcua_session", "info">>
      [] message \in SessionWarnings -> <<"opcua_session", "warning">>
      [] message \in PKIFailures -> <<"pki_validation", "critical">>
      [] message = "gds_bootstrap_failed" -> <<"pki_trust_sync", "critical">>
      [] message \in TrustNews -> <<"pki_trust_sync", "info">>
      [] message \in TrustFailures -> <<"pki_trust_sync", "warning">>
      [] message \in CertificateNews -> <<"certificate_lifecycle", "info">>
      [] message \in CertificateWarnings -> <<"certificate_lifecycle", "warning">>
      [] OTHER -> <<"system_health", "info">>

GatewayCategories ==
    {"system_health", "opcua_session", "pki_validation", "pki_trust_sync",
     "certificate_lifecycle", "error", "security", "access_control"}

FailureMessages ==
    {"northbound_failed", "influx_unavailable", "influx_write_failed", "client_alloc_failed",
     "gds_bootstrap_failed", "gds_certificate_renewal_failed"}
        \cup SessionWarnings \cup PKIFailures \cup TrustFailures \cup {"other_failed"}

RiskForGateway(severity, category) ==
    FirstMatch(<<
        <<severity \in {"critical", "error"}, "HIGH">>,
        <<severity = "warning" \/ category \in {"security", "access_control"}, "MEDIUM">> >>, "LOW")

GatewayAlert(message, category, severity) ==
    \/ severity \in {"warning", "error", "critical"}
    \/ category \in {"security", "access_control", "pki_validation"}
    \/ message \in FailureMessages

MessageOfGatewayText(words) ==
    FirstMatch(<<
        <<"heartbeat" \in words, "heartbeat">>,
        <<"started" \in words, "started">>,
        <<{"southbound", "connect", "fail"} \subseteq words, "southbound_connect_failed">>,
        <<{"pki", "fail"} \subseteq words, "pki_load_failed">> >>, "event_unknown")

(* unlike for the jump host, a severity or category that the sender gives is
   believed of every message; "warn" is left out *)
ClassifyGateway(row) ==
    LET named    == IF row.message \in GatewayMessages THEN row.message
                    ELSE MessageForEventType(row.event, row.prefixed)
        message  == IF row.json THEN FirstNonEmpty(named, "event_unknown")
                                ELSE MessageOfGatewayText(row.words)
        own      == GatewayCategoryAndSeverity(message)
        category == IF row.category \in GatewayCategories THEN row.category ELSE own[1]
        severity == IF row.severity \in {"info", "warning", "error", "critical"}
                    THEN row.severity ELSE own[2]
    IN Class(message, category, severity, RiskForGateway(severity, category),
             GatewayAlert(message, category, severity))

(* a line of text is a field of its own, `detail`, which the whitelist lets through *)
KeptOfGateway(row, message) ==
    CASE ~row.json -> <<row.details>>
      [] row.json /\ row.safe # "" -> <<row.safe>>
      [] OTHER -> <<message>>

NormalizeOPCUADMZEvent(row, now) ==
    LET class == ClassifyGateway(row)
    IN EventOf("opcua_dmz_gateway", [class EXCEPT !.alert = @ \/ row.alert], row,
               KeptOfGateway(row, class.message), now)
=============================================================================
