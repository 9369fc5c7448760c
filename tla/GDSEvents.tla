------------------------------ MODULE GDSEvents ------------------------------
(***************************************************************************)
(* POST /gds/events (internal/ingest/gds_events.go): the five forms in     *)
(* which the GDS reports, tried one after the other, and the tables that   *)
(* class what each of them says.                                           *)
(***************************************************************************)
EXTENDS SourceEvents

FacadeClass(name) ==
    CASE name = "gds_opcua_method_denied" -> Grave(name, "access_control", "warning", "HIGH")
      [] name \in {"gds_opcua_invalid_input", "gds_opcua_rate_limited"} ->
             Warning(name, "access_control")
      [] name = "gds_opcua_internal_api_failed" -> Grave(name, "error", "error", "HIGH")
      [] name = "gds_opcua_sensitive_material_blocked" ->
             Grave(name, "data_protection", "critical", "CRITICAL")
      [] name = "gds_opcua_method_completed" -> Info(name, "system_health")
      [] OTHER -> Info(name, "access_control")

(* "gds_opcua_other" stands for the names with this prefix that no table has *)
FacadeNames ==
    {"gds_opcua_method_called", "gds_opcua_method_allowed", "gds_opcua_method_denied",
     "gds_opcua_invalid_input", "gds_opcua_rate_limited", "gds_opcua_internal_api_failed",
     "gds_opcua_sensitive_material_blocked", "gds_opcua_method_completed", "gds_opcua_other"}

(* the first of message, gds_action and log_message that has the prefix *)
FacadeMessage(row) ==
    IF row.message \in FacadeNames THEN row.message
    ELSE IF row.action \in FacadeNames THEN row.action
    ELSE IF row.log[2] \in FacadeNames THEN row.log[2]
    ELSE ""

IsFacadeEvent(row) == row.facade \/ FacadeMessage(row) # ""

(* of the row only the object in raw is kept *)
BuildFacadeEvent(row, now) ==
    LET class == FacadeClass(FirstNonEmpty(FacadeMessage(row), "gds_opcua_method_called"))
    IN EventOf("gds", [class EXCEPT !.alert = @ \/ row.alert], row, <<row.original>>, now)
-----------------------------------------------------------------------------
ContractClass(name) ==
    CASE name \in {"vault_tls_verified", "vault_crl_checked", "vault_crl_rotated",
                   "client_gds_validation_success"} -> Info(name, "pki_lifecycle")
      [] name \in {"trust_artifact_regenerated", "client_trust_pull_success",
                   "client_trust_apply_success"} -> Info(name, "pki_trust_sync")
      [] name = "client_certificate_renew_success" -> Info(name, "certificate_lifecycle")
      [] name = "vault_crl_expiring" -> Warning(name, "pki_lifecycle")
      [] name = "vault_crl_expired" -> Grave(name, "pki_lifecycle", "critical", "CRITICAL")
      [] name = "vault_tls_insecure_fallback" -> Grave(name, "security", "warning", "HIGH")
      [] name = "trust_artifact_publish_failed" -> Grave(name, "pki_trust_sync", "error", "HIGH")
      [] name = "client_gds_validation_failed" -> Grave(name, "pki_lifecycle", "warning", "HIGH")
      [] name \in FacadeNames \ {"gds_opcua_other"} -> FacadeClass(name)
      [] OTHER -> NoClass

(* one candidate: the first field that is not empty *)
ContractMessage(row) ==
    FirstNonEmpty(row.message, FirstNonEmpty(row.event, FirstNonEmpty(row.action, row.log[2])))

(* the object in raw or else the log message *)
OriginalGDSRaw(row) == IF row.original # "" THEN <<row.original>> ELSE row.log

BuildContractEvent(row, class, now) ==
    EventOf("gds", [class EXCEPT !.alert = @ \/ row.alert], row,
            IF OriginalGDSRaw(row) = NoLog THEN <<row.safe>> ELSE OriginalGDSRaw(row), now)
-----------------------------------------------------------------------------
GDSActions == {"gds_db_connected", "gds_db_snapshot", "gds_db_disconnected", "gds_heartbeat"}
GDSFamilies == {"gds_audit_event", "gds_trust_list_published"}

ControlPlaneClass(action) ==
    CASE action = "agent_auth_success" -> Info("gds_agent_auth_success", "access_control")
      [] action = "mtls_client_identity_success" ->
             Info("gds_mtls_client_identity_success", "access_control")
      [] action = "mtls_metrics_read" -> Info("gds_client_pull_success", "access_control")
      [] action \in {"trustlist_artifact_read", "trustlist_artifact_sig_read",
                     "component_trust_material_read"} ->
             Info("gds_client_pull_success", "pki_trust_sync")
      [] action = "artifact_regenerated" ->
             Class("gds_trust_list_published", "pki_trust_sync", "info", "MEDIUM", FALSE)
      [] action = "trustlist_build" -> Info("gds_trust_list_updated", "pki_trust_sync")
      [] action = "certificate_drift_read" -> Info("gds_certificate_drift_read", "pki_validation")
      [] action = "certificate_telemetry_read" ->
             Info("gds_certificate_telemetry_read", "pki_validation")
      [] action = "component_status_read" -> Info("gds_component_status_read", "operator_action")
      [] action = "signing_trust_anchor_read" -> Info("gds_trust_anchor_read", "pki_trust_sync")
      [] action = "vault_unsealed_detected" ->
             Class("gds_vault_unsealed_detected", "system_health", "info", "MEDIUM", FALSE)
      [] action = "gds_db_disconnected" -> Grave(action, "error", "critical", "HIGH")
      [] action \in GDSActions \ {"gds_db_disconnected"} -> Info(action, "system_health")
      [] OTHER -> Info("gds_event_unknown", "operator_action")

IsControlPlane(row) ==
    /\ row.log # NoLog
    /\ \/ row.own
       \/ row.log[1] \in GDSFamilies
       \/ row.log[1] = "" /\ row.log[2] \in GDSActions

(* the alert of the class is dropped *)
BuildControlPlaneEvent(row, now) ==
    EventOf("gds", [ControlPlaneClass(row.log[2]) EXCEPT !.alert = FALSE], row,
            OriginalGDSRaw(row), now)
-----------------------------------------------------------------------------
DatabaseLost == Grave("gds_db_disconnected", "error", "critical", "HIGH")

HealthClass(row) ==
    CASE row.postgres = "ok" -> Info("gds_db_connected", "system_health")
      [] row.postgres = "down" -> DatabaseLost
      [] OTHER -> NoClass
-----------------------------------------------------------------------------
EventTypeFromMessage(words) ==
    FirstMatch(<<
        <<"artifact_regenerated" \in words, "artifact_regenerated">>,
        <<words \cap {"gds_bootstrap_starting", "starting_uvicorn",
                      "dmz_dependencies_reachable"} # {}, "gds_started">>,
        <<words \cap {"unauthorized", "auth_failure"} # {}, "agent_auth_failure">> >>, "")

EventType(row) ==
    LET named == FirstNonEmpty(row.event, row.action)
    IN IF row.json /\ named # "" THEN named ELSE EventTypeFromMessage(row.words)

Unauthorized == Warning("gds_unauthorized_request", "security")
EnrollmentFailed == Warning("gds_enrollment_failed", "pki_lifecycle")
TrustListPullFailed == Warning("gds_trust_list_pull_failed", "pki_trust_sync")
ClientPullFailed == Warning("gds_client_pull_failed", "security")
CertificateExpired == Warning("gds_certificate_expired", "pki_validation")
Started == Info("gds_started", "system_health")

ClassOfType(type) ==
    CASE type \in {"gds_started", "application_started", "bootstrap_started"} -> Started
      [] type \in {"gds_heartbeat", "application_heartbeat"} -> Info("gds_heartbeat", "system_health")
      [] type \in {"gds_db_snapshot", "gds_db_connected"} -> Info(type, "system_health")
      [] type = "gds_db_disconnected" -> DatabaseLost
      [] type = "application_register" -> Info("gds_client_registered", "pki_lifecycle")
      [] type \in {"certificate_request_created", "certificate_renewal_requested"} ->
             Info("gds_enrollment_request", "pki_lifecycle")
      [] type \in {"csr_validated", "component_enrollment_completed"} ->
             Info("gds_enrollment_approved", "pki_lifecycle")
      [] type \in {"csr_rejected", "certificate_issue_failed", "certificate_renewal_failed"} ->
             EnrollmentFailed
      [] type = "certificate_issued" ->
             Grave("gds_certificate_issued", "certificate_lifecycle", "info", "LOW")
      [] type \in {"certificate_renewal_packaged", "labshock_gds_component_renewal_result_v1"} ->
             Grave("gds_certificate_renewed", "certificate_lifecycle", "info", "LOW")
      [] type \in {"certificate_revoked", "certificate_revocation_crl_refreshed",
                   "package_revoked"} -> Warning("gds_certificate_revoked", "certificate_lifecycle")
      [] type = "certificate_expired" -> CertificateExpired
      [] type = "trustlist_build" -> Info("gds_trust_list_updated", "pki_trust_sync")
      [] type \in {"artifact_regenerated", "trustlist_artifact_rebuild"} ->
             Grave("gds_trust_list_published", "pki_trust_sync", "info", "LOW")
      [] type \in {"trustlist_artifact_read", "trustlist_artifact_sig_read",
                   "component_trust_material_read", "package_manifest_read",
                   "certificate_package_read"} -> Info("gds_client_pull_success", "pki_trust_sync")
      [] type = "trustlist_pull_failed" -> TrustListPullFailed
      [] type \in {"agent_auth_failure", "agent_unauthorized_pull",
                   "mtls_client_identity_failure"} -> Unauthorized
      [] type \in {"agent_auth_success", "mtls_client_identity_success", "mtls_metrics_read",
                   "certificate_telemetry_read", "certificate_drift_read",
                   "component_status_read", "signing_trust_anchor_read"} -> ControlPlaneClass(type)
      [] OTHER -> NoClass

TrustEndpoints == {"trust_artifact", "trust_artifact_signature"}
ReadEndpoints == TrustEndpoints \cup {"certificate_telemetry", "certificate_drift",
                                      "components_status"}

HTTPCases(http) ==
    LET failed == http.status >= 400 IN
    <<  <<http = NoHTTP, NoClass>>,
        <<http.status \in {401, 403}, Unauthorized>>,
        <<http.endpoint = "enrollment" /\ http.method = "POST"
              /\ http.asks /\ http.status \in {200, 201, 202},
          Info("gds_enrollment_request", "pki_lifecycle")>>,
        <<http.endpoint = "enrollment" /\ failed, EnrollmentFailed>>,
        <<http.endpoint \in TrustEndpoints /\ failed, TrustListPullFailed>>,
        <<http.endpoint \in ReadEndpoints /\ failed, ClientPullFailed>>,
        <<http.endpoint \in TrustEndpoints /\ http.status = 200,
          Info("gds_client_pull_success", "pki_trust_sync")>>,
        <<http.endpoint \in ReadEndpoints /\ http.status = 200,
          Info("gds_client_pull_success", "pki_validation")>> >>

ClassOfHTTP(http) == FirstMatch(HTTPCases(http), NoClass)

ClassOfEnrollment(words) ==
    FirstMatch(<<
        <<words \cap {"failed", "error", "rejected"} # {}, EnrollmentFailed>>,
        <<words \cap {"validated", "created", "approved"} # {},
          Info("gds_enrollment_approved", "pki_lifecycle")>> >>,
        Info("gds_enrollment_request", "pki_lifecycle"))

(* The heuristics.  `words` are needles of the event type, the message, the error
   and the HTTP fields together; "_4" and "_5" begin a status in an nginx line. *)
TextCases(row) ==
    LET Has(needle) == needle \in row.words
        OneOf(needles) == row.words \cap needles # {}
    IN <<
        <<Has("db") /\ OneOf({"disconnected", "connection_refused"}), DatabaseLost>>,
        <<{"db", "postgres", "false"} \subseteq row.words, DatabaseLost>>,
        <<Has("preflight") /\ OneOf({"timeout", "error", "failed"}), DatabaseLost>>,
        <<Has("preflight") /\ OneOf({"success", "ok", "reachable"}),
          Info("gds_db_connected", "system_health")>>,
        <<Has("health_transition") /\ Has("ok"), Started>>,
        <<Has("startup_complete"), Started>>,
        <<Has("logger_gds") /\ Has("started"), Started>>,
        <<OneOf({"unauthorized", "auth_failure", "forbidden"})
              \/ {"mtls", "failure"} \subseteq row.words, Unauthorized>>,
        <<Has("enrollment") /\ OneOf({"request", "endpoint", "/enroll", "csr"}),
          ClassOfEnrollment(row.words)>>,
        <<{"csr", "validated", "package", "created"} \subseteq row.words,
          Info("gds_enrollment_approved", "pki_lifecycle")>>,
        <<OneOf({"artifact_regenerated", "trustlist_artifact_rebuild"}),
          Class("gds_trust_list_published", "pki_trust_sync", "info", "MEDIUM", FALSE)>>,
        <<Has("trustlist") /\ Has("artifact") /\ OneOf({"failed", "error"}), TrustListPullFailed>>,
        <<Has("nginx") /\ OneOf({"_4", "_5"}) /\ OneOf({"artifact", "trustlist", "package"}),
          TrustListPullFailed>>,
        <<Has("expiry_state") /\ Has("expired"), CertificateExpired>>,
        <<Has("drift") /\ OneOf({"report", "api", "db"}), CertificateExpired>>,
        <<Has("health") /\ Has("poll"), Info("gds_heartbeat", "system_health")>>,
        <<row.errorCode, ClientPullFailed>>,
        <<OneOf({"gds_bootstrap_starting", "starting_uvicorn", "dmz_dependencies_reachable"}),
          Started>>,
        <<Has("expired") /\ Has("cert"), CertificateExpired>>,
        <<row.status >= 400 /\ OneOf({"artifact", "trustlist", "package"}), TrustListPullFailed>>,
        <<row.status >= 400, ClientPullFailed>> >>

ClassOfText(row) == FirstMatch(TextCases(row), NoClass)

(* an action the control plane knows, wherever the row names it *)
ClassOfAction(row) ==
    LET known == SelectSeq(<<row.action, row.event, row.log[2]>>,
                           LAMBDA a : ControlPlaneClass(a).message # "gds_event_unknown")
    IN IF known = <<>> THEN Info("gds_event_unknown", "operator_action")
                       ELSE ControlPlaneClass(Head(known))

ClassifyGDSEvent(row) ==
    Either(ClassOfType(EventType(row)),
           Either(ClassOfHTTP(row.http),
                  Either(ClassOfText(row), ClassOfAction(row))))

(* the event type, the text and the whitelisted fields are kept *)
BuildGDSEvent(row, class, type, text, now) ==
    EventOf("gds", class, row, <<type, text, row.safe>>, now)

MessageText(row) == IF row.log # NoLog THEN row.log ELSE <<row.message>>
-----------------------------------------------------------------------------
(* a line of text is only classed by its needles, and kept as it is *)
NormalizeGDSEvent(row, now) ==
    CASE ~row.json -> BuildGDSEvent(row, ClassifyGDSEvent(row), row.event, <<row.details>>, now)
      [] row.json /\ IsFacadeEvent(row) -> BuildFacadeEvent(row, now)
      [] OTHER ->
            LET contract == ContractClass(ContractMessage(row)) IN
            IF contract # NoClass THEN BuildContractEvent(row, contract, now)
            ELSE IF IsControlPlane(row) THEN BuildControlPlaneEvent(row, now)
            ELSE IF HealthClass(row) # NoClass
                 THEN BuildGDSEvent(row, HealthClass(row), HealthClass(row).message, <<>>, now)
            ELSE BuildGDSEvent(row, ClassifyGDSEvent(row), EventType(row), MessageText(row), now)
=============================================================================
