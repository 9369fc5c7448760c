------------------------------ MODULE VaultAudit ------------------------------
(***************************************************************************)
(* POST /vault/audit (internal/ingest/vault_audit.go).  `path` holds what  *)
(* the code finds in the path of the request, `error` the needles of the   *)
(* error text, or "other" when it has none of them.                        *)
(***************************************************************************)
EXTENDS SourceEvents

PolicyViolation == Grave("vault_policy_violation", "security", "critical", "CRITICAL")

SecretClass(operation) ==
    CASE operation \in {"read", "list"} -> Info("vault_secret_read", "operator_action")
      [] operation \in {"create", "update", "patch"} ->
             Class("vault_secret_write", "operator_action", "warning", "MEDIUM", FALSE)
      [] operation = "delete" -> Grave("vault_secret_delete", "security", "warning", "HIGH")
      [] OTHER -> NoClass

(* a request without an error is suppressed: its response will tell *)
AuditCases(row) ==
    LET failed  == row.error # {}
        At(mark) == mark \in row.path
        response == row.audit = "response"
    IN <<
        <<row.audit = "request" /\ ~failed, NoClass>>,
        <<At("sys/audit") /\ failed,
          Grave("vault_audit_log_failure", "security", "critical", "CRITICAL")>>,
        <<row.error \cap {"permission_denied", "policy"} # {}, PolicyViolation>>,
        <<At("auth/") /\ failed, Grave("vault_auth_failure", "access_control", "warning", "HIGH")>>,
        <<At("revoke"), Grave("vault_pki_revoke", "certificate_lifecycle", "warning", "HIGH")>>,
        <<At("/issue"), Info("vault_pki_issue", "pki_lifecycle")>>,
        <<At("/sign"), Info("vault_pki_sign", "pki_lifecycle")>>,
        <<At("/ca_chain"), Info("vault_pki_ca_chain_read", "pki_validation")>>,
        <<At("/crl"), Info("vault_pki_crl_read", "pki_validation")>>,
        <<At("tidy"), Info("vault_pki_tidy", "pki_lifecycle")>>,
        <<At("lease") /\ At("renew"), Info("vault_lease_renewed", "pki_lifecycle")>>,
        <<At("lease") /\ At("expire"),
          Grave("vault_lease_expired", "pki_lifecycle", "warning", "HIGH")>>,
        <<At("auth/token/create"), Info("vault_token_created", "access_control")>>,
        <<At("auth/") /\ response, Info("vault_auth_success", "access_control")>>,
        <<row.root /\ response,
          Grave("vault_root_token_used", "security", "critical", "CRITICAL")>>,
        <<At("secret") /\ SecretClass(row.operation) # NoClass, SecretClass(row.operation)>>,
        <<failed, PolicyViolation>> >>

ClassifyVaultAudit(row) == FirstMatch(AuditCases(row), Info("vault_request", "operator_action"))

NormalizeVaultAudit(row, now) ==
    EventOf("vault", ClassifyVaultAudit(row), row, <<row.safe>>, now)
=============================================================================
