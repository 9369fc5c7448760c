---------------------------- MODULE JumphostEvents ----------------------------
(***************************************************************************)
(* POST /jumphost/events (internal/ingest/jumphost_events.go) and the      *)
(* syslog lines of the jump host and the firewall (syslog_receiver.go).    *)
(* `words` are the needles and regular expressions that match the text     *)
(* found in message, msg, log_message, detail or raw, in this order;       *)
(* `line` those of the line of sshd found in line, raw, detail,            *)
(* log_message or message, there too in the objects within raw.  A line of *)
(* text is both.                                                           *)
(***************************************************************************)
EXTENDS SourceEvents

LoginMessages ==
    {"jump_login_attempt", "jump_login_success", "jump_cert_login_success", "jump_mfa_success",
     "jump_cert_accepted", "jump_pubkey_postponed", "jump_connection_started"}
RefusalMessages ==
    {"jump_login_failed", "jump_invalid_user", "jump_mfa_failed", "jump_account_locked"}
SessionMessages ==
    {"jump_logout", "jump_session_opened", "jump_session_closed", "jump_session_open",
     "jump_session_close", "jump_preauth_connection_closed", "jump_session_disconnected",
     "jump_session_closed_user"}
SecurityMessages ==
    {"jump_sudo_executed", "jump_sudo_failed", "jump_forward_denied", "jump_hostkey_mismatch"}
ConfigMessages == {"jump_password_auth_disabled", "jump_bastion_policy_applied"}

UnknownMessage == "jump_event_unknown"

JumphostMessages ==
    LoginMessages \cup RefusalMessages \cup SessionMessages \cup SecurityMessages
        \cup ConfigMessages
        \cup {"jump_unauthorized_zone_access", "jump_heartbeat", UnknownMessage}

NormalizeJumphostMessage(name) == IF name \in JumphostMessages THEN name ELSE NoName

MessageCases(words) ==
    LET Has(needle) == needle \in words
        OneOf(needles) == words \cap needles # {}
    IN <<
        <<Has("accepted_certificate_id"), "jump_cert_accepted">>,
        <<Has("postponed_publickey_for"), "jump_pubkey_postponed">>,
        <<{"unable_to_negotiate_with", "no_matching_host_key_type"} \subseteq words,
          "jump_hostkey_mismatch">>,
        <<{"accepted_publickey_for", "cert_id"} \subseteq words, "jump_cert_login_success">>,
        <<Has("accepted_publickey_for"), "jump_login_success">>,
        <<OneOf({"failed_publickey_for", "failed_password_for"}), "jump_login_failed">>,
        <<Has("invalid_user"), "jump_invalid_user">>,
        <<Has("not_allowed_because_account_is_locked"), "jump_account_locked">>,
        <<{"connection_closed_by", "preauth"} \subseteq words, "jump_preauth_connection_closed">>,
        <<Has("connection_from"), "jump_connection_started">>,
        <<Has("received_disconnect_from"), "jump_session_disconnected">>,
        <<Has("disconnected_from_user"), "jump_session_closed_user">>,
        <<OneOf({"open_failed", "administratively_prohibited", "forward_denied"})
              \/ {"permitopen", "den"} \subseteq words, "jump_forward_denied">>,
        <<Has("session_opened_for_user"), "jump_session_open">>,
        <<Has("session_closed_for_user"), "jump_session_close">>,
        <<OneOf({"user/password_ssh_access_is_disabled", "passwordauthentication_no"}),
          "jump_password_auth_disabled">>,
        <<OneOf({"trustedusercakeys", "allowtcpforwarding", "vault_ssh_ca_bastion_policy",
               "permitopen"}), "jump_bastion_policy_applied">>,
        <<{"unauthorized", "zone"} \subseteq words, "jump_unauthorized_zone_access">>,
        <<Has("sudo") /\ OneOf({"authentication_failure", "incorrect_password", "failed"}),
          "jump_sudo_failed">>,
        <<Has("sudo"), "jump_sudo_executed">>,
        <<OneOf({"failed_password", "authentication_failure"}), "jump_login_failed">>,
        <<OneOf({"accepted_password", "accepted_publickey"}), "jump_login_success">>,
        <<Has("session_opened"), "jump_session_opened">>,
        <<Has("session_closed"), "jump_session_closed">>,
        <<Has("logout"), "jump_logout">>,
        <<Has("heartbeat"), "jump_heartbeat">> >>

MessageFromText(words) == FirstMatch(MessageCases(words), NoName)

SSHNeedles ==
    {"accepted_certificate_id", "postponed_publickey_for", "unable_to_negotiate_with",
     "received_disconnect_from", "disconnected_from_user", "connection_from",
     "accepted_publickey_for", "failed_publickey_for", "failed_password_for", "invalid_user",
     "not_allowed_because_account_is_locked", "user_child_is_on_pid"}

(* Faulty variant: a line is only parsed when no name is given at all. *)
MessageAsNamed(row) ==
    LET named == NormalizeJumphostMessage(
                     FirstNonEmpty(row.message, FirstNonEmpty(row.event, row.action)))
    IN FirstNonEmpty(named, FirstNonEmpty(MessageFromText(row.words), UnknownMessage))

SSHLine(row) ==
    LET line == IF row.json THEN row.line ELSE row.words
    IN IF line \cap SSHNeedles # {} THEN line ELSE {}

(* the name given; without one, what the text says; when that is nothing, or the name
   given is that of unknown events, what the line of sshd says *)
MessageOfRow(row) ==
    LET named  == NormalizeJumphostMessage(
                      FirstNonEmpty(row.message, FirstNonEmpty(row.event, row.action)))
        told   == FirstNonEmpty(named, MessageFromText(row.words))
        parsed == MessageFromText(SSHLine(row))
    IN IF told \in {NoName, UnknownMessage} THEN FirstNonEmpty(parsed, UnknownMessage) ELSE told

CategoryAndSeverity(message) ==
    CASE message \in LoginMessages -> <<"access_control", "info">>
      [] message \in RefusalMessages -> <<"access_control", "warning">>
      [] message \in SessionMessages -> <<"session", "info">>
      [] message \in SecurityMessages -> <<"security", "warning">>
      [] message = "jump_unauthorized_zone_access" -> <<"security", "critical">>
      [] message \in ConfigMessages -> <<"security_config", "info">>
      [] message = "jump_heartbeat" -> <<"system_health", "info">>
      [] OTHER -> <<"system", "info">>

Severities == {"info", "warning", "error", "critical"}

JumphostCategories ==
    {"system_health", "access_control", "security", "security_config", "session", "error", "system"}

(* what the sender says counts only of events nobody knows *)
Overridden(message, given, allowed, own) ==
    IF message = UnknownMessage /\ given \in allowed THEN given ELSE own

RiskForJumphost(message, category, severity) ==
    FirstMatch(<<
        <<message = "jump_unauthorized_zone_access" \/ severity = "critical", "CRITICAL">>,
        <<message \in SecurityMessages \ {"jump_hostkey_mismatch"}
              \/ severity = "warning" \/ category = "security", "MEDIUM">>,
        <<severity = "error", "HIGH">> >>, "LOW")

(* Faulty variant: a severity that the sender gives makes no alert. *)
JumphostAlertByMessage(message, category, severity) ==
    \/ message \in {"jump_login_failed", "jump_invalid_user", "jump_mfa_failed",
                    "jump_account_locked", "jump_unauthorized_zone_access"} \cup SecurityMessages
    \/ category = "security"

JumphostAlert(message, category, severity) ==
    \/ message \in {"jump_login_failed", "jump_invalid_user", "jump_mfa_failed",
                    "jump_account_locked", "jump_unauthorized_zone_access"} \cup SecurityMessages
    \/ severity \in {"warning", "error", "critical"}
    \/ category = "security"

ClassifyJumphost(row) ==
    LET message  == MessageOfRow(row)
        own      == CategoryAndSeverity(message)
        category == Overridden(message, row.category, JumphostCategories, own[1])
        severity == Overridden(message, row.severity, Severities, own[2])
    IN Class(message, category, severity, RiskForJumphost(message, category, severity),
             JumphostAlert(message, category, severity))

HighValueMessages ==
    {"jump_cert_login_success", "jump_forward_denied", "jump_account_locked",
     "jump_hostkey_mismatch"}

NormalizeJumphostEvent(row, now) ==
    LET class == ClassifyJumphost(row)
    IN [EventOf("jumphost", [class EXCEPT !.alert = @ \/ row.alert], row, <<row.details>>, now)
           EXCEPT !.high = class.message \in HighValueMessages]
-----------------------------------------------------------------------------
SyslogNeedles ==
    {"sshd", "sshd.pam", "sshd-session.pam", "jumpadmin", "invaliduser", "accepted_publickey",
     "failed_publickey", "failed_password", "invalid_user", "permission_denied",
     "administratively_prohibited", "open_failed"}

IsJumphostSyslog(row) ==
    \/ "labshock_jumphost" \in row.host
    \/ (row.host \cup row.words) \cap SyslogNeedles # {}

(* the time the line carries is not read *)
NormalizeFirewall(row, now) ==
    EnsureDefaults(
        [BlankEvent EXCEPT !.timestamp = now, !.received = now, !.type = "firewall",
                           !.ip = "192.168.10.254", !.name = "firewall", !.severity = "warning",
                           !.category = "security", !.raw = <<row.details>>,
                           !.words = row.words], now)

NormalizeSyslogLine(row, now) ==
    IF IsJumphostSyslog(row)
    THEN NormalizeJumphostEvent(
             [row EXCEPT !.time = NoTime,
                         !.message = FirstNonEmpty(MessageFromText(row.words), UnknownMessage)], now)
    ELSE NormalizeFirewall(row, now)
=============================================================================
