------------------------------- MODULE MCIntake -------------------------------
(* Instances of Intake for TLC: the bodies that are sent. *)
EXTENDS Intake

Body(endpoint, form, rows) == [endpoint |-> endpoint, form |-> form, rows |-> rows]

Text(details, words) == [BlankRow EXCEPT !.json = FALSE, !.details = details, !.words = words]
(* an object with a time of its own *)
Object(details) == [BlankRow EXCEPT !.time = 6001, !.details = details, !.safe = details]

Posted == [BlankEvent EXCEPT !.timestamp = 6002, !.type = "opnsense", !.ip = "10.0.0.1",
                             !.name = "fw", !.raw = <<"a">>, !.words = {"block"}]
(* received before, and written in a zone an hour ahead of UTC *)
Old == [Posted EXCEPT !.type = "ot_collector", !.received = 5999, !.offset = 360000,
                      !.category = "runtime"]
Misdated == [Posted EXCEPT !.timestamp = InvalidTime]
Undated == [Posted EXCEPT !.timestamp = NoTime, !.type = "ot_collector",
                          !.severity = Blanks, !.category = Blanks]

SSH == {"accepted_publickey_for", "accepted_publickey", "cert_id"}
SSHReport(details, line) == [Object(details) EXCEPT !.words = SSH, !.line = line]

GDSReport(type) == [Object(type) EXCEPT !.event = type]
GDSLog(details, log) == [Object(details) EXCEPT !.log = log]
AuthFailure ==
    [GDSLog("refused_agent", <<"gds_audit_event", "agent_auth_failure">>)
        EXCEPT !.event = "agent_auth_failure"]
Access(details, status) ==
    [Object(details) EXCEPT !.http = [method |-> "GET", endpoint |-> "trust_artifact",
                                      asks |-> FALSE, status |-> status],
                            !.words = {"artifact"}]
(* nothing of such an object is kept *)
Facade(details) == [Object(details) EXCEPT !.message = "gds_opcua_sensitive_material_blocked"]
Audit(details, path, error) ==
    [Object(details) EXCEPT !.audit = "response", !.path = path, !.error = error]

TheDeliveries ==
    {Body("events", "array", <<Misdated, Posted>>),
     Body("events", "array", <<Old, Posted>>),
     Body("events", "object", <<Undated>>),
     Body("events", "large", <<>>),
     Body("gds", "array", <<>>),
     Body("gds", "array", <<AuthFailure, GDSReport("gds_db_disconnected")>>),
     Body("gds", "array", <<GDSLog("lost", <<"", "gds_db_disconnected">>),
                            [Object("down") EXCEPT !.postgres = "down"]>>),
     Body("gds", "array", <<Facade("key"), Facade("other key"),
                            [Object("crl") EXCEPT !.action = "vault_crl_expired"]>>),
     Body("gds", "lines", <<Text("preflight", {"preflight", "timeout"}), Access("forbidden", 403)>>),
     Body("gds", "array", <<Access("pulled", 200), GDSReport("agent_auth_failure")>>),
     Body("opcua", "array", <<[Object("pki") EXCEPT !.event = "pki_load_failed"],
                              [Object("beat") EXCEPT !.message = "heartbeat",
                                                     !.severity = "critical"],
                              [Object("") EXCEPT !.event = "other_failed",
                                                 !.prefixed = TRUE]>>),
     Body("jumphost", "array", <<SSHReport("ssh", {}), [SSHReport("named", SSH)
                                                           EXCEPT !.message = UnknownMessage]>>),
     Body("jumphost", "lines", <<Text("line", SSH), Text("zone", {"unauthorized", "zone"})>>),
     Body("jumphost", "object", <<[SSHReport("own", {}) EXCEPT !.message = UnknownMessage,
                                                                !.severity = "critical",
                                                                !.category = "error"]>>),
     Body("syslog", "lines", <<Text("sshd", SSH)>>),
     Body("syslog", "lines", <<Text("deny", {"deny"})>>),
     Body("vault", "lines", <<[Audit("login", {"auth/"}, {}) EXCEPT !.audit = "request"],
                              Audit("audit", {"sys/audit"}, {"other"})>>),
     Body("vault", "object", <<[Audit("root", {"secret"}, {}) EXCEPT !.root = TRUE]>>),
     Body("ids", "object", <<[Object("alert") EXCEPT !.level = 1, !.message = "signature"]>>),
     Body("ids", "array", <<[Object("alerts") EXCEPT !.level = 2]>>)}

TheInstants == <<6090, 6100, 6110>>
=============================================================================
