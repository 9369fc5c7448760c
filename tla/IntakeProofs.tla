----------------------------- MODULE IntakeProofs -----------------------------
(***************************************************************************)
(* Every row gets its answer, its event and its count, and what is stored  *)
(* comes back as it was, whatever the senders send and however their       *)
(* bodies, the clock and the monitor mix.                                  *)
(***************************************************************************)
EXTENDS Intake, SharedFacts

Decoded(x) == x = [row |-> x.row, event |-> x.event] /\ IsEvent(x.event)

(* every event on its way is an event, every event in the file is settled *)
FileIsSettled ==
    /\ instant \in DOMAIN Instants
    /\ pc = [s \in Senders |-> pc[s]]
    /\ post = [s \in Senders |-> post[s]]
    /\ todo = [s \in Senders |-> todo[s]]
    /\ \A s \in Senders : /\ pc[s] # "idle" => post[s] \in Deliveries
                          /\ pc[s] = "count" => todo[s] # <<>>
    /\ \A s \in Senders : \E S : todo[s] \in Seq(S) /\ \A x \in S : Decoded(x)
    /\ \E S : stored \in Seq(S) /\ \A x \in S : Settled(x.event)

(* The clock shows a time. *)
LEMMA NowIsTime ==
    ASSUME instant \in DOMAIN Instants PROVE Now \in Nat /\ Now \notin {NoTime, InvalidTime}
BY InstantsAssumption DEF Now, NoTime, InvalidTime

(* the time an event was received at is a time in a zone, or invalid *)
Zoned(e) ==
    /\ e.received \in Nat \cup {InvalidTime}
    /\ IF e.received = InvalidTime THEN e.offset = 0
       ELSE e.offset \in Int /\ e.received + e.offset \in Nat

(* e is an event, and as valid as first is *)
Made(e, first) ==
    /\ IsEvent(e) /\ e.id # NoId /\ e.timestamp # NoTime
    /\ Zoned(e) /\ e.received # NoTime
    /\ IsValid(e) <=> IsValid(first)

(* e is an event made of row; first is what row makes at instant 1.  The id it is given
   does not depend on when that is if the row has a time of its own. *)
MadeOf(row, e, first) ==
    /\ Made(e, first)
    /\ row.time # NoTime => e.id = first.id

(* the events a row makes before their defaults are filled in, now and at instant 1 *)
Alike(row, now, e, first) ==
    /\ IsEvent(e) /\ IsEvent(first)
    /\ e.timestamp = IF row.time = NoTime THEN now ELSE row.time
    /\ first.timestamp = IF row.time = NoTime THEN 1 ELSE row.time
    /\ e.received = now /\ e.offset = 0 /\ e.id = NoId /\ first.id = NoId
    /\ \A f \in {"type", "ip", "message", "raw", "category"} : e[f] = first[f]

(* The id that EnsureDefaults computes (model.go:139-143). *)
LEMMA DefaultsId ==
    ASSUME NEW e, IsEvent(e), NEW now
    PROVE  EnsureDefaults(e, now).id =
              IF e.id # NoId THEN e.id
              ELSE <<IF e.timestamp = NoTime THEN now ELSE e.timestamp, e.type, e.ip,
                     e.message, e.raw, DefaultCategory(e.category)>>
<1> HasDefaults(EnsureDefaults(e, now), e, now)
  BY DefaultsFields
<1> QED BY DEF HasDefaults

(* The defaults make an event with an id of an event. *)
LEMMA DefaultsIdentify ==
    ASSUME NEW e, IsEvent(e), NEW now, now # NoTime
    PROVE  /\ IsEvent(EnsureDefaults(e, now)) /\ EnsureDefaults(e, now).id # NoId
           /\ EnsureDefaults(e, now).timestamp = IF e.timestamp = NoTime THEN now ELSE e.timestamp
           /\ EnsureDefaults(e, now).received = IF e.received = NoTime THEN now ELSE e.received
           /\ EnsureDefaults(e, now).offset = e.offset
<1> DEFINE d == EnsureDefaults(e, now)
<1>1. d = EnsureDefaults(e, now)
  OBVIOUS
<1> HIDE DEF d
<1>2. /\ IsEvent(d) /\ d.id # NoId
      /\ d.timestamp = IF e.timestamp = NoTime THEN now ELSE e.timestamp
      /\ d.received = IF e.received = NoTime THEN now ELSE e.received
      /\ d.offset = e.offset
  <2>1. HasDefaults(d, e, now)
    BY <1>1, DefaultsFields
  <2> QED BY <2>1 DEF HasDefaults
<1> QED BY <1>1, <1>2

(* Events that are alike get the same id. *)
LEMMA DefaultsMake ==
    ASSUME NEW row, NEW now \in Nat, now \notin {NoTime, InvalidTime},
           NEW e, NEW first, Alike(row, now, e, first)
    PROVE  MadeOf(row, EnsureDefaults(e, now), EnsureDefaults(first, 1))
<1>1. IsEvent(e) /\ IsEvent(first)
  BY DEF Alike
<1> DEFINE d == EnsureDefaults(e, now)
<1>2. d = EnsureDefaults(e, now)
  OBVIOUS
<1> HIDE DEF d
<1>3. Made(d, EnsureDefaults(first, 1))
  <2>1. IsEvent(d) /\ d.id # NoId
    BY <1>1, <1>2, DefaultsIdentify
  <2>2. /\ d.timestamp = IF e.timestamp = NoTime THEN now ELSE e.timestamp
        /\ d.received = IF e.received = NoTime THEN now ELSE e.received
        /\ d.offset = e.offset
    BY <1>1, <1>2, DefaultsIdentify
  <2>3. EnsureDefaults(first, 1).timestamp
           = IF first.timestamp = NoTime THEN 1 ELSE first.timestamp
    BY <1>1, DefaultsIdentify DEF NoTime
  <2>4. /\ e.timestamp # NoTime /\ first.timestamp # NoTime
        /\ e.timestamp = InvalidTime <=> first.timestamp = InvalidTime
        /\ e.received = now /\ e.offset = 0
    BY DEF Alike, NoTime, InvalidTime
  <2>5. Zoned(d) /\ d.received # NoTime
    BY <2>2, <2>4 DEF Zoned, InvalidTime, NoTime
  <2> QED BY <2>1, <2>2, <2>3, <2>4, <2>5 DEF Made, IsValid
<1>4. ASSUME row.time # NoTime PROVE d.id = EnsureDefaults(first, 1).id
  <2>1. HasDefaults(d, e, now) /\ HasDefaults(EnsureDefaults(first, 1), first, 1)
    BY <1>1, <1>2, DefaultsFields
  <2>2. /\ e.id = NoId /\ first.id = NoId /\ e.timestamp = first.timestamp
        /\ e.timestamp # NoTime
        /\ e.type = first.type /\ e.ip = first.ip /\ e.message = first.message
        /\ e.raw = first.raw /\ e.category = first.category
    BY <1>4 DEF Alike
  <2> QED BY <2>1, <2>2 DEF HasDefaults
<1> QED BY <1>2, <1>3, <1>4 DEF MadeOf
-----------------------------------------------------------------------------
(***************************************************************************)
(* The classes: what every table calls critical has a high risk and is an  *)
(* alert, and a line of sshd means the same in every form.                 *)
(***************************************************************************)
(* A switch chooses one of its cases, and the first when its condition holds. *)
LEMMA FirstMatchChooses ==
    ASSUME NEW cases, Len(cases) \in Nat, NEW default
    PROVE  /\ \/ FirstMatch(cases, default) = default
              \/ \E i \in 1 .. Len(cases) : FirstMatch(cases, default) = cases[i][2]
           /\ Len(cases) > 0 /\ cases[1][1] => FirstMatch(cases, default) = cases[1][2]
           /\ (\A i \in 1 .. Len(cases) : ~cases[i][1]) => FirstMatch(cases, default) = default
<1> DEFINE I == {i \in 1 .. Len(cases) : cases[i][1]}
           least == CHOOSE m \in I : \A i \in I : m <= i
<1>1. FirstMatch(cases, default) = IF I # {} /\ least # 0 THEN cases[least][2] ELSE default
  <2>1. SelectInSeq(cases, LAMBDA c : c[1]) = IF I # {} THEN least ELSE 0
    BY DEF SelectInSeq, Min
  <2> HIDE DEF I, least
  <2> QED BY <2>1 DEF FirstMatch
<1>2. I # {} => least \in I /\ \A i \in I : least <= i
  <2>1. I \in SUBSET Nat
    OBVIOUS
  <2> HIDE DEF I
  <2>2. I # {} => \E m \in I : \A i \in I : m <= i
    BY <2>1, LeastNat
  <2> QED BY <2>2
<1>3. Len(cases) > 0 /\ cases[1][1] => 1 \in I
  OBVIOUS
<1>4. I \subseteq 1 .. Len(cases)
  OBVIOUS
<1> HIDE DEF I, least
<1> DEFINE result == FirstMatch(cases, default)
<1>5. result = default \/ \E i \in 1 .. Len(cases) : result = cases[i][2]
  BY <1>1, <1>2, <1>4
<1>6. ASSUME Len(cases) > 0, cases[1][1] PROVE result = cases[1][2]
  <2>1. 1 \in I /\ least \in I /\ least <= 1
    BY <1>2, <1>3, <1>6
  <2>2. least = 1
    BY <1>4, <2>1
  <2> QED BY <1>1, <2>1, <2>2
<1>7. (\A i \in 1 .. Len(cases) : ~cases[i][1]) => result = default
  <2>1. (\A i \in 1 .. Len(cases) : ~cases[i][1]) => I = {}
    BY DEF I
  <2> QED BY <1>1, <2>1
<1> QED BY <1>5, <1>6, <1>7

(* a class, or an event, that says critical is an alert *)
IsAlarm(c) == c.severity = "critical" /\ c.risk # NoName

IsClass(c) == {"message", "category", "severity", "risk", "alert"} \subseteq DOMAIN c

RaisesAlarm(c) ==
    IsClass(c) /\ (IsAlarm(c) => c.risk \in {"HIGH", "CRITICAL"} /\ c.alert)

(* No class at all, and what is no more than a warning. *)
LEMMA MildClasses ==
    /\ RaisesAlarm(NoClass)
    /\ \A message, category : /\ RaisesAlarm(Info(message, category))
                              /\ RaisesAlarm(Warning(message, category))
    /\ \A message, category, severity, risk :
          risk \in {"HIGH", "CRITICAL"} \/ severity # "critical"
             => RaisesAlarm(Grave(message, category, severity, risk))
    /\ \A message, category, severity, risk, alert :
          severity # "critical" => RaisesAlarm(Class(message, category, severity, risk, alert))
<1>1. ASSUME NEW message, NEW category, NEW severity, NEW risk, NEW alert
      PROVE  /\ IsClass(Class(message, category, severity, risk, alert))
             /\ Class(message, category, severity, risk, alert).severity = severity
  BY DEF IsClass, Class
<1>2. ASSUME NEW message, NEW category, NEW severity, NEW risk, NEW alert, severity # "critical"
      PROVE  RaisesAlarm(Class(message, category, severity, risk, alert))
  BY <1>1, <1>2 DEF RaisesAlarm, IsAlarm
<1>3. RaisesAlarm(NoClass)
  <2>1. NoClass = Class(NoName, NoName, NoName, NoName, FALSE)
    BY Zenon DEF NoClass, NoName
  <2> QED BY <1>1, <2>1 DEF RaisesAlarm, IsAlarm, Class
<1>4. ASSUME NEW message, NEW category
      PROVE  RaisesAlarm(Info(message, category)) /\ RaisesAlarm(Warning(message, category))
  BY DEF RaisesAlarm, IsAlarm, IsClass, Info, Warning, Grave, Class
<1>5. ASSUME NEW message, NEW category, NEW severity, NEW risk,
             risk \in {"HIGH", "CRITICAL"} \/ severity # "critical"
      PROVE  RaisesAlarm(Grave(message, category, severity, risk))
  BY <1>1, <1>5 DEF RaisesAlarm, IsAlarm, Grave, Class
<1> QED BY <1>2, <1>3, <1>4, <1>5

(* A class stays one when the row has an alert too. *)
LEMMA RowAddsAlert ==
    ASSUME NEW class, RaisesAlarm(class), NEW alert
    PROVE  /\ RaisesAlarm([class EXCEPT !.alert = @ \/ alert])
           /\ [class EXCEPT !.alert = @ \/ alert].message = class.message
BY DEF RaisesAlarm, IsAlarm, IsClass

(* A switch of classes that raise their alarms. *)
RaiseAlarms(cases) ==
    Len(cases) \in Nat /\ \A i \in 1 .. Len(cases) : RaisesAlarm(cases[i][2])

LEMMA SwitchRaisesAlarm ==
    ASSUME NEW cases, RaiseAlarms(cases), NEW default, RaisesAlarm(default)
    PROVE  RaisesAlarm(FirstMatch(cases, default))
BY FirstMatchChooses DEF RaiseAlarms

LEMMA ShortSwitchRaisesAlarm ==
    ASSUME NEW cases, Len(cases) \in Nat, NEW default, RaisesAlarm(default),
           \A i \in 1 .. Len(cases) : RaisesAlarm(cases[i][2])
    PROVE  RaisesAlarm(FirstMatch(cases, default))
BY FirstMatchChooses

(* The tables of the GDS. *)
LEMMA FacadeRaisesAlarm == ASSUME NEW name PROVE RaisesAlarm(FacadeClass(name))
BY MildClasses DEF FacadeClass

LEMMA ContractRaisesAlarm == ASSUME NEW name PROVE RaisesAlarm(ContractClass(name))
BY MildClasses, FacadeRaisesAlarm DEF ContractClass

LEMMA ControlPlaneRaisesAlarm == ASSUME NEW action PROVE RaisesAlarm(ControlPlaneClass(action))
BY MildClasses DEF ControlPlaneClass

LEMMA HealthRaisesAlarm ==
    /\ RaisesAlarm(DatabaseLost) /\ RaisesAlarm(Started)
    /\ \A row : RaisesAlarm(HealthClass(row))
BY MildClasses DEF DatabaseLost, Started, HealthClass

LEMMA TypeRaisesAlarm == ASSUME NEW type PROVE RaisesAlarm(ClassOfType(type))
BY MildClasses, HealthRaisesAlarm, ControlPlaneRaisesAlarm
   DEF ClassOfType, EnrollmentFailed, TrustListPullFailed, CertificateExpired, Unauthorized

LEMMA NamedRaiseAlarm ==
    /\ RaisesAlarm(Unauthorized) /\ RaisesAlarm(EnrollmentFailed)
    /\ RaisesAlarm(TrustListPullFailed) /\ RaisesAlarm(ClientPullFailed)
    /\ RaisesAlarm(CertificateExpired) /\ RaisesAlarm(Started) /\ RaisesAlarm(DatabaseLost)
    /\ RaisesAlarm(NoClass)
    /\ \A message, category : RaisesAlarm(Info(message, category))
    /\ \A message, category, severity, risk, alert :
          severity # "critical" => RaisesAlarm(Class(message, category, severity, risk, alert))
BY MildClasses, HealthRaisesAlarm
   DEF Unauthorized, EnrollmentFailed, TrustListPullFailed, ClientPullFailed, CertificateExpired

LEMMA HTTPRaisesAlarm == ASSUME NEW http PROVE RaisesAlarm(ClassOfHTTP(http))
<1> DEFINE cases == HTTPCases(http)
<1>1. Len(cases) = 8
  BY DEF HTTPCases
<1>2. /\ cases[1][2] = NoClass
      /\ cases[2][2] = Unauthorized
      /\ cases[3][2] = Info("gds_enrollment_request", "pki_lifecycle")
      /\ cases[4][2] = EnrollmentFailed
  BY DEF HTTPCases
<1>3. /\ cases[5][2] = TrustListPullFailed
      /\ cases[6][2] = ClientPullFailed
      /\ cases[7][2] = Info("gds_client_pull_success", "pki_trust_sync")
      /\ cases[8][2] = Info("gds_client_pull_success", "pki_validation")
  BY DEF HTTPCases
<1> HIDE DEF cases
<1>4. ASSUME NEW i \in 1 .. 8 PROVE RaisesAlarm(cases[i][2])
  <2>1. CASE i \in {1, 2, 3, 4}
    BY <1>2, <2>1, NamedRaiseAlarm
  <2>2. CASE i \in {5, 6, 7, 8}
    BY <1>3, <2>2, NamedRaiseAlarm
  <2> QED BY <2>1, <2>2
<1>5. RaiseAlarms(cases)
  BY <1>1, <1>4 DEF RaiseAlarms
<1>6. RaisesAlarm(FirstMatch(cases, NoClass))
  BY <1>5, NamedRaiseAlarm, SwitchRaisesAlarm
<1> QED BY <1>6 DEF ClassOfHTTP, cases

LEMMA EnrollmentRaisesAlarm == ASSUME NEW words PROVE RaisesAlarm(ClassOfEnrollment(words))
BY NamedRaiseAlarm, ShortSwitchRaisesAlarm DEF ClassOfEnrollment

LEMMA TextRaisesAlarm == ASSUME NEW row PROVE RaisesAlarm(ClassOfText(row))
<1> DEFINE cases == TextCases(row)
<1>1. Len(cases) = 21
  BY DEF TextCases
<1>2. \A i \in {1, 2, 3, 5, 6, 7, 18} : cases[i][2] \in {DatabaseLost, Started}
  BY DEF TextCases
<1>3. \A i \in {8, 12, 13, 14, 15, 17, 19, 20, 21} :
          cases[i][2] \in {Unauthorized, TrustListPullFailed, CertificateExpired, ClientPullFailed}
  BY DEF TextCases
<1>4. /\ cases[4][2] = Info("gds_db_connected", "system_health")
      /\ cases[9][2] = ClassOfEnrollment(row.words)
      /\ cases[10][2] = Info("gds_enrollment_approved", "pki_lifecycle")
      /\ cases[11][2] = Class("gds_trust_list_published", "pki_trust_sync", "info", "MEDIUM", FALSE)
      /\ cases[16][2] = Info("gds_heartbeat", "system_health")
  BY DEF TextCases
<1> HIDE DEF cases
<1>5. ASSUME NEW i \in 1 .. 21 PROVE RaisesAlarm(cases[i][2])
  <2>1. CASE i \in {1, 2, 3, 5, 6, 7, 18} \/ i \in {8, 12, 13, 14, 15, 17, 19, 20, 21}
    BY <1>2, <1>3, <2>1, NamedRaiseAlarm
  <2>2. CASE i \in {4, 9, 10, 11, 16}
    BY <1>4, <2>2, NamedRaiseAlarm, EnrollmentRaisesAlarm
  <2> QED BY <2>1, <2>2
<1>6. RaiseAlarms(cases)
  BY <1>1, <1>5 DEF RaiseAlarms
<1>7. RaisesAlarm(FirstMatch(cases, NoClass))
  BY <1>6, NamedRaiseAlarm, SwitchRaisesAlarm
<1> QED BY <1>7 DEF ClassOfText, cases

LEMMA ActionRaisesAlarm == ASSUME NEW row PROVE RaisesAlarm(ClassOfAction(row))
BY NamedRaiseAlarm, ControlPlaneRaisesAlarm DEF ClassOfAction

LEMMA GDSRaisesAlarm == ASSUME NEW row PROVE RaisesAlarm(ClassifyGDSEvent(row))
BY TypeRaisesAlarm, HTTPRaisesAlarm, TextRaisesAlarm, ActionRaisesAlarm, Zenon
   DEF ClassifyGDSEvent, Either

(* The tables of the jump host, the gateway and Vault. *)
LEMMA JumphostRaisesAlarm ==
    ASSUME NEW row
    PROVE  /\ RaisesAlarm(ClassifyJumphost(row))
           /\ ClassifyJumphost(row).message = MessageOfRow(row)
<1>1. ASSUME NEW message, NEW category
      PROVE  RiskForJumphost(message, category, "critical") = "CRITICAL"
  <2>1. ASSUME NEW c2, NEW c3, NEW v2, NEW v3, NEW default
        PROVE  FirstMatch(<< <<TRUE, "CRITICAL">>, <<c2, v2>>, <<c3, v3>> >>, default) = "CRITICAL"
    <3> DEFINE cases == << <<TRUE, "CRITICAL">>, <<c2, v2>>, <<c3, v3>> >>
    <3>1. Len(cases) = 3 /\ cases[1][1] /\ cases[1][2] = "CRITICAL"
      OBVIOUS
    <3> HIDE DEF cases
    <3>2. FirstMatch(cases, default) = "CRITICAL"
      BY <3>1, FirstMatchChooses
    <3> QED BY <3>2 DEF cases
  <2>2. (message = "jump_unauthorized_zone_access" \/ "critical" = "critical") = TRUE
    OBVIOUS
  <2> DEFINE medium == message \in SecurityMessages \ {"jump_hostkey_mismatch"}
                       \/ "critical" = "warning" \/ category = "security"
  <2>3. RiskForJumphost(message, category, "critical")
          = FirstMatch(<< <<TRUE, "CRITICAL">>, <<medium, "MEDIUM">>,
                          <<"critical" = "error", "HIGH">> >>, "LOW")
    BY <2>2, Zenon DEF RiskForJumphost
  <2> HIDE DEF medium
  <2> QED BY <2>1, <2>3, Zenon
<1>2. ASSUME NEW message, NEW category
      PROVE  JumphostAlert(message, category, "critical")
  BY DEF JumphostAlert
<1>3. ASSUME NEW message, NEW category, NEW severity
      PROVE  LET class == Class(message, category, severity,
                                RiskForJumphost(message, category, severity),
                                JumphostAlert(message, category, severity))
             IN RaisesAlarm(class) /\ class.message = message
  BY <1>1, <1>2 DEF RaisesAlarm, IsAlarm, IsClass, Class
<1> QED BY <1>3 DEF ClassifyJumphost

LEMMA GatewayRaisesAlarm == ASSUME NEW row PROVE RaisesAlarm(ClassifyGateway(row))
<1>1. ASSUME NEW category PROVE RiskForGateway("critical", category) = "HIGH"
  <2>1. ASSUME NEW c2, NEW v2, NEW default
        PROVE  FirstMatch(<< <<TRUE, "HIGH">>, <<c2, v2>> >>, default) = "HIGH"
    <3> DEFINE cases == << <<TRUE, "HIGH">>, <<c2, v2>> >>
    <3>1. Len(cases) = 2 /\ cases[1][1] /\ cases[1][2] = "HIGH"
      OBVIOUS
    <3> HIDE DEF cases
    <3>2. FirstMatch(cases, default) = "HIGH"
      BY <3>1, FirstMatchChooses
    <3> QED BY <3>2 DEF cases
  <2>2. ("critical" \in {"critical", "error"}) = TRUE
    OBVIOUS
  <2> QED BY <2>1, <2>2 DEF RiskForGateway
<1>2. ASSUME NEW message, NEW category PROVE GatewayAlert(message, category, "critical")
  BY DEF GatewayAlert
<1>3. ASSUME NEW message, NEW category, NEW severity
      PROVE  RaisesAlarm(Class(message, category, severity, RiskForGateway(severity, category),
                               GatewayAlert(message, category, severity)))
  BY <1>1, <1>2 DEF RaisesAlarm, IsAlarm, IsClass, Class
<1> QED BY <1>3 DEF ClassifyGateway

LEMMA VaultRaisesAlarm == ASSUME NEW row PROVE RaisesAlarm(ClassifyVaultAudit(row))
<1>1. RaisesAlarm(SecretClass(row.operation)) /\ RaisesAlarm(PolicyViolation)
  BY MildClasses DEF SecretClass, PolicyViolation
<1> DEFINE cases == AuditCases(row)
<1>2. Len(cases) = 17
  BY DEF AuditCases
<1>3. /\ cases[1][2] = NoClass /\ cases[3][2] = PolicyViolation /\ cases[17][2] = PolicyViolation
      /\ cases[16][2] = SecretClass(row.operation)
  BY DEF AuditCases
<1>4. \A i \in {2, 4, 5, 12, 15} : \E message, category, severity, risk :
          /\ cases[i][2] = Grave(message, category, severity, risk)
          /\ risk \in {"HIGH", "CRITICAL"}
  BY DEF AuditCases
<1>5. \A i \in {6, 7, 8, 9, 10, 11, 13, 14} : \E message, category :
          cases[i][2] = Info(message, category)
  BY DEF AuditCases
<1> HIDE DEF cases
<1>6. ASSUME NEW i \in 1 .. 17 PROVE RaisesAlarm(cases[i][2])
  <2>1. CASE i \in {1, 3, 16, 17}
    BY <1>1, <1>3, <2>1, MildClasses
  <2>2. CASE i \in {2, 4, 5, 12, 15}
    BY <1>4, <2>2, MildClasses
  <2>3. CASE i \in {6, 7, 8, 9, 10, 11, 13, 14}
    BY <1>5, <2>3, MildClasses
  <2> QED BY <2>1, <2>2, <2>3
<1>7. RaiseAlarms(cases)
  BY <1>2, <1>6 DEF RaiseAlarms
<1>8. RaisesAlarm(FirstMatch(cases, Info("vault_request", "operator_action")))
  BY <1>7, MildClasses, SwitchRaisesAlarm
<1> QED BY <1>8 DEF ClassifyVaultAudit, cases

(* What a line of sshd means, and that it means this in every form. *)
LineMessage(words) == FirstNonEmpty(MessageFromText(words), UnknownMessage)

(* Where nothing is written, nothing is read. *)
LEMMA NoTextNoMessage == MessageFromText({}) = NoName
<1> SUFFICES ASSUME NEW words, words = {} PROVE MessageFromText(words) = NoName
  OBVIOUS
<1> DEFINE cases == MessageCases(words)
<1>1. Len(cases) = 26
  BY DEF MessageCases
<1>2. /\ ~cases[1][1] /\ ~cases[2][1] /\ ~cases[3][1] /\ ~cases[4][1] /\ ~cases[5][1]
      /\ ~cases[6][1] /\ ~cases[7][1] /\ ~cases[8][1] /\ ~cases[9][1]
  BY DEF MessageCases
<1>3. /\ ~cases[10][1] /\ ~cases[11][1] /\ ~cases[12][1] /\ ~cases[13][1] /\ ~cases[14][1]
      /\ ~cases[15][1] /\ ~cases[16][1] /\ ~cases[17][1] /\ ~cases[18][1]
  BY DEF MessageCases
<1>4. /\ ~cases[19][1] /\ ~cases[20][1] /\ ~cases[21][1] /\ ~cases[22][1] /\ ~cases[23][1]
      /\ ~cases[24][1] /\ ~cases[25][1] /\ ~cases[26][1]
  BY DEF MessageCases
<1> HIDE DEF cases
<1>5. Len(cases) \in Nat /\ \A i \in 1 .. Len(cases) : ~cases[i][1]
  BY <1>1, <1>2, <1>3, <1>4
<1>6. FirstMatch(cases, NoName) = NoName
  BY <1>5, FirstMatchChooses, Zenon
<1> QED BY <1>6 DEF MessageFromText, cases

LEMMA UnknownIsMessage == UnknownMessage # NoName /\ UnknownMessage \in JumphostMessages
<1>1. UnknownMessage # NoName
  BY Zenon DEF UnknownMessage, NoName
<1>2. UnknownMessage \in JumphostMessages
  BY DEF JumphostMessages
<1> QED BY <1>1, <1>2

LEMMA LineMeansSame ==
    ASSUME NEW row, IsSSHLine(row) PROVE MessageOfRow(row) = LineMessage(row.words)
<1> DEFINE text == MessageFromText(row.words)
           parsed == MessageFromText(SSHLine(row))
           named == NormalizeJumphostMessage(
                        FirstNonEmpty(row.message, FirstNonEmpty(row.event, row.action)))
<1>1. CASE row.message = NoName /\ SSHLine(row) \in {{}, row.words}
  <2>1. named = NoName
    BY <1>1, Zenon DEF IsSSHLine, FirstNonEmpty, NormalizeJumphostMessage, NoName
  <2>2. parsed \in {NoName, text}
    BY <1>1, NoTextNoMessage
  <2> QED BY <2>1, <2>2, UnknownIsMessage, Zenon
      DEF LineMessage, MessageOfRow, FirstNonEmpty, NoName
<1>2. CASE row.message = UnknownMessage /\ SSHLine(row) = row.words
  <2>1. named = UnknownMessage
    BY <1>2, UnknownIsMessage, Zenon DEF FirstNonEmpty, NormalizeJumphostMessage, NoName
  <2> QED BY <1>2, <2>1, UnknownIsMessage, Zenon
      DEF LineMessage, MessageOfRow, FirstNonEmpty, NoName
<1> QED BY <1>1, <1>2 DEF IsSSHLine

LEMMA SyslogMeansSame ==
    ASSUME NEW row, NEW q, ~q.json, q.message = LineMessage(row.words), q.words = row.words,
           row.words \cap SSHNeedles # {}
    PROVE  MessageOfRow(q) = LineMessage(row.words)
<1>1. SSHLine(q) = row.words
  BY Zenon DEF SSHLine
<1> QED BY <1>1, UnknownIsMessage, Zenon
    DEF LineMessage, MessageOfRow, FirstNonEmpty, NormalizeJumphostMessage, NoName
-----------------------------------------------------------------------------
(* What EventOf makes of a class and a row before the defaults. *)
Plain(type, class, row, raw, t, n) ==
    [BlankEvent EXCEPT !.timestamp = t, !.received = n,
                       !.type = type, !.ip = Asset[type], !.name = type,
                       !.severity = class.severity, !.category = class.category,
                       !.message = class.message, !.raw = raw, !.words = row.words,
                       !.risk = class.risk, !.alert = class.alert,
                       !.sourcetype = SplunkSourcetypeFor(type),
                       !.hint = "ot_security"]

(* It is an event without an id. *)
LEMMA PlainFields ==
    ASSUME NEW type, NEW class, NEW row, NEW raw, NEW t, NEW n,
           NEW e, e = Plain(type, class, row, raw, t, n)
    PROVE  /\ IsEvent(e) /\ e.id = NoId /\ e.timestamp = t /\ e.received = n /\ e.type = type
           /\ e.ip = Asset[type] /\ e.message = class.message
           /\ e.raw = raw /\ e.category = class.category /\ e.offset = 0
<1>1. DOMAIN e = DOMAIN BlankEvent
  BY DEF Plain
<1>2. BlankEvent = [f \in DOMAIN BlankEvent |-> BlankEvent[f]]
  BY DEF BlankEvent
<1>3. e = [f \in DOMAIN BlankEvent |-> e[f]]
  BY <1>2 DEF Plain
<1>4. /\ e.id = NoId /\ e.timestamp = t /\ e.received = n /\ e.type = type /\ e.high = FALSE
      /\ e.ip = Asset[type] /\ e.message = class.message
      /\ e.raw = raw /\ e.category = class.category /\ e.offset = 0
  BY DEF BlankEvent, Plain
<1> QED BY <1>1, <1>3, <1>4 DEF IsEvent

(* The id of an event tells what the event says. *)
Identified(e) == \E c : e.id = <<e.timestamp, e.type, e.ip, e.message, e.raw, c>>

(* The defaults leave alone what an event tells, and give it an id that tells what it says. *)
LEMMA DefaultsTell ==
    ASSUME NEW e, IsEvent(e), NEW now, NEW d, d = EnsureDefaults(e, now)
    PROVE  /\ d.type = e.type /\ d.message = e.message /\ d.raw = e.raw
           /\ d.risk = e.risk /\ d.alert = e.alert
           /\ d.severity = "critical" <=> e.severity = "critical"
           /\ e.id = NoId => Identified(d)
<1>1. /\ d.type = e.type /\ d.message = e.message /\ d.raw = e.raw
      /\ d.risk = e.risk /\ d.alert = e.alert
      /\ d.severity = DefaultSeverity(e.severity)
  <2>1. HasDefaults(d, e, now)
    BY DefaultsFields
  <2> QED BY <2>1 DEF HasDefaults
<1>2. ASSUME e.id = NoId PROVE Identified(d)
  <2>1. HasDefaults(d, e, now)
    BY DefaultsFields
  <2>2. d.id = <<d.timestamp, d.type, d.ip, d.message, d.raw, DefaultCategory(e.category)>>
    BY <1>2, <2>1 DEF HasDefaults
  <2> QED BY <2>2 DEF Identified
<1>3. (d.severity = "info" /\ e.severity = NoName) \/ d.severity = e.severity
  BY <1>1, Zenon DEF NoName, DefaultSeverity
<1>4. NoName # "critical"
  <2> SUFFICES ASSUME NoName = "critical" PROVE FALSE
    OBVIOUS
  <2> QED BY Zenon DEF NoName
<1> QED BY <1>1, <1>2, <1>3, <1>4

LEMMA ClassTells ==
    ASSUME NEW type, NEW class, NEW row, NEW raw, NEW n,
           NEW e, e = EventOf(type, class, row, raw, n)
    PROVE  /\ e.type = type /\ e.message = class.message /\ e.raw = raw
           /\ e.risk = class.risk /\ e.alert = class.alert
           /\ IsAlarm(e) <=> IsAlarm(class)
           /\ DOMAIN e = DOMAIN BlankEvent
           /\ Identified(e)
<1> DEFINE time == IF row.time = NoTime THEN n ELSE row.time
           b == Plain(type, class, row, raw, time, n)
<1>1. e = EnsureDefaults(b, n)
  BY DEF EventOf, Plain
<1>2. IsEvent(b) /\ b.type = type /\ b.message = class.message /\ b.raw = raw /\ b.id = NoId
  BY PlainFields
<1>3. b.risk = class.risk /\ b.alert = class.alert /\ b.severity = class.severity
  BY DEF Plain, BlankEvent
<1> HIDE DEF b
<1>4. DOMAIN e = DOMAIN BlankEvent
  BY <1>1, <1>2 DEF EnsureDefaults, IsEvent
<1> QED BY <1>1, <1>2, <1>3, <1>4, DefaultsTell DEF IsAlarm

(* A class and a row make an event (EventOf of SourceEvents). *)
LEMMA ClassMakesEvent ==
    ASSUME NEW type, NEW class, NEW row, NEW raw, NEW now \in Nat, now \notin {NoTime, InvalidTime}
    PROVE  MadeOf(row, EventOf(type, class, row, raw, now), EventOf(type, class, row, raw, 1))
<1> DEFINE time(n) == IF row.time = NoTime THEN n ELSE row.time
           b(n) == Plain(type, class, row, raw, time(n), n)
<1>1. ASSUME NEW n
      PROVE  /\ IsEvent(b(n)) /\ b(n).id = NoId /\ b(n).timestamp = time(n)
             /\ b(n).received = n /\ b(n).offset = 0 /\ b(n).type = type
             /\ b(n).ip = Asset[type] /\ b(n).message = class.message
             /\ b(n).raw = raw /\ b(n).category = class.category
  BY PlainFields
<1>2. EventOf(type, class, row, raw, now) = EnsureDefaults(b(now), now)
      /\ EventOf(type, class, row, raw, 1) = EnsureDefaults(b(1), 1)
  BY DEF EventOf, Plain
<1> HIDE DEF b
<1>3. Alike(row, now, b(now), b(1))
  BY <1>1 DEF Alike
<1> QED BY <1>2, <1>3, DefaultsMake

(* A form a row of the GDS comes in: the class and the raw record made of it. Only the
   control plane's drops the alert. *)
FromPlane(row) == FromControlPlane([endpoint |-> "gds"], row)

GDSForm(row, class, raw) ==
    /\ \/ RaisesAlarm(class)
       \/ FromPlane(row) /\ (IsAlarm(class) => class.risk \in {"HIGH", "CRITICAL"})
    /\ \A n : NormalizeGDSEvent(row, n) = EventOf("gds", class, row, raw, n)

(* A form that was found is one there is. *)
LEMMA FormIsThere ==
    ASSUME NEW row, NEW class, NEW raw,
           \/ RaisesAlarm(class)
           \/ FromPlane(row) /\ (IsAlarm(class) => class.risk \in {"HIGH", "CRITICAL"}),
           \A n : NormalizeGDSEvent(row, n) = EventOf("gds", class, row, raw, n)
    PROVE  \E c, x : GDSForm(row, c, x)
<1>1. GDSForm(row, class, raw)
  BY DEF GDSForm
<1> QED BY <1>1, Zenon

(* Every row of the GDS comes in one of the forms. *)
LEMMA GDSForms ==
    ASSUME NEW row PROVE \E class, raw : GDSForm(row, class, raw)
<1> DEFINE facade == [FacadeClass(FirstNonEmpty(FacadeMessage(row), "gds_opcua_method_called"))
                         EXCEPT !.alert = @ \/ row.alert]
           contract == ContractClass(ContractMessage(row))
           said == [contract EXCEPT !.alert = @ \/ row.alert]
           plane == ControlPlaneClass(row.log[2])
           control == [plane EXCEPT !.alert = FALSE]
           health == HealthClass(row)
           class == ClassifyGDSEvent(row)
           original == OriginalGDSRaw(row)
           kept == IF original = NoLog THEN <<row.safe>> ELSE original
           line == <<row.event, <<row.details>>, row.safe>>
           checked == <<health.message, <<>>, row.safe>>
           other == <<EventType(row), MessageText(row), row.safe>>
<1>1. CASE ~row.json
  <2>1. RaisesAlarm(class)
    BY GDSRaisesAlarm
  <2>2. \A n : NormalizeGDSEvent(row, n) = EventOf("gds", class, row, line, n)
    BY <1>1 DEF NormalizeGDSEvent, BuildGDSEvent
  <2> HIDE DEF class, line
  <2> QED BY <2>1, <2>2, FormIsThere
<1>2. CASE row.json /\ IsFacadeEvent(row)
  <2>1. RaisesAlarm(facade)
    BY FacadeRaisesAlarm, RowAddsAlert
  <2> DEFINE raw == <<row.original>>
  <2>2. \A n : NormalizeGDSEvent(row, n) = EventOf("gds", facade, row, raw, n)
    BY <1>2 DEF NormalizeGDSEvent, BuildFacadeEvent
  <2> HIDE DEF facade, raw
  <2> QED BY <2>1, <2>2, FormIsThere
<1>3. CASE ~(~row.json) /\ ~(row.json /\ IsFacadeEvent(row))
  <2>1. CASE contract # NoClass
    <3>1. RaisesAlarm(said)
      BY ContractRaisesAlarm, RowAddsAlert
    <3>2. \A n : NormalizeGDSEvent(row, n) = EventOf("gds", said, row, kept, n)
      BY <1>3, <2>1 DEF NormalizeGDSEvent, BuildContractEvent
    <3> HIDE DEF said, kept
    <3> QED BY <3>1, <3>2, FormIsThere
  <2>2. CASE contract = NoClass /\ IsControlPlane(row)
    <3>1. IsAlarm(control) => control.risk \in {"HIGH", "CRITICAL"}
      <4>1. RaisesAlarm(plane)
        BY ControlPlaneRaisesAlarm
      <4> HIDE DEF plane
      <4> QED BY <4>1 DEF RaisesAlarm, IsAlarm, IsClass
    <3>2. \A n : NormalizeGDSEvent(row, n) = EventOf("gds", control, row, original, n)
      BY <1>3, <2>2 DEF NormalizeGDSEvent, BuildControlPlaneEvent
    <3>3. FromPlane(row)
      BY <1>3, <2>2 DEF FromPlane, FromControlPlane
    <3> HIDE DEF control, original
    <3> QED BY <3>1, <3>2, <3>3, FormIsThere
  <2>3. CASE contract = NoClass /\ ~IsControlPlane(row) /\ health # NoClass
    <3>1. RaisesAlarm(health)
      BY HealthRaisesAlarm
    <3>2. \A n : NormalizeGDSEvent(row, n) = EventOf("gds", health, row, checked, n)
      BY <1>3, <2>3 DEF NormalizeGDSEvent, BuildGDSEvent
    <3> HIDE DEF health, checked
    <3> QED BY <3>1, <3>2, FormIsThere
  <2>4. CASE contract = NoClass /\ ~IsControlPlane(row) /\ health = NoClass
    <3>1. RaisesAlarm(class)
      BY GDSRaisesAlarm
    <3>2. \A n : NormalizeGDSEvent(row, n) = EventOf("gds", class, row, other, n)
      BY <1>3, <2>4 DEF NormalizeGDSEvent, BuildGDSEvent
    <3> HIDE DEF class, other
    <3> QED BY <3>1, <3>2, FormIsThere
  <2> QED BY <2>1, <2>2, <2>3, <2>4
<1> QED BY <1>1, <1>2, <1>3

(* A GDS row makes an event, in whichever of its forms it comes. *)
LEMMA GDSMakesEvent ==
    ASSUME NEW row, NEW now \in Nat, now \notin {NoTime, InvalidTime}
    PROVE  MadeOf(row, NormalizeGDSEvent(row, now), NormalizeGDSEvent(row, 1))
<1>1. PICK class, raw : GDSForm(row, class, raw)
  BY GDSForms
<1> QED BY <1>1, ClassMakesEvent DEF GDSForm

(* So does a row of the jump host, *)
LEMMA JumphostMakesEvent ==
    ASSUME NEW row, NEW now \in Nat, now \notin {NoTime, InvalidTime}
    PROVE  MadeOf(row, NormalizeJumphostEvent(row, now), NormalizeJumphostEvent(row, 1))
<1>1. ASSUME NEW e, NEW first, MadeOf(row, e, first), NEW high \in BOOLEAN
      PROVE  MadeOf(row, [e EXCEPT !.high = high], [first EXCEPT !.high = high])
  <2>1. /\ IsEvent([e EXCEPT !.high = high]) /\ [e EXCEPT !.high = high].id = e.id
        /\ [e EXCEPT !.high = high].timestamp = e.timestamp
        /\ [e EXCEPT !.high = high].received = e.received
        /\ [e EXCEPT !.high = high].offset = e.offset
    BY <1>1 DEF MadeOf, Made, IsEvent, BlankEvent
  <2>2. /\ [first EXCEPT !.high = high].id = first.id
        /\ [first EXCEPT !.high = high].timestamp = first.timestamp
    OBVIOUS
  <2> QED BY <1>1, <2>1, <2>2 DEF MadeOf, Made, IsValid, Zoned
<1> DEFINE class == ClassifyJumphost(row)
           e(n) == EventOf("jumphost", [class EXCEPT !.alert = @ \/ row.alert], row,
                           <<row.details>>, n)
<1>2. MadeOf(row, e(now), e(1))
  BY ClassMakesEvent
<1> DEFINE high == class.message \in HighValueMessages
<1>3. /\ \A n : NormalizeJumphostEvent(row, n) = [e(n) EXCEPT !.high = high]
      /\ high \in BOOLEAN
  BY DEF NormalizeJumphostEvent
<1> HIDE DEF e, class, high
<1> QED BY <1>1, <1>2, <1>3

(* What a line of the firewall and an alert of the IDS are before the defaults. *)
Firewalled(row, n) ==
    [BlankEvent EXCEPT !.timestamp = n, !.received = n, !.type = "firewall",
                       !.ip = "192.168.10.254", !.name = "firewall", !.severity = "warning",
                       !.category = "security", !.raw = <<row.details>>, !.words = row.words]

Alerted(level, row, time, n) ==
    [BlankEvent EXCEPT !.timestamp = time, !.received = n, !.type = "ids", !.name = "suricata",
                       !.severity = level, !.category = "security", !.message = row.message,
                       !.raw = <<row.details>>]

LEMMA FirewalledFields ==
    ASSUME NEW row, NEW n, NEW b, b = Firewalled(row, n)
    PROVE  /\ IsEvent(b) /\ b.id = NoId /\ b.timestamp = n /\ b.received = n /\ b.offset = 0
           /\ b.type = "firewall" /\ b.severity = "warning"
<1>1. /\ DOMAIN b = DOMAIN BlankEvent /\ b.high = FALSE
      /\ b.id = NoId /\ b.timestamp = n /\ b.received = n /\ b.offset = 0
      /\ b.type = "firewall" /\ b.severity = "warning"
  BY DEF BlankEvent, Firewalled
<1>2. BlankEvent = [f \in DOMAIN BlankEvent |-> BlankEvent[f]]
  BY DEF BlankEvent
<1>3. b = [f \in DOMAIN BlankEvent |-> b[f]]
  BY <1>2 DEF Firewalled
<1> QED BY <1>1, <1>3 DEF IsEvent

LEMMA AlertedFields ==
    ASSUME NEW level, NEW row, NEW time, NEW n, NEW b, b = Alerted(level, row, time, n)
    PROVE  /\ IsEvent(b) /\ b.id = NoId /\ b.timestamp = time /\ b.received = n /\ b.offset = 0
           /\ b.type = "ids" /\ b.ip = BlankEvent.ip /\ b.message = row.message
           /\ b.raw = <<row.details>> /\ b.category = "security" /\ b.risk = BlankEvent.risk
<1>1. /\ DOMAIN b = DOMAIN BlankEvent /\ b.high = FALSE
      /\ b.id = NoId /\ b.timestamp = time /\ b.received = n /\ b.offset = 0
  BY DEF BlankEvent, Alerted
<1>2. /\ b.type = "ids" /\ b.message = row.message
      /\ b.raw = <<row.details>> /\ b.category = "security"
  BY DEF BlankEvent, Alerted
<1>3. b.ip = BlankEvent.ip /\ b.risk = BlankEvent.risk
  BY DEF Alerted
<1>4. BlankEvent = [f \in DOMAIN BlankEvent |-> BlankEvent[f]]
  BY DEF BlankEvent
<1>5. b = [f \in DOMAIN BlankEvent |-> b[f]]
  BY <1>4 DEF Alerted
<1> QED BY <1>1, <1>2, <1>3, <1>5 DEF IsEvent

(* a line of syslog, *)
LEMMA SyslogMakesEvent ==
    ASSUME NEW row, NEW now \in Nat, now \notin {NoTime, InvalidTime}
    PROVE  Made(NormalizeSyslogLine(row, now), NormalizeSyslogLine(row, 1))
<1>1. Made(NormalizeFirewall(row, now), NormalizeFirewall(row, 1))
  <2> DEFINE b(n) == Firewalled(row, n)
  <2>1. ASSUME NEW n
        PROVE  IsEvent(b(n)) /\ b(n).timestamp = n /\ b(n).received = n /\ b(n).offset = 0
    BY FirewalledFields
  <2>2. /\ NormalizeFirewall(row, now) = EnsureDefaults(b(now), now)
        /\ NormalizeFirewall(row, 1) = EnsureDefaults(b(1), 1)
    BY DEF NormalizeFirewall, Firewalled
  <2> HIDE DEF b
  <2>3. ASSUME NEW n, n # NoTime
        PROVE  LET d == EnsureDefaults(b(n), n) IN
               IsEvent(d) /\ d.id # NoId /\ d.timestamp = n /\ d.received = n /\ d.offset = 0
    BY <2>1, <2>3, DefaultsIdentify
  <2>4. 1 # NoTime /\ 1 # InvalidTime
    BY DEF NoTime, InvalidTime
  <2>5. Zoned(EnsureDefaults(b(now), now))
    BY <2>3 DEF Zoned
  <2> QED BY <2>2, <2>3, <2>4, <2>5 DEF Made, IsValid
<1>2. ASSUME NEW q PROVE Made(NormalizeJumphostEvent(q, now), NormalizeJumphostEvent(q, 1))
  BY JumphostMakesEvent DEF MadeOf
<1> QED BY <1>1, <1>2 DEF NormalizeSyslogLine

(* The severity of an alert and the time it is given. *)
LevelOf(row) == CASE row.level <= 1 -> "critical"
                  [] row.level = 2 -> "error"
                  [] OTHER -> "warning"
TimeOf(row, n) == IF row.time = NoTime THEN n ELSE row.time

LEMMA AlertIsAlerted ==
    ASSUME NEW row, NEW n
    PROVE  NormalizeIDSAlert(row, n)
              = EnsureDefaults(Alerted(LevelOf(row), row, TimeOf(row, n), n), n)
BY DEF NormalizeIDSAlert, Alerted, LevelOf, TimeOf

(* and an alert of the IDS. *)
LEMMA AlertMakesEvent ==
    ASSUME NEW row, NEW now \in Nat, now \notin {NoTime, InvalidTime}
    PROVE  MadeOf(row, NormalizeIDSAlert(row, now), NormalizeIDSAlert(row, 1))
<1> DEFINE b(n) == Alerted(LevelOf(row), row, TimeOf(row, n), n)
<1>1. ASSUME NEW n
      PROVE  /\ IsEvent(b(n)) /\ b(n).id = NoId /\ b(n).timestamp = TimeOf(row, n)
             /\ b(n).received = n /\ b(n).offset = 0
             /\ b(n).type = "ids" /\ b(n).ip = BlankEvent.ip /\ b(n).message = row.message
             /\ b(n).raw = <<row.details>> /\ b(n).category = "security"
  BY AlertedFields
<1>2. /\ NormalizeIDSAlert(row, now) = EnsureDefaults(b(now), now)
      /\ NormalizeIDSAlert(row, 1) = EnsureDefaults(b(1), 1)
  BY AlertIsAlerted
<1> HIDE DEF b
<1>3. Alike(row, now, b(now), b(1))
  <2> DEFINE x == b(now)
             y == b(1)
  <2>1. /\ IsEvent(x) /\ x.id = NoId /\ x.timestamp = TimeOf(row, now) /\ x.received = now
        /\ x.offset = 0 /\ x.type = "ids" /\ x.ip = BlankEvent.ip /\ x.message = row.message
        /\ x.raw = <<row.details>> /\ x.category = "security"
    BY <1>1, Zenon
  <2>2. /\ IsEvent(y) /\ y.id = NoId /\ y.timestamp = TimeOf(row, 1)
        /\ y.type = "ids" /\ y.ip = BlankEvent.ip /\ y.message = row.message
        /\ y.raw = <<row.details>> /\ y.category = "security"
    BY <1>1, Zenon
  <2> HIDE DEF x, y
  <2>3. Alike(row, now, x, y)
    BY <2>1, <2>2 DEF Alike, TimeOf
  <2> QED BY <2>3 DEF x, y
<1> QED BY <1>2, <1>3, DefaultsMake

-----------------------------------------------------------------------------
(* the id of a row that has one or a time, whenever it is normalized *)
RowId(endpoint, row) == Normalize(endpoint, row, 1).id

(* x.event is the event of x.row, except for what ingestOne did to it *)
MadeFor(endpoint, x) ==
    /\ Made(x.event, Normalize(endpoint, x.row, 1))
    /\ Dated(x.row) => x.event.id = RowId(endpoint, x.row)

(* Every normalizer makes an event of a row it is given, with the id of the row. *)
LEMMA RowMakesEvent ==
    ASSUME NEW d \in Deliveries, NEW i \in DOMAIN Kept(d),
           NEW now \in Nat, now \notin {NoTime, InvalidTime},
           NEW e, e = Normalize(d.endpoint, Kept(d)[i], now)
    PROVE  /\ Made(e, Normalize(d.endpoint, Kept(d)[i], 1))
           /\ Dated(Kept(d)[i]) => e.id = RowId(d.endpoint, Kept(d)[i])
<1> DEFINE row == Kept(d)[i]
<1>1. PICK k \in DOMAIN d.rows : row = d.rows[k]
  <2>1. Kept(d) \in Seq(Range(d.rows))
    BY DeliveriesAssumption
  <2>2. Kept(d)[i] \in Range(d.rows)
    BY <2>1, ElementOfSeq
  <2> QED BY <2>2 DEF Range
<1>2. CASE d.endpoint = "events"
  <2>1. /\ IsEvent(row) /\ row.received \in Nat \cup {InvalidTime}
        /\ IF row.received \in {NoTime, InvalidTime} THEN row.offset = 0
           ELSE row.offset \in Int /\ row.received + row.offset \in Nat
    BY <1>1, <1>2, DeliveriesAssumption
  <2> DEFINE p == [row EXCEPT !.type = NormalizeSourceType(@)]
             first == Normalize(d.endpoint, row, 1)
  <2>2. IsEvent(p) /\ "time" \notin DOMAIN row
    BY <2>1 DEF IsEvent, BlankEvent
  <2>3. /\ p.id = row.id /\ p.timestamp = row.timestamp
        /\ p.received = row.received /\ p.offset = row.offset
    BY <2>1 DEF IsEvent, BlankEvent
  <2>4. e = EnsureDefaults(p, now) /\ first = EnsureDefaults(p, 1)
    BY <1>2 DEF Normalize, ParseOne
  <2> HIDE DEF p, row, first
  <2>5. /\ IsEvent(e) /\ e.id # NoId
        /\ e.timestamp = IF p.timestamp = NoTime THEN now ELSE p.timestamp
        /\ e.received = IF p.received = NoTime THEN now ELSE p.received
        /\ e.offset = p.offset
    BY <2>2, <2>4, DefaultsIdentify
  <2>6. first.timestamp = IF p.timestamp = NoTime THEN 1 ELSE p.timestamp
    BY <2>2, <2>4, DefaultsIdentify DEF NoTime
  <2>7. Made(e, first)
    <3>1. Zoned(e) /\ e.received # NoTime
      BY <2>1, <2>3, <2>5 DEF row, Zoned, NoTime, InvalidTime
    <3> QED BY <2>5, <2>6, <3>1 DEF Made, IsValid, NoTime, InvalidTime
  <2>8. p.id # NoId \/ p.timestamp # NoTime
            => EnsureDefaults(p, now).id = EnsureDefaults(p, 1).id
    BY <2>2, DefaultsId
  <2>9. Dated(row) => e.id = first.id
    BY <2>2, <2>3, <2>4, <2>8 DEF Dated
  <2> QED BY <2>7, <2>9 DEF row, first, RowId
<1>3. CASE d.endpoint # "events"
  <2>0. "time" \in DOMAIN row
    BY <1>1, <1>3, DeliveriesAssumption DEF BlankRow
  <2> SUFFICES MadeOf(row, e, Normalize(d.endpoint, row, 1))
    BY <2>0 DEF MadeOf, Dated, RowId
  <2>1. CASE d.endpoint = "gds"
    BY <2>1, GDSMakesEvent DEF Normalize
  <2>2. CASE d.endpoint = "opcua"
    BY <2>2, ClassMakesEvent DEF Normalize, NormalizeOPCUADMZEvent
  <2>3. CASE d.endpoint = "jumphost"
    BY <2>3, JumphostMakesEvent DEF Normalize
  <2>4. CASE d.endpoint = "vault"
    BY <2>4, ClassMakesEvent DEF Normalize, NormalizeVaultAudit
  <2>5. CASE d.endpoint = "ids"
    BY <2>5, AlertMakesEvent DEF Normalize
  <2>6. CASE d.endpoint = "syslog"
    <3>1. row.time = NoTime
      BY <1>1, <2>6, DeliveriesAssumption
    <3>2. Made(e, Normalize(d.endpoint, row, 1))
      BY <2>6, SyslogMakesEvent DEF Normalize
    <3> QED BY <3>1, <3>2 DEF MadeOf
  <2> QED BY <1>3, <2>1, <2>2, <2>3, <2>4, <2>5, <2>6, DeliveriesAssumption
<1> QED BY <1>2, <1>3

(* A body is decoded to a sequence of events. *)
LEMMA BodyMakesEvents ==
    ASSUME NEW d \in Deliveries, NEW now \in Nat, now \notin {NoTime, InvalidTime}
    PROVE  \E S : Decode(d, now) \in Seq(S) /\ \A x \in S : Decoded(x)
<1>1. DOMAIN Kept(d) = 1 .. Len(Kept(d)) /\ Len(Kept(d)) \in Nat
  BY DeliveriesAssumption
<1> DEFINE X(i) == [row |-> Kept(d)[i], event |-> Normalize(d.endpoint, Kept(d)[i], now)]
           S == {X(i) : i \in DOMAIN Kept(d)}
<1>2. ASSUME NEW i \in DOMAIN Kept(d) PROVE Decoded(X(i))
  BY RowMakesEvent DEF Decoded, Made
<1>3. Decode(d, now) = [i \in 1 .. Len(Kept(d)) |-> X(i)]
  BY <1>1 DEF Decode
<1> HIDE DEF X
<1>4. Decode(d, now) \in Seq(S)
  BY <1>1, <1>3
<1> QED BY <1>2, <1>4

(* A body that is sent is in the hands of its sender until it is answered. *)
LEMMA DeliveryKeepsFile ==
    ASSUME FileIsSettled, NEW s \in Senders, NEW d \in Deliveries, Deliver(s, d)
    PROVE  FileIsSettled'
<1>1. Now \in Nat /\ Now \notin {NoTime, InvalidTime}
  BY NowIsTime DEF FileIsSettled
<1>2. /\ pc' = [t \in Senders |-> pc'[t]]
      /\ post' = [t \in Senders |-> post'[t]]
      /\ todo' = [t \in Senders |-> todo'[t]]
  BY DEF FileIsSettled, Deliver, Goto
<1>3. ASSUME NEW t \in Senders
      PROVE  /\ pc'[t] # "idle" => post'[t] \in Deliveries
             /\ pc'[t] = "count" => todo'[t] # <<>>
  BY DEF FileIsSettled, Deliver, Goto
<1>4. ASSUME NEW t \in Senders PROVE \E S : todo'[t] \in Seq(S) /\ \A x \in S : Decoded(x)
  <2>1. CASE t # s
    BY <2>1 DEF FileIsSettled, Deliver
  <2>2. CASE t = s /\ Refused(d)
    <3>1. todo'[t] = <<>> /\ <<>> \in Seq({})
      BY <2>2 DEF FileIsSettled, Deliver
    <3> QED BY <3>1
  <2>3. CASE t = s /\ ~Refused(d)
    <3>1. todo'[t] = Decode(d, Now)
      BY <2>3 DEF FileIsSettled, Deliver
    <3> QED BY <3>1, <1>1, BodyMakesEvents
  <2> QED BY <2>1, <2>2, <2>3
<1>5. instant' = instant /\ stored' = stored
  BY DEF Deliver
<1> QED BY <1>2, <1>3, <1>4, <1>5 DEF FileIsSettled

(* What ingestOne stores is settled. *)
LEMMA IngestKeepsFile ==
    ASSUME FileIsSettled, NEW s \in Senders, Ingest(s) PROVE FileIsSettled'
<1> DEFINE e == Accepted(Head(todo[s]).event, Now)
<1>1. PICK S : todo[s] \in Seq(S) /\ \A x \in S : Decoded(x)
  BY DEF FileIsSettled
<1>2. todo[s] # <<>> /\ instant' = instant /\ post' = post
  BY DEF Ingest, Ingesting
<1>3. Head(todo[s]) \in S /\ Tail(todo[s]) \in Seq(S) /\ Decoded(Head(todo[s]))
  BY <1>1, <1>2
<1>4. Settled(e)
  <2>1. IsEvent(Head(todo[s]).event)
    BY <1>3 DEF Decoded
  <2>2. Now \notin {NoTime, InvalidTime}
    BY NowIsTime DEF FileIsSettled
  <2> QED BY <2>1, <2>2, AcceptedIsSettled
<1>5. /\ pc' = [t \in Senders |-> pc'[t]]
      /\ post' = [t \in Senders |-> post'[t]]
      /\ todo' = [t \in Senders |-> todo'[t]]
  BY DEF FileIsSettled, Ingest, Ingesting, Goto
<1>6. ASSUME NEW t \in Senders
      PROVE  /\ pc'[t] # "idle" => post'[t] \in Deliveries
             /\ pc'[t] = "count" => todo'[t] # <<>>
  <2>1. CASE t # s
    BY <2>1 DEF FileIsSettled, Ingest, Ingesting, Goto
  <2>2. CASE t = s /\ pc' = pc
    BY <2>2 DEF FileIsSettled, Ingest, Ingesting
  <2>3. CASE t = s /\ pc' # pc
    <3>1. pc'[s] = "count" /\ todo' = [todo EXCEPT ![s][1].event = e]
      BY <2>3 DEF FileIsSettled, Ingest, Ingesting, Goto
    <3>2. todo'[s] = [todo[s] EXCEPT ![1].event = e]
      BY <3>1 DEF FileIsSettled
    <3>3. todo'[s] # <<>>
      BY <3>2, <1>1, <1>2
    <3> QED BY <2>3, <3>3 DEF FileIsSettled, Ingest, Ingesting
  <2> QED BY <2>1, <2>2, <2>3
<1>7. ASSUME NEW t \in Senders PROVE \E R : todo'[t] \in Seq(R) /\ \A x \in R : Decoded(x)
  <2>1. CASE t # s
    <3>1. todo'[t] = todo[t]
      BY <2>1 DEF FileIsSettled, Ingest, Ingesting
    <3> QED BY <3>1 DEF FileIsSettled
  <2>2. CASE todo'[s] = Tail(todo[s]) /\ t = s
    BY <2>2, <1>1, <1>3
  <2>3. CASE todo' = [todo EXCEPT ![s][1].event = e] /\ t = s
    <3> DEFINE x == [Head(todo[s]) EXCEPT !.event = e]
    <3>1. Decoded(x)
      <4>1. IsEvent(e)
        BY <1>4 DEF Settled, Complete
      <4> HIDE DEF e
      <4>2. x = [row |-> Head(todo[s]).row, event |-> e]
        BY <1>3 DEF Decoded
      <4> QED BY <4>1, <4>2 DEF Decoded
    <3>2. todo'[t] = [todo[s] EXCEPT ![1] = x]
      BY <2>3, <1>1, <1>2 DEF FileIsSettled
    <3> HIDE DEF x
    <3>3. todo'[t] \in Seq(S \cup {x})
      BY <3>2, <1>1, <1>2
    <3> QED BY <3>1, <3>3, <1>1
  <2>4. todo'[s] = Tail(todo[s]) \/ todo' = [todo EXCEPT ![s][1].event = e]
    BY DEF FileIsSettled, Ingest, Ingesting
  <2> QED BY <2>1, <2>2, <2>3, <2>4
<1>8. \E R : stored' \in Seq(R) /\ \A x \in R : Settled(x.event)
  <2>1. PICK R : stored \in Seq(R) /\ \A x \in R : Settled(x.event)
    BY DEF FileIsSettled
  <2>2. CASE stored' = stored
    BY <2>1, <2>2
  <2>3. CASE stored' # stored
    <3> DEFINE x == [endpoint |-> post[s].endpoint, row |-> Head(todo[s]).row, event |-> e]
    <3>1. stored' = Append(stored, x)
      BY <2>3 DEF Ingest, Ingesting
    <3>2. Settled(x.event)
      BY <1>4
    <3> HIDE DEF x
    <3>3. stored' \in Seq(R \cup {x})
      BY <2>1, <3>1
    <3> QED BY <2>1, <3>2, <3>3
  <2> QED BY <2>2, <2>3
<1> HIDE DEF e
<1> QED BY <1>2, <1>5, <1>6, <1>7, <1>8 DEF FileIsSettled

(* The steps that store nothing. *)
LEMMA OthersKeepFile ==
    ASSUME FileIsSettled, NEW s \in Senders, AnswerArrives(s) \/ Count(s) \/ AnswerPost(s)
    PROVE  FileIsSettled'
<1>1. /\ pc' = [t \in Senders |-> pc'[t]]
      /\ post' = [t \in Senders |-> post'[t]]
      /\ todo' = [t \in Senders |-> todo'[t]]
      /\ instant' = instant /\ stored' = stored
  BY DEF FileIsSettled, AnswerArrives, Count, AnswerPost, Goto
<1>2. ASSUME NEW t \in Senders
      PROVE  /\ pc'[t] # "idle" => post'[t] \in Deliveries
             /\ pc'[t] = "count" => todo'[t] # <<>>
  <2>1. CASE AnswerArrives(s)
    BY <2>1 DEF FileIsSettled, AnswerArrives, Goto
  <2>2. CASE Count(s)
    BY <2>2 DEF FileIsSettled, Count, Goto
  <2>3. CASE AnswerPost(s)
    BY <2>3 DEF FileIsSettled, AnswerPost, Goto
  <2> QED BY <2>1, <2>2, <2>3
<1>3. ASSUME NEW t \in Senders PROVE \E S : todo'[t] \in Seq(S) /\ \A x \in S : Decoded(x)
  <2>1. PICK S : todo[t] \in Seq(S) /\ \A x \in S : Decoded(x)
    BY DEF FileIsSettled
  <2>2. todo'[t] = todo[t] \/ (todo[t] # <<>> /\ todo'[t] = Tail(todo[t]))
    <3>1. CASE AnswerArrives(s) \/ AnswerPost(s)
      BY <3>1 DEF AnswerArrives, AnswerPost
    <3>2. CASE Count(s)
      BY <3>2 DEF FileIsSettled, Count
    <3> QED BY <3>1, <3>2
  <2>3. todo[t] # <<>> => Tail(todo[t]) \in Seq(S)
    BY <2>1
  <2>4. todo'[t] \in Seq(S)
    BY <2>1, <2>2, <2>3
  <2> QED BY <2>1, <2>4
<1> QED BY <1>1, <1>2, <1>3 DEF FileIsSettled

(* FileIsSettled is inductive: no step of anybody loses it. *)
THEOREM FileStaysSettled == Spec => []FileIsSettled
<1>1. Init => FileIsSettled
  <2> SUFFICES ASSUME Init PROVE FileIsSettled
    OBVIOUS
  <2>1. instant \in DOMAIN Instants
    BY InstantsAssumption DEF Init
  <2>2. <<>> \in Seq({})
    OBVIOUS
  <2>3. \A s \in Senders : pc[s] = "idle" /\ todo[s] = <<>>
    BY DEF Init
  <2>4. /\ pc = [s \in Senders |-> pc[s]]
        /\ post = [s \in Senders |-> post[s]]
        /\ todo = [s \in Senders |-> todo[s]]
        /\ stored = <<>>
    BY DEF Init
  <2>5. \A s \in Senders : \E S : todo[s] \in Seq(S) /\ \A x \in S : Decoded(x)
    <3> SUFFICES ASSUME NEW s \in Senders
                 PROVE  \E S : todo[s] \in Seq(S) /\ \A x \in S : Decoded(x)
      OBVIOUS
    <3>1. todo[s] \in Seq({})
      BY <2>2, <2>3
    <3> WITNESS {}
    <3> QED BY <3>1
  <2>6. \E S : stored \in Seq(S) /\ \A x \in S : Settled(x.event)
    <3>1. stored \in Seq({})
      BY <2>2, <2>4
    <3> WITNESS {}
    <3> QED BY <3>1
  <2> QED BY <2>1, <2>3, <2>4, <2>5, <2>6 DEF FileIsSettled
<1>2. FileIsSettled /\ [Next]_vars => FileIsSettled'
  <2> SUFFICES ASSUME FileIsSettled, [Next]_vars PROVE FileIsSettled'
    OBVIOUS
  <2>1. ASSUME NEW s \in Senders, Send(s) PROVE FileIsSettled'
    BY <2>1, DeliveryKeepsFile DEF Send
  <2>2. ASSUME NEW s \in Senders, SendAgain(s) PROVE FileIsSettled'
    <3>1. post[s] \in Deliveries
      BY <2>2 DEF SendAgain, FileIsSettled
    <3> QED BY <2>2, <3>1, DeliveryKeepsFile DEF SendAgain
  <2>3. ASSUME NEW s \in Senders, Ingest(s) PROVE FileIsSettled'
    BY <2>3, IngestKeepsFile
  <2>4. ASSUME NEW s \in Senders, AnswerArrives(s) \/ Count(s) \/ AnswerPost(s)
        PROVE  FileIsSettled'
    BY <2>4, OthersKeepFile
  <2>5. CASE ReadSummary \/ ReadTotal \/ ReadCritical
    BY <2>5 DEF ReadSummary, ReadTotal, ReadCritical, FileIsSettled, senderVars
  <2>6. CASE Tick
    <3>1. instant' \in DOMAIN Instants
      BY <2>6, InstantsAssumption DEF Tick, FileIsSettled
    <3> QED BY <2>6, <3>1 DEF Tick, FileIsSettled, senderVars
  <2>7. CASE UNCHANGED vars
    BY <2>7 DEF vars, senderVars, FileIsSettled
  <2> QED BY <2>1, <2>2, <2>3, <2>4, <2>5, <2>6, <2>7 DEF Next
<1> QED BY <1>1, <1>2, PTL DEF Spec

(* What is stored is stable: reading it back, at a start or at another collector,
   and normalizing and enriching it again gives the same event, with "info" and
   "unknown" for a severity and a category that were trimmed to nothing. *)
THEOREM StoredStaysStable == Spec => []StoredIsStable
<1>1. FileIsSettled => StoredIsStable
  <2> SUFFICES ASSUME FileIsSettled, NEW i \in DOMAIN stored
               PROVE  Accepted(ParseOne(stored[i].event, 1), 1) = ReadBack(stored[i].event)
    BY DEF StoredIsStable, StoredEvents, ReadBack
  <2>1. Settled(stored[i].event)
    BY DEF FileIsSettled
  <2> QED BY <2>1, StoredComesBack
<1> QED BY <1>1, FileStaysSettled, PTL
-----------------------------------------------------------------------------
(***************************************************************************)
(* What becomes of each row: the rows that are dealt with, those that wait *)
(* and the events in the file belong together, by their ids.               *)
(***************************************************************************)
(* the row has its event in a file with these ids, unless it is not valid or has no id
   to know it by *)
Filed(endpoint, row, ids) ==
    Dated(row) /\ IsValid(Normalize(endpoint, row, 1)) => RowId(endpoint, row) \in ids

Dealt(s) == Len(Kept(post[s])) - Len(todo[s])

(* of the body s is busy with, the first rows are dealt with and the others wait in order *)
Tracked(s) ==
    /\ post[s] \in Deliveries
    /\ Dealt(s) \in Nat
    /\ tally[s].accepted + tally[s].rejected + tally[s].known = Dealt(s)
    /\ \A k \in DOMAIN todo[s] : /\ todo[s][k].row = Kept(post[s])[Dealt(s) + k]
                                 /\ MadeFor(post[s].endpoint, todo[s][k])
    /\ \A i \in 1 .. Dealt(s) : Filed(post[s].endpoint, Kept(post[s])[i], seenIDs)

RowsAreTracked ==
    /\ tally \in [Senders -> [accepted : Nat, rejected : Nat, known : Nat]]
    /\ \A s \in Senders :
          /\ pc[s] \in {"idle", "refused", "ingest", "count", "answered"}
          /\ pc[s] \in {"idle", "refused", "answered"} => todo[s] = <<>>
          /\ pc[s] = "idle" => post[s] = NoPost
          /\ pc[s] \in {"ingest", "count", "answered"} => Tracked(s)

(* an event that is being counted is in the file, and no other sender counts it *)
CountedOnce ==
    /\ \A s \in Senders : pc[s] = "count" => Head(todo[s]).event \in StoredEvents
    /\ \A s, t \in Senders :
          pc[s] = "count" /\ pc[t] = "count" /\ s # t
              => Head(todo[s]).event.id # Head(todo[t]).event.id

(* each id is in the file once, with the event of a row that was sent *)
FileIsKnown ==
    /\ seenIDs = {e.id : e \in StoredEvents}
    /\ \A i, j \in DOMAIN stored : stored[i].event.id = stored[j].event.id => i = j
    /\ \A i \in DOMAIN stored :
          /\ MadeFor(stored[i].endpoint, stored[i]) /\ stored[i].event.received \in Nat
          /\ \E d \in Deliveries : \E k \in DOMAIN Kept(d) :
                stored[i].endpoint = d.endpoint /\ stored[i].row = Kept(d)[k]

EverythingIsTracked == FileIsSettled /\ RowsAreTracked /\ CountedOnce /\ FileIsKnown

(* The steps of others leave what s is busy with tracked. *)
LEMMA OthersKeepTrack ==
    ASSUME NEW s \in Senders, Tracked(s), post'[s] = post[s], todo'[s] = todo[s],
           tally'[s] = tally[s], seenIDs \subseteq seenIDs'
    PROVE  Tracked(s)'
BY DEF Tracked, Dealt, Filed

(* The rows kept of a body are a sequence. *)
LEMMA KeptIsSeq ==
    ASSUME NEW d \in Deliveries
    PROVE  DOMAIN Kept(d) = 1 .. Len(Kept(d)) /\ Len(Kept(d)) \in Nat
BY DeliveriesAssumption

(* Dealing with the next row keeps track, if its event is in the file then. *)
LEMMA NextRowIsTracked ==
    ASSUME NEW s \in Senders, Tracked(s), NEW S, todo[s] \in Seq(S), todo[s] # <<>>,
           post'[s] = post[s], todo'[s] = Tail(todo[s]), seenIDs \subseteq seenIDs',
           tally'[s].accepted + tally'[s].rejected + tally'[s].known
              = tally[s].accepted + tally[s].rejected + tally[s].known + 1,
           Filed(post[s].endpoint, Head(todo[s]).row, seenIDs')
    PROVE  Tracked(s)'
<1>1. /\ Len(todo'[s]) = Len(todo[s]) - 1 /\ Len(todo[s]) \in Nat
      /\ DOMAIN todo[s] = 1 .. Len(todo[s]) /\ DOMAIN todo'[s] = 1 .. Len(todo[s]) - 1
      /\ \A k \in 1 .. Len(todo[s]) - 1 : todo'[s][k] = todo[s][k + 1]
      /\ Len(todo[s]) >= 1 /\ Head(todo[s]) = todo[s][1]
  BY HeadTailProperties
<1>2. Len(Kept(post[s])) \in Nat
  BY KeptIsSeq DEF Tracked
<1>3. Dealt(s)' = Dealt(s) + 1 /\ Dealt(s) \in Nat
  <2>1. Dealt(s) \in Nat
    BY DEF Tracked
  <2>2. Dealt(s)' = Len(Kept(post[s])) - Len(todo'[s])
    BY DEF Dealt
  <2>3. Dealt(s) = Len(Kept(post[s])) - Len(todo[s])
    BY DEF Dealt
  <2> QED BY <1>1, <1>2, <2>1, <2>2, <2>3
<1>4. ASSUME NEW k \in DOMAIN todo'[s]
      PROVE  /\ todo'[s][k].row = Kept(post[s])[Dealt(s)' + k]
             /\ MadeFor(post[s].endpoint, todo'[s][k])
  <2>1. k + 1 \in DOMAIN todo[s] /\ todo'[s][k] = todo[s][k + 1]
    BY <1>1
  <2>2. Dealt(s)' + k = Dealt(s) + (k + 1)
    BY <1>1, <1>3
  <2> QED BY <2>1, <2>2 DEF Tracked
<1>5. ASSUME NEW i \in 1 .. Dealt(s)'
      PROVE  Filed(post[s].endpoint, Kept(post[s])[i], seenIDs')
  <2>1. CASE i \in 1 .. Dealt(s)
    BY <2>1 DEF Tracked, Filed
  <2>2. CASE i = Dealt(s) + 1
    <3>1. 1 \in DOMAIN todo[s]
      BY <1>1
    <3>2. todo[s][1].row = Kept(post[s])[Dealt(s) + 1]
      BY <3>1 DEF Tracked
    <3>3. Head(todo[s]).row = Kept(post[s])[i]
      BY <1>1, <2>2, <3>2
    <3> QED BY <3>3
  <2> QED BY <1>3, <2>1, <2>2
<1>6. tally'[s].accepted + tally'[s].rejected + tally'[s].known = Dealt(s)'
  BY <1>3 DEF Tracked
<1> QED BY <1>3, <1>4, <1>5, <1>6 DEF Tracked

(* What ingestOne makes of an event: the type is canonical and the time is valid. *)
LEMMA AcceptingChanges ==
    ASSUME NEW e, IsEvent(e), e.id # NoId, e.timestamp # NoTime, e.received # NoTime,
           NEW now, NEW r, r = Accepted(e, now)
    PROVE  /\ IsEvent(r)
           /\ r.id = e.id /\ r.timestamp = e.timestamp /\ r.offset = e.offset /\ r.ip = e.ip
           /\ r.message = e.message /\ r.raw = e.raw /\ r.risk = e.risk /\ r.alert = e.alert
           /\ r.type = NormalizeSourceType(e.type)
           /\ r.received = IF e.received = InvalidTime THEN now ELSE e.received
           /\ r.severity = "critical" <=> e.severity = "critical"
<1> DEFINE t == [e EXCEPT !.type = NormalizeSourceType(@)]
           d == ParseOne(e, now)
           fields == {"id", "timestamp", "offset", "ip", "message", "raw", "risk", "alert", "type"}
<1>1. /\ IsEvent(t) /\ t.type = NormalizeSourceType(e.type)
      /\ t.id = e.id /\ t.timestamp = e.timestamp /\ t.offset = e.offset /\ t.ip = e.ip
      /\ t.message = e.message /\ t.raw = e.raw /\ t.risk = e.risk /\ t.alert = e.alert
      /\ t.received = e.received /\ t.severity = e.severity
  BY DEF IsEvent, BlankEvent
<1>2. d = EnsureDefaults(t, now)
  BY DEF ParseOne
<1>3. fields \subseteq DOMAIN BlankEvent
          \ {"received", "severity", "category", "sourcetype", "hint", "high"}
  BY DEF BlankEvent
<1> HIDE DEF t, d
<1>4. HasDefaults(d, t, now)
  BY <1>1, <1>2, DefaultsFields
<1>5. /\ IsEvent(r) /\ \A f \in fields : r[f] = d[f]
      /\ r.received = IF d.received = InvalidTime THEN now ELSE d.received
      /\ r.severity = Trimmed(d.severity)
  BY <1>3, AcceptingKeeps DEF d
<1>6. /\ r.id = d.id /\ r.timestamp = d.timestamp /\ r.offset = d.offset /\ r.ip = d.ip
      /\ r.message = d.message /\ r.raw = d.raw /\ r.risk = d.risk /\ r.alert = d.alert
      /\ r.type = d.type
  BY <1>5
<1>7. r.severity = "critical" <=> e.severity = "critical"
  <2>1. d.severity = DefaultSeverity(e.severity)
    BY <1>1, <1>4 DEF HasDefaults
  <2>2. d.severity = e.severity \/ (e.severity = NoName /\ d.severity = "info")
    BY <2>1, Zenon DEF DefaultSeverity, NoName
  <2>3. NoName # "critical"
    <3> SUFFICES ASSUME NoName = "critical" PROVE FALSE
      OBVIOUS
    <3> QED BY Zenon DEF NoName
  <2>4. \A word : Trimmed(word) = word \/ (word = Blanks /\ Trimmed(word) = NoName)
    BY DEF Trimmed
  <2>5. Blanks # "critical"
    BY DEF Blanks
  <2> QED BY <1>5, <2>2, <2>3, <2>4, <2>5
<1> HIDE DEF fields
<1> QED BY <1>1, <1>4, <1>5, <1>6, <1>7 DEF HasDefaults

(* It is still the event of its row. *)
LEMMA AcceptingKeepsRow ==
    ASSUME NEW endpoint, NEW x, MadeFor(endpoint, x), NEW now \in Nat, now \notin {NoTime, InvalidTime},
           NEW r, r = Accepted(x.event, now)
    PROVE  /\ MadeFor(endpoint, [row |-> x.row, event |-> r]) /\ r.received \in Nat
           /\ IsValid(r) <=> IsValid(Normalize(endpoint, x.row, 1))
<1> DEFINE e == x.event
           y == [row |-> x.row, event |-> r]
<1>1. /\ IsEvent(e) /\ e.id # NoId /\ e.timestamp # NoTime /\ e.received # NoTime
      /\ Zoned(e)
  BY DEF MadeFor, Made
<1>2. r = Accepted(e, now)
  OBVIOUS
<1>3. y.event = r /\ y.row = x.row
  OBVIOUS
<1> HIDE DEF y, e
<1>4. /\ IsEvent(r) /\ r.id = e.id /\ r.timestamp = e.timestamp /\ r.offset = e.offset
      /\ r.received = IF e.received = InvalidTime THEN now ELSE e.received
  BY <1>1, <1>2, AcceptingChanges
<1>5. Zoned(r) /\ r.received \in Nat /\ r.received # NoTime
  BY <1>1, <1>4 DEF Zoned, InvalidTime, NoTime
<1>6. Made(e, Normalize(endpoint, x.row, 1))
      /\ (Dated(x.row) => e.id = RowId(endpoint, x.row))
  BY DEF MadeFor, e
<1>7. Made(r, Normalize(endpoint, x.row, 1))
  BY <1>4, <1>5, <1>6 DEF Made, IsValid
<1>8. MadeFor(endpoint, y)
  BY <1>3, <1>4, <1>6, <1>7 DEF MadeFor
<1>9. IsValid(r) <=> IsValid(Normalize(endpoint, x.row, 1))
  BY <1>7 DEF Made
<1> QED BY <1>5, <1>8, <1>9 DEF y

(* A body that is decoded waits from its first row on. *)
LEMMA DeliveryIsTracked ==
    ASSUME EverythingIsTracked, NEW s \in Senders, pc[s] # "count",
           NEW d \in Deliveries, Deliver(s, d)
    PROVE  RowsAreTracked' /\ CountedOnce' /\ FileIsKnown'
<1>1. /\ instant' = instant /\ stored' = stored /\ seenIDs' = seenIDs
      /\ post'[s] = d /\ tally'[s] = NoTally
      /\ \A t \in Senders \ {s} : /\ pc'[t] = pc[t] /\ post'[t] = post[t]
                                  /\ todo'[t] = todo[t] /\ tally'[t] = tally[t]
  BY DEF Deliver, Goto, EverythingIsTracked, FileIsSettled, RowsAreTracked
<1>2. FileIsKnown'
  BY <1>1 DEF EverythingIsTracked, FileIsKnown, StoredEvents
<1>3. CASE Refused(d)
  <2>1. pc'[s] = "refused" /\ todo'[s] = <<>>
    BY <1>3 DEF Deliver, Goto, EverythingIsTracked, FileIsSettled
  <2>2. tally' \in [Senders -> [accepted : Nat, rejected : Nat, known : Nat]]
    BY DEF Deliver, EverythingIsTracked, RowsAreTracked, NoTally
  <2>3. ASSUME NEW t \in Senders
        PROVE  /\ pc'[t] \in {"idle", "refused", "ingest", "count", "answered"}
               /\ pc'[t] \in {"idle", "refused", "answered"} => todo'[t] = <<>>
               /\ pc'[t] = "idle" => post'[t] = NoPost
               /\ pc'[t] \in {"ingest", "count", "answered"} => Tracked(t)'
    BY <1>1, <2>1, OthersKeepTrack DEF EverythingIsTracked, RowsAreTracked
  <2>4. CountedOnce'
    BY <1>1, <2>1 DEF EverythingIsTracked, CountedOnce, StoredEvents
  <2> QED BY <1>2, <2>2, <2>3, <2>4 DEF RowsAreTracked
<1>4. CASE ~Refused(d)
  <2>1. pc'[s] = "ingest" /\ todo'[s] = Decode(d, Now)
    BY <1>4 DEF Deliver, Goto, EverythingIsTracked, FileIsSettled
  <2>2. tally' \in [Senders -> [accepted : Nat, rejected : Nat, known : Nat]]
    BY DEF Deliver, EverythingIsTracked, RowsAreTracked, NoTally
  <2>3. Tracked(s)'
    <3>1. /\ DOMAIN Kept(d) = 1 .. Len(Kept(d)) /\ Len(Kept(d)) \in Nat
      BY KeptIsSeq
    <3>2. /\ DOMAIN todo'[s] = 1 .. Len(Kept(d)) /\ Len(todo'[s]) = Len(Kept(d))
          /\ \A k \in DOMAIN todo'[s] :
                todo'[s][k] = [row |-> Kept(d)[k],
                               event |-> Normalize(d.endpoint, Kept(d)[k], Now)]
      BY <2>1, <3>1 DEF Decode
    <3>3. Dealt(s)' = 0
      <4>1. Dealt(s)' = Len(Kept(post'[s])) - Len(todo'[s])
        BY DEF Dealt
      <4> QED BY <1>1, <3>1, <3>2, <4>1
    <3>4. tally'[s].accepted + tally'[s].rejected + tally'[s].known = Dealt(s)'
      BY <1>1, <3>3 DEF NoTally
    <3>5. ASSUME NEW k \in DOMAIN todo'[s]
          PROVE  /\ todo'[s][k].row = Kept(d)[Dealt(s)' + k]
                 /\ MadeFor(d.endpoint, todo'[s][k])
      <4> DEFINE e == Normalize(d.endpoint, Kept(d)[k], Now)
      <4>1. todo'[s][k].row = Kept(d)[k] /\ todo'[s][k].event = e
        <5>1. todo'[s][k] = [row |-> Kept(d)[k], event |-> e]
          BY <3>2, Zenon
        <5> HIDE DEF e
        <5> QED BY <5>1
      <4>2. Now \in Nat /\ Now \notin {NoTime, InvalidTime} /\ k \in DOMAIN Kept(d)
        BY <3>1, <3>2, NowIsTime DEF EverythingIsTracked, FileIsSettled
      <4>4. /\ Made(e, Normalize(d.endpoint, Kept(d)[k], 1))
            /\ Dated(Kept(d)[k]) => e.id = RowId(d.endpoint, Kept(d)[k])
        BY <4>2, RowMakesEvent
      <4>5. MadeFor(d.endpoint, todo'[s][k])
        BY <4>1, <4>4 DEF MadeFor
      <4>6. Dealt(s)' + k = k
        BY <3>1, <3>2, <3>3
      <4> QED BY <4>1, <4>5, <4>6
    <3> QED BY <1>1, <3>3, <3>4, <3>5 DEF Tracked
  <2>4. ASSUME NEW t \in Senders
        PROVE  /\ pc'[t] \in {"idle", "refused", "ingest", "count", "answered"}
               /\ pc'[t] \in {"idle", "refused", "answered"} => todo'[t] = <<>>
               /\ pc'[t] = "idle" => post'[t] = NoPost
               /\ pc'[t] \in {"ingest", "count", "answered"} => Tracked(t)'
    BY <1>1, <2>1, <2>3, OthersKeepTrack DEF EverythingIsTracked, RowsAreTracked
  <2>5. CountedOnce'
    BY <1>1, <2>1 DEF EverythingIsTracked, CountedOnce, StoredEvents
  <2> QED BY <1>2, <2>2, <2>4, <2>5 DEF RowsAreTracked
<1> QED BY <1>3, <1>4

(* A row that is dealt with and leaves the file as it is. *)
LEMMA PassingIsTracked ==
    ASSUME EverythingIsTracked, NEW s \in Senders, pc[s] \in {"ingest", "count"}, todo[s] # <<>>,
           Filed(post[s].endpoint, Head(todo[s]).row, seenIDs),
           NEW n \in [accepted : Nat, rejected : Nat, known : Nat],
           n.accepted + n.rejected + n.known
              = tally[s].accepted + tally[s].rejected + tally[s].known + 1,
           tally' = [tally EXCEPT ![s] = n],
           todo' = [todo EXCEPT ![s] = Tail(@)], pc' = [pc EXCEPT ![s] = "ingest"],
           seenIDs' = seenIDs, stored' = stored, post' = post
    PROVE  RowsAreTracked' /\ CountedOnce' /\ FileIsKnown'
<1>1. /\ pc'[s] = "ingest" /\ todo'[s] = Tail(todo[s]) /\ tally'[s] = n /\ post'[s] = post[s]
      /\ \A t \in Senders \ {s} : /\ pc'[t] = pc[t] /\ post'[t] = post[t]
                                  /\ todo'[t] = todo[t] /\ tally'[t] = tally[t]
  BY DEF EverythingIsTracked, FileIsSettled, RowsAreTracked
<1>2. FileIsKnown'
  BY DEF EverythingIsTracked, FileIsKnown, StoredEvents
<1>3. Tracked(s)'
  <2>1. PICK S : todo[s] \in Seq(S)
    BY DEF EverythingIsTracked, FileIsSettled
  <2>2. Tracked(s)
    BY DEF EverythingIsTracked, RowsAreTracked
  <2>3. seenIDs \subseteq seenIDs'
    OBVIOUS
  <2> QED BY <1>1, <2>1, <2>2, <2>3, NextRowIsTracked
<1>4. tally' \in [Senders -> [accepted : Nat, rejected : Nat, known : Nat]]
  BY DEF EverythingIsTracked, RowsAreTracked
<1>5. ASSUME NEW t \in Senders
      PROVE  /\ pc'[t] \in {"idle", "refused", "ingest", "count", "answered"}
             /\ pc'[t] \in {"idle", "refused", "answered"} => todo'[t] = <<>>
             /\ pc'[t] = "idle" => post'[t] = NoPost
             /\ pc'[t] \in {"ingest", "count", "answered"} => Tracked(t)'
  BY <1>1, <1>3, OthersKeepTrack DEF EverythingIsTracked, RowsAreTracked
<1>6. CountedOnce'
  BY <1>1 DEF EverythingIsTracked, CountedOnce, StoredEvents
<1> QED BY <1>2, <1>4, <1>5, <1>6 DEF RowsAreTracked

(* A row that is stored. *)
LEMMA StoringIsTracked ==
    ASSUME EverythingIsTracked, NEW s \in Senders, pc[s] = "ingest", todo[s] # <<>>,
           NEW e, MadeFor(post[s].endpoint, [row |-> Head(todo[s]).row, event |-> e]),
           e.received \in Nat, e.id \notin seenIDs, seenIDs' = seenIDs \cup {e.id},
           stored' = Append(stored, [endpoint |-> post[s].endpoint,
                                     row |-> Head(todo[s]).row, event |-> e]),
           todo' = [todo EXCEPT ![s][1].event = e], pc' = [pc EXCEPT ![s] = "count"],
           tally' = tally, post' = post
    PROVE  RowsAreTracked' /\ CountedOnce' /\ FileIsKnown'
<1> DEFINE h == Head(todo[s])
           x == [row |-> h.row, event |-> e]
           rec == [endpoint |-> post[s].endpoint, row |-> h.row, event |-> e]
<1>1. PICK S : todo[s] \in Seq(S) /\ \A q \in S : Decoded(q)
  BY DEF EverythingIsTracked, FileIsSettled
<1>2. /\ DOMAIN todo[s] = 1 .. Len(todo[s]) /\ Len(todo[s]) \in Nat /\ Len(todo[s]) >= 1
      /\ h = todo[s][1] /\ h \in S
  BY <1>1
<1>3. h = [row |-> h.row, event |-> h.event]
  <2> HIDE DEF h
  <2> QED BY <1>1, <1>2 DEF Decoded
<1>4. /\ pc'[s] = "count" /\ todo'[s] = [todo[s] EXCEPT ![1] = x]
      /\ \A t \in Senders \ {s} : pc'[t] = pc[t] /\ todo'[t] = todo[t]
  <2>1. todo'[s] = [todo[s] EXCEPT ![1] = [@ EXCEPT !.event = e]]
    BY DEF EverythingIsTracked, FileIsSettled
  <2>2. [h EXCEPT !.event = e] = x
    <3> HIDE DEF h
    <3> QED BY <1>3
  <2> QED BY <1>2, <2>1, <2>2 DEF EverythingIsTracked, FileIsSettled
<1>5. /\ DOMAIN todo'[s] = DOMAIN todo[s] /\ Len(todo'[s]) = Len(todo[s])
      /\ todo'[s][1] = x /\ Head(todo'[s]) = x
      /\ \A k \in DOMAIN todo[s] \ {1} : todo'[s][k] = todo[s][k]
  <2> HIDE DEF x
  <2> QED BY <1>1, <1>4, HeadReplaced
<1>6. Tracked(s)'
  <2>1. Tracked(s)
    BY DEF EverythingIsTracked, RowsAreTracked
  <2>2. Dealt(s)' = Dealt(s)
    BY <1>5 DEF Dealt
  <2>3. ASSUME NEW k \in DOMAIN todo'[s]
        PROVE  /\ todo'[s][k].row = Kept(post[s])[Dealt(s) + k]
               /\ MadeFor(post[s].endpoint, todo'[s][k])
    <3>1. CASE k = 1
      <4>1. h.row = Kept(post[s])[Dealt(s) + 1]
        BY <1>2, <2>1 DEF Tracked
      <4> QED BY <1>5, <3>1, <4>1
    <3>2. CASE k # 1
      BY <1>5, <2>1, <3>2 DEF Tracked
    <3> QED BY <3>1, <3>2
  <2>4. ASSUME NEW i \in 1 .. Dealt(s) PROVE Filed(post[s].endpoint, Kept(post[s])[i], seenIDs')
    BY <2>1 DEF Tracked, Filed
  <2> HIDE DEF h
  <2> QED BY <2>1, <2>2, <2>3, <2>4 DEF Tracked
<1>7. ASSUME NEW t \in Senders
      PROVE  /\ pc'[t] \in {"idle", "refused", "ingest", "count", "answered"}
             /\ pc'[t] \in {"idle", "refused", "answered"} => todo'[t] = <<>>
             /\ pc'[t] = "idle" => post'[t] = NoPost
             /\ pc'[t] \in {"ingest", "count", "answered"} => Tracked(t)'
  BY <1>4, <1>6, OthersKeepTrack DEF EverythingIsTracked, RowsAreTracked
<1>8. tally' \in [Senders -> [accepted : Nat, rejected : Nat, known : Nat]]
  BY DEF EverythingIsTracked, RowsAreTracked
<1>9. PICK R : stored \in Seq(R)
  BY DEF EverythingIsTracked, FileIsSettled
<1>10. /\ DOMAIN stored = 1 .. Len(stored) /\ Len(stored) \in Nat
       /\ DOMAIN stored' = 1 .. Len(stored) + 1
       /\ stored'[Len(stored) + 1] = rec
       /\ \A i \in DOMAIN stored : stored'[i] = stored[i]
  BY <1>9
<1>11. rec.endpoint = post[s].endpoint /\ rec.row = h.row /\ rec.event = e
  OBVIOUS
<1> HIDE DEF rec
<1>12. StoredEvents' = StoredEvents \cup {e}
  <2>1. ASSUME NEW i \in DOMAIN stored' PROVE stored'[i].event \in StoredEvents \cup {e}
    <3>1. CASE i \in DOMAIN stored
      BY <1>10, <3>1 DEF StoredEvents
    <3>2. CASE i = Len(stored) + 1
      BY <1>10, <1>11, <3>2
    <3> QED BY <1>10, <3>1, <3>2
  <2>2. \A i \in DOMAIN stored : i \in DOMAIN stored' /\ stored'[i].event = stored[i].event
    BY <1>10
  <2>3. Len(stored) + 1 \in DOMAIN stored' /\ stored'[Len(stored) + 1].event = e
    BY <1>10, <1>11
  <2> QED BY <2>1, <2>2, <2>3 DEF StoredEvents
<1>13. CountedOnce'
  <2>1. Head(todo'[s]).event = e
    BY <1>5
  <2>2. \A t \in Senders \ {s} : pc[t] = "count" => Head(todo[t]).event.id # e.id
    BY DEF EverythingIsTracked, CountedOnce, FileIsKnown
  <2> HIDE DEF h, x
  <2> QED BY <1>4, <1>12, <2>1, <2>2 DEF EverythingIsTracked, CountedOnce
<1>14. FileIsKnown'
  <2>1. seenIDs' = {q.id : q \in StoredEvents'}
    BY <1>12 DEF EverythingIsTracked, FileIsKnown
  <2>2. ASSUME NEW i \in DOMAIN stored PROVE stored[i].event.id \in seenIDs
    BY DEF EverythingIsTracked, FileIsKnown, StoredEvents
  <2>3. ASSUME NEW i \in DOMAIN stored', NEW j \in DOMAIN stored',
               stored'[i].event.id = stored'[j].event.id
        PROVE  i = j
    <3>1. CASE i \in DOMAIN stored /\ j \in DOMAIN stored
      BY <1>10, <2>3, <3>1 DEF EverythingIsTracked, FileIsKnown
    <3>2. CASE i \in DOMAIN stored /\ j = Len(stored) + 1
      BY <1>10, <1>11, <2>2, <2>3, <3>2
    <3>3. CASE i = Len(stored) + 1 /\ j \in DOMAIN stored
      BY <1>10, <1>11, <2>2, <2>3, <3>3
    <3> QED BY <1>10, <3>1, <3>2, <3>3
  <2>4. ASSUME NEW i \in DOMAIN stored'
        PROVE  /\ MadeFor(stored'[i].endpoint, stored'[i]) /\ stored'[i].event.received \in Nat
               /\ \E d \in Deliveries : \E k \in DOMAIN Kept(d) :
                     stored'[i].endpoint = d.endpoint /\ stored'[i].row = Kept(d)[k]
    <3>1. CASE i \in DOMAIN stored
      BY <1>10, <3>1 DEF EverythingIsTracked, FileIsKnown
    <3>2. CASE i = Len(stored) + 1
      <4>1. MadeFor(rec.endpoint, rec)
        <5>1. x.row = h.row /\ x.event = e
          OBVIOUS
        <5>2. MadeFor(post[s].endpoint, x)
          OBVIOUS
        <5> HIDE DEF x, h
        <5> QED BY <1>11, <5>1, <5>2 DEF MadeFor
      <4>2. post[s] \in Deliveries /\ h.row = Kept(post[s])[Dealt(s) + 1]
        BY <1>2 DEF EverythingIsTracked, RowsAreTracked, Tracked
      <4>3. Dealt(s) + 1 \in DOMAIN Kept(post[s])
        <5>1. DOMAIN Kept(post[s]) = 1 .. Len(Kept(post[s])) /\ Len(Kept(post[s])) \in Nat
          BY <4>2, KeptIsSeq
        <5>2. Dealt(s) \in Nat /\ Dealt(s) = Len(Kept(post[s])) - Len(todo[s])
          BY DEF EverythingIsTracked, RowsAreTracked, Tracked, Dealt
        <5> QED BY <1>2, <5>1, <5>2
      <4> QED BY <1>10, <1>11, <3>2, <4>1, <4>2, <4>3
    <3> QED BY <1>10, <3>1, <3>2
  <2> QED BY <2>1, <2>3, <2>4 DEF FileIsKnown
<1> QED BY <1>7, <1>8, <1>13, <1>14 DEF RowsAreTracked

(* What the head of todo tells of the row that is next. *)
LEMMA NextRow ==
    ASSUME EverythingIsTracked, NEW s \in Senders, pc[s] \in {"ingest", "count"}, todo[s] # <<>>
    PROVE  MadeFor(post[s].endpoint, Head(todo[s]))
<1>1. PICK S : todo[s] \in Seq(S)
  BY DEF EverythingIsTracked, FileIsSettled
<1>2. 1 \in DOMAIN todo[s] /\ Head(todo[s]) = todo[s][1]
  BY <1>1
<1> QED BY <1>2 DEF EverythingIsTracked, RowsAreTracked, Tracked

(* Whatever ingestOne finds the event to be, its row is tracked. *)
LEMMA IngestIsTracked ==
    ASSUME EverythingIsTracked, NEW s \in Senders, Ingest(s)
    PROVE  RowsAreTracked' /\ CountedOnce' /\ FileIsKnown'
<1> DEFINE h == Head(todo[s])
           e == Accepted(h.event, Now)
           y == [row |-> h.row, event |-> e]
<1>1. pc[s] = "ingest" /\ todo[s] # <<>> /\ post' = post
  BY DEF Ingest, Ingesting
<1>2. MadeFor(post[s].endpoint, h)
  BY <1>1, NextRow
<1>3. Now \in Nat /\ Now \notin {NoTime, InvalidTime}
  BY NowIsTime DEF EverythingIsTracked, FileIsSettled
<1>4. /\ MadeFor(post[s].endpoint, y) /\ e.received \in Nat
      /\ IsValid(e) <=> IsValid(Normalize(post[s].endpoint, h.row, 1))
  <2>1. e = Accepted(h.event, Now)
    OBVIOUS
  <2> HIDE DEF h, e
  <2> QED BY <1>2, <1>3, <2>1, AcceptingKeepsRow, Zenon
<1>5. Dated(h.row) => e.id = RowId(post[s].endpoint, h.row)
  <2>1. y.row = h.row /\ y.event = e
    OBVIOUS
  <2> HIDE DEF y, h, e
  <2> QED BY <1>4, <2>1 DEF MadeFor
<1>6. /\ pc = [pc EXCEPT ![s] = "ingest"]
      /\ tally[s] \in [accepted : Nat, rejected : Nat, known : Nat]
  BY <1>1 DEF EverythingIsTracked, FileIsSettled, RowsAreTracked
<1>7. CASE ~IsValid(e)
  <2> DEFINE n == [tally[s] EXCEPT !.rejected = @ + 1]
  <2>1. /\ tally' = [tally EXCEPT ![s] = n] /\ todo' = [todo EXCEPT ![s] = Tail(@)]
        /\ seenIDs' = seenIDs /\ stored' = stored /\ pc' = pc
    BY <1>7 DEF Ingest, Ingesting
  <2>2. /\ n \in [accepted : Nat, rejected : Nat, known : Nat]
        /\ n.accepted + n.rejected + n.known
              = tally[s].accepted + tally[s].rejected + tally[s].known + 1
    BY <1>6
  <2>3. Filed(post[s].endpoint, h.row, seenIDs)
    BY <1>4, <1>7 DEF Filed
  <2> HIDE DEF n, e, y
  <2> QED BY <1>1, <1>6, <2>1, <2>2, <2>3, PassingIsTracked
<1>8. CASE IsValid(e) /\ e.id \in seenIDs
  <2> DEFINE n == [tally[s] EXCEPT !.known = @ + 1]
  <2>1. /\ tally' = [tally EXCEPT ![s] = n] /\ todo' = [todo EXCEPT ![s] = Tail(@)]
        /\ seenIDs' = seenIDs /\ stored' = stored /\ pc' = pc
    BY <1>8 DEF Ingest, Ingesting
  <2>2. /\ n \in [accepted : Nat, rejected : Nat, known : Nat]
        /\ n.accepted + n.rejected + n.known
              = tally[s].accepted + tally[s].rejected + tally[s].known + 1
    BY <1>6
  <2>3. Filed(post[s].endpoint, h.row, seenIDs)
    <3> HIDE DEF e, y, h
    <3> QED BY <1>5, <1>8 DEF Filed
  <2> HIDE DEF n, e, y
  <2> QED BY <1>1, <1>6, <2>1, <2>2, <2>3, PassingIsTracked
<1>9. CASE IsValid(e) /\ e.id \notin seenIDs
  <2>1. /\ seenIDs' = seenIDs \cup {e.id}
        /\ stored' = Append(stored, [endpoint |-> post[s].endpoint, row |-> h.row, event |-> e])
        /\ todo' = [todo EXCEPT ![s][1].event = e] /\ pc' = [pc EXCEPT ![s] = "count"]
        /\ tally' = tally
    BY <1>9 DEF Ingest, Ingesting, Goto
  <2> HIDE DEF e
  <2> QED BY <1>1, <1>4, <1>9, <2>1, StoringIsTracked
<1> QED BY <1>7, <1>8, <1>9

(* The steps of a sender after that. *)
LEMMA CountIsTracked ==
    ASSUME EverythingIsTracked, NEW s \in Senders, Count(s)
    PROVE  RowsAreTracked' /\ CountedOnce' /\ FileIsKnown'
<1> DEFINE n == [tally[s] EXCEPT !.accepted = @ + 1]
<1>1. /\ pc[s] = "count" /\ todo[s] # <<>>
      /\ tally[s] \in [accepted : Nat, rejected : Nat, known : Nat]
  BY DEF Count, EverythingIsTracked, FileIsSettled, RowsAreTracked
<1>2. /\ tally' = [tally EXCEPT ![s] = n] /\ todo' = [todo EXCEPT ![s] = Tail(@)]
      /\ pc' = [pc EXCEPT ![s] = "ingest"]
      /\ seenIDs' = seenIDs /\ stored' = stored /\ post' = post
  BY DEF Count, Goto
<1>3. /\ n \in [accepted : Nat, rejected : Nat, known : Nat]
      /\ n.accepted + n.rejected + n.known
            = tally[s].accepted + tally[s].rejected + tally[s].known + 1
  BY <1>1
<1>4. Filed(post[s].endpoint, Head(todo[s]).row, seenIDs)
  <2>1. Head(todo[s]).event.id \in seenIDs
    BY <1>1 DEF EverythingIsTracked, CountedOnce, FileIsKnown
  <2>2. MadeFor(post[s].endpoint, Head(todo[s]))
    BY <1>1, NextRow
  <2> QED BY <2>1, <2>2 DEF Filed, MadeFor
<1> HIDE DEF n
<1> QED BY <1>1, <1>2, <1>3, <1>4, PassingIsTracked

(* An answer leaves the rows and the file as they are. *)
LEMMA AnswerIsTracked ==
    ASSUME EverythingIsTracked, NEW s \in Senders, AnswerPost(s) \/ AnswerArrives(s)
    PROVE  RowsAreTracked' /\ CountedOnce' /\ FileIsKnown'
<1>1. /\ todo[s] = <<>> /\ seenIDs' = seenIDs /\ stored' = stored /\ todo' = todo
      /\ pc'[s] \in {"idle", "answered"}
      /\ pc'[s] = "answered" => /\ post'[s] = post[s] /\ tally'[s] = tally[s] /\ pc[s] = "ingest"
      /\ pc'[s] = "idle" => post'[s] = NoPost
      /\ \A t \in Senders \ {s} : /\ pc'[t] = pc[t] /\ post'[t] = post[t]
                                  /\ tally'[t] = tally[t]
  BY DEF AnswerPost, AnswerArrives, Goto, EverythingIsTracked, FileIsSettled, RowsAreTracked
<1>2. FileIsKnown'
  BY <1>1 DEF EverythingIsTracked, FileIsKnown, StoredEvents
<1>3. tally' \in [Senders -> [accepted : Nat, rejected : Nat, known : Nat]]
  BY DEF AnswerPost, AnswerArrives, EverythingIsTracked, RowsAreTracked, NoTally
<1>4. ASSUME NEW t \in Senders
      PROVE  /\ pc'[t] \in {"idle", "refused", "ingest", "count", "answered"}
             /\ pc'[t] \in {"idle", "refused", "answered"} => todo'[t] = <<>>
             /\ pc'[t] = "idle" => post'[t] = NoPost
             /\ pc'[t] \in {"ingest", "count", "answered"} => Tracked(t)'
  BY <1>1, OthersKeepTrack DEF EverythingIsTracked, RowsAreTracked
<1>5. CountedOnce'
  BY <1>1 DEF EverythingIsTracked, CountedOnce, StoredEvents
<1> QED BY <1>2, <1>3, <1>4, <1>5 DEF RowsAreTracked

(* EverythingIsTracked is inductive. *)
THEOREM EverythingStaysTracked == Spec => []EverythingIsTracked
<1>1. Init => RowsAreTracked /\ CountedOnce /\ FileIsKnown
  <2> SUFFICES ASSUME Init PROVE RowsAreTracked /\ CountedOnce /\ FileIsKnown
    OBVIOUS
  <2>1. RowsAreTracked
    BY DEF Init, RowsAreTracked, NoTally
  <2>2. CountedOnce
    BY DEF Init, CountedOnce
  <2>3. FileIsKnown
    BY DEF Init, FileIsKnown, StoredEvents
  <2> QED BY <2>1, <2>2, <2>3
<1>2. FileIsSettled /\ RowsAreTracked /\ CountedOnce /\ FileIsKnown /\ [Next]_vars
         => RowsAreTracked' /\ CountedOnce' /\ FileIsKnown'
  <2> SUFFICES ASSUME FileIsSettled, RowsAreTracked, CountedOnce, FileIsKnown, [Next]_vars
               PROVE  RowsAreTracked' /\ CountedOnce' /\ FileIsKnown'
    OBVIOUS
  <2>0. EverythingIsTracked
    BY DEF EverythingIsTracked
  <2>1. ASSUME NEW s \in Senders, Send(s) PROVE RowsAreTracked' /\ CountedOnce' /\ FileIsKnown'
    BY <2>0, <2>1, DeliveryIsTracked DEF Send
  <2>2. ASSUME NEW s \in Senders, SendAgain(s)
        PROVE  RowsAreTracked' /\ CountedOnce' /\ FileIsKnown'
    <3>1. post[s] \in Deliveries /\ pc[s] # "count"
      BY <2>2 DEF SendAgain, FileIsSettled
    <3> QED BY <2>0, <2>2, <3>1, DeliveryIsTracked DEF SendAgain
  <2>3. ASSUME NEW s \in Senders, Ingest(s) PROVE RowsAreTracked' /\ CountedOnce' /\ FileIsKnown'
    BY <2>0, <2>3, IngestIsTracked
  <2>4. ASSUME NEW s \in Senders, Count(s) PROVE RowsAreTracked' /\ CountedOnce' /\ FileIsKnown'
    BY <2>0, <2>4, CountIsTracked
  <2>5. ASSUME NEW s \in Senders, AnswerPost(s) \/ AnswerArrives(s)
        PROVE  RowsAreTracked' /\ CountedOnce' /\ FileIsKnown'
    BY <2>0, <2>5, AnswerIsTracked
  <2>6. CASE ReadSummary \/ ReadTotal \/ ReadCritical \/ Tick \/ UNCHANGED vars
    <3>1. UNCHANGED <<seenIDs, stored, pc, post, todo, tally>>
      BY <2>6 DEF ReadSummary, ReadTotal, ReadCritical, Tick, vars, senderVars
    <3>2. ASSUME NEW s \in Senders, Tracked(s) PROVE Tracked(s)'
      BY <3>1, <3>2, OthersKeepTrack
    <3>3. RowsAreTracked'
      BY <3>1, <3>2 DEF RowsAreTracked
    <3>4. CountedOnce' /\ FileIsKnown'
      BY <3>1 DEF CountedOnce, FileIsKnown, StoredEvents
    <3> QED BY <3>3, <3>4
  <2> QED BY <2>1, <2>2, <2>3, <2>4, <2>5, <2>6 DEF Next
<1>3. FileIsSettled /\ RowsAreTracked /\ CountedOnce /\ FileIsKnown <=> EverythingIsTracked
  BY DEF EverythingIsTracked
<1> QED BY <1>1, <1>2, <1>3, FileStaysSettled, PTL DEF Spec

(* However often a body is sent again, a row with an id or a time of its own is stored
   once: its event is always given the same id, and no id is stored twice. *)
THEOREM RetriesStoreOnce == Spec => []RetryStoresOnce
<1>1. EverythingIsTracked => RetryStoresOnce
  <2> SUFFICES ASSUME EverythingIsTracked, NEW i \in DOMAIN stored, NEW j \in DOMAIN stored,
                      stored[i].endpoint = stored[j].endpoint, stored[i].row = stored[j].row,
                      Dated(stored[i].row)
               PROVE  i = j
    BY DEF RetryStoresOnce
  <2>1. /\ stored[i].event.id = RowId(stored[i].endpoint, stored[i].row)
        /\ stored[j].event.id = RowId(stored[j].endpoint, stored[j].row)
    BY DEF EverythingIsTracked, FileIsKnown, MadeFor
  <2>2. stored[i].event.id = stored[j].event.id
    BY <2>1
  <2> QED BY <2>2 DEF EverythingIsTracked, FileIsKnown
<1> QED BY <1>1, EverythingStaysTracked, PTL

-----------------------------------------------------------------------------
(***************************************************************************)
(* The counters and who reads them.                                        *)
(***************************************************************************)
IsStats(st) == st = [f \in DOMAIN NewStats |-> st[f]]

(* the counters r are st and one event *)
Added(st, e, r) ==
    /\ IsStats(r)
    /\ r.totalReceived = st.totalReceived + 1
    /\ r.securityCount = st.securityCount + (IF e.category = "security" THEN 1 ELSE 0)
    /\ r.bySource = Incremented(st.bySource, e.type)
    /\ r.bySeverity = Incremented(st.bySeverity, e.severity)
    /\ r.byCategory = Incremented(st.byCategory, e.category)
    /\ r.bySourcetype = Incremented(st.bySourcetype, e.sourcetype)
    /\ r.timeline = Incremented(st.timeline, Bucket(e.received))
    /\ r.sources = Incremented(st.sources, IF e.ip # "" THEN e.ip ELSE e.name)
    /\ r.latest = LaterOf(st, e)

(* What an event adds to the counters. *)
LEMMA StatsAdded ==
    ASSUME NEW st, IsStats(st), NEW e, NEW now, NEW r, r = StatsAdd(st, e, now)
    PROVE  Added(st, e, r)
<1> DEFINE security == IF e.category = "security" THEN 1 ELSE 0
           high == IF e.high THEN 1 ELSE 0
           source == IF e.ip # "" THEN e.ip ELSE e.name
           a == [st EXCEPT !.totalReceived = @ + 1,
                       !.securityCount = @ + security,
                       !.highValue     = @ + high,
                       !.bySource      = Incremented(@, e.type),
                       !.bySeverity    = Incremented(@, e.severity),
                       !.byCategory    = Incremented(@, e.category),
                       !.bySourcetype  = Incremented(@, e.sourcetype),
                       !.timeline      = Incremented(@, Bucket(e.received)),
                       !.sources       = Incremented(@, source),
                       !.latest        = LaterOf(st, e)]
<1>1. r = BumpRate(a, now)
  BY DEF StatsAdd
<1>2. /\ IsStats(a)
      /\ a.totalReceived = st.totalReceived + 1
      /\ a.securityCount = st.securityCount + security
      /\ a.bySource = Incremented(st.bySource, e.type)
      /\ a.bySeverity = Incremented(st.bySeverity, e.severity)
      /\ a.byCategory = Incremented(st.byCategory, e.category)
      /\ a.bySourcetype = Incremented(st.bySourcetype, e.sourcetype)
      /\ a.timeline = Incremented(st.timeline, Bucket(e.received))
      /\ a.sources = Incremented(st.sources, source)
      /\ a.latest = LaterOf(st, e)
  <2> HIDE DEF security, high, source
  <2>1. st = [f \in DOMAIN NewStats |-> st[f]]
    BY DEF IsStats
  <2>2. /\ a.totalReceived = st.totalReceived + 1
        /\ a.securityCount = st.securityCount + security
        /\ a.bySource = Incremented(st.bySource, e.type)
        /\ a.bySeverity = Incremented(st.bySeverity, e.severity)
    BY <2>1 DEF NewStats
  <2>3. /\ a.byCategory = Incremented(st.byCategory, e.category)
        /\ a.bySourcetype = Incremented(st.bySourcetype, e.sourcetype)
        /\ a.timeline = Incremented(st.timeline, Bucket(e.received))
        /\ a.sources = Incremented(st.sources, source)
        /\ a.latest = LaterOf(st, e)
    BY <2>1 DEF NewStats
  <2>4. IsStats(a)
    BY <2>1 DEF IsStats
  <2> QED BY <2>2, <2>3, <2>4
<1> HIDE DEF a
<1>3. /\ IsStats(r) /\ r.totalReceived = a.totalReceived /\ r.securityCount = a.securityCount
      /\ r.bySource = a.bySource /\ r.bySeverity = a.bySeverity
      /\ r.byCategory = a.byCategory /\ r.bySourcetype = a.bySourcetype
      /\ r.timeline = a.timeline /\ r.sources = a.sources /\ r.latest = a.latest
  BY <1>1, <1>2 DEF IsStats, NewStats, BumpRate
<1> QED BY <1>2, <1>3 DEF Added

(* what the monitor has read so far, and what it was answered last, the counters have
   reached; what it has read it read in this order *)
MonitorFollows ==
    /\ IsStats(stats) /\ stats.securityCount \in Nat /\ stats.totalReceived \in Nat
    /\ stats.securityCount <= stats.totalReceived
    /\ \A n \in DOMAIN stats.bySeverity : stats.bySeverity[n] \in Nat
    /\ reading \in [security : Nat \cup {-1}, total : Nat \cup {-1}, critical : {-1}]
    /\ shown \in [security : Nat \cup {-1}, total : Nat \cup {-1}, critical : Nat \cup {-1}]
    /\ shown.security <= stats.securityCount /\ shown.total <= stats.totalReceived
    /\ shown.critical <= SeverityCount(stats, "critical")
    /\ reading.security <= stats.securityCount /\ reading.total <= stats.totalReceived
    /\ reading.security # -1 => shown.security <= reading.security
    /\ reading.total # -1 => /\ reading.security # -1 /\ reading.security <= reading.total
                             /\ shown.total <= reading.total

LEMMA CountingIsFollowed ==
    ASSUME MonitorFollows, NEW e, NEW now, stats' = StatsAdd(stats, e, now),
           reading' = reading, shown' = shown
    PROVE  MonitorFollows'
<1>1. /\ IsStats(stats') /\ stats'.totalReceived = stats.totalReceived + 1
      /\ stats'.securityCount = stats.securityCount + (IF e.category = "security" THEN 1 ELSE 0)
      /\ stats'.bySeverity = Incremented(stats.bySeverity, e.severity)
  <2>1. IsStats(stats)
    BY DEF MonitorFollows
  <2>2. Added(stats, e, stats')
    BY <2>1, StatsAdded
  <2> QED BY <2>2 DEF Added
<1>2. /\ stats'.securityCount \in Nat /\ stats'.totalReceived \in Nat
      /\ stats'.securityCount <= stats'.totalReceived
      /\ stats'.securityCount >= stats.securityCount
      /\ stats'.totalReceived >= stats.totalReceived
  <2>1. stats.securityCount \in Nat /\ stats.totalReceived \in Nat
        /\ stats.securityCount <= stats.totalReceived
    BY DEF MonitorFollows
  <2> QED BY <1>1, <2>1
<1>3. /\ \A n \in DOMAIN stats'.bySeverity : stats'.bySeverity[n] \in Nat
      /\ SeverityCount(stats, "critical") \in Nat
      /\ SeverityCount(stats', "critical") \in Nat
      /\ SeverityCount(stats', "critical") >= SeverityCount(stats, "critical")
  <2>1. \A n \in DOMAIN stats.bySeverity : stats.bySeverity[n] \in Nat
    BY DEF MonitorFollows
  <2>2. \A n \in DOMAIN stats'.bySeverity : stats'.bySeverity[n] \in Nat
    BY <1>1, <2>1, CountGrows
  <2>3. /\ CountOf(stats.bySeverity, "critical") \in Nat
        /\ CountOf(stats'.bySeverity, "critical") \in Nat
        /\ CountOf(stats'.bySeverity, "critical") >= CountOf(stats.bySeverity, "critical")
    BY <1>1, <2>1, <2>2, CountGrows
  <2> QED BY <2>2, <2>3 DEF SeverityCount
<1>4. shown'.critical <= SeverityCount(stats', "critical")
  BY <1>3 DEF MonitorFollows
<1> QED BY <1>1, <1>2, <1>3, <1>4 DEF MonitorFollows

(* MonitorFollows is inductive. *)
THEOREM MonitorAlwaysFollows == Spec => []MonitorFollows
<1>1. Init => MonitorFollows
  <2> SUFFICES ASSUME Init PROVE MonitorFollows
    OBVIOUS
  <2>1. /\ IsStats(stats) /\ stats.securityCount = 0 /\ stats.totalReceived = 0
        /\ stats.bySeverity = <<>>
    BY DEF Init, NewStats, IsStats
  <2>2. DOMAIN stats.bySeverity = {}
    BY <2>1
  <2>3. SeverityCount(stats, "critical") = 0
    BY <2>2 DEF SeverityCount, CountOf
  <2>4. reading = NothingRead /\ shown = NothingRead
    BY DEF Init
  <2> QED BY <2>1, <2>2, <2>3, <2>4 DEF MonitorFollows, NothingRead
<1>2. MonitorFollows /\ [Next]_vars => MonitorFollows'
  <2> SUFFICES ASSUME MonitorFollows, [Next]_vars PROVE MonitorFollows'
    OBVIOUS
  <2>1. ASSUME NEW s \in Senders, Count(s) PROVE MonitorFollows'
    BY <2>1, CountingIsFollowed DEF Count, monitorVars
  <2>2. ASSUME NEW s \in Senders,
               Send(s) \/ SendAgain(s) \/ AnswerArrives(s) \/ Ingest(s) \/ AnswerPost(s)
        PROVE  MonitorFollows'
    <3>1. UNCHANGED <<stats, reading, shown>>
      BY <2>2 DEF Send, SendAgain, Deliver, AnswerArrives, Ingest, Ingesting, AnswerPost, monitorVars
    <3> QED BY <3>1 DEF MonitorFollows
  <2>3. CASE ReadSummary
    BY <2>3 DEF ReadSummary, MonitorFollows
  <2>4. CASE ReadTotal
    BY <2>4 DEF ReadTotal, MonitorFollows
  <2>5. CASE ReadCritical
    <3>1. SeverityCount(stats, "critical") \in Nat
      BY DEF MonitorFollows, SeverityCount, CountOf
    <3> QED BY <2>5, <3>1 DEF ReadCritical, MonitorFollows, NothingRead
  <2>6. CASE Tick \/ UNCHANGED vars
    <3>1. UNCHANGED <<stats, reading, shown>>
      BY <2>6 DEF Tick, vars, monitorVars
    <3> QED BY <3>1 DEF MonitorFollows
  <2> QED BY <2>1, <2>2, <2>3, <2>4, <2>5, <2>6 DEF Next
<1> QED BY <1>1, <1>2, PTL DEF Spec

(* No number of the monitor goes back from one answer to the next, and the security events
   it is shown are among the total it is shown, although other events are counted between
   its reads. *)
THEOREM AnswersGoForward == Spec => StatsAnswerIsForward
<1>1. MonitorFollows /\ [Next]_vars =>
         [shown' # shown =>
             /\ shown'.security <= shown'.total
             /\ \A n \in DOMAIN shown : shown[n] <= shown'[n]]_vars
  <2> SUFFICES ASSUME MonitorFollows, [Next]_vars, shown' # shown
               PROVE  /\ shown'.security <= shown'.total
                      /\ \A n \in DOMAIN shown : shown[n] <= shown'[n]
    OBVIOUS
  <2>1. ReadCritical
    BY DEF Next, Send, SendAgain, Deliver, AnswerArrives, Ingest, Ingesting, Count, AnswerPost,
           ReadSummary, ReadTotal, Tick, vars, monitorVars
  <2>2. SeverityCount(stats, "critical") \in Nat
    BY DEF MonitorFollows, SeverityCount, CountOf
  <2> QED BY <2>1, <2>2 DEF ReadCritical, MonitorFollows
<1> QED BY <1>1, MonitorAlwaysFollows, PTL DEF Spec, StatsAnswerIsForward

(* the bounds on what the senders send *)
SpentIsBounded == spent \in [posts : 0 .. MaxPosts, resends : 0 .. MaxResends]

(* No more bodies are sent, and sent again, than the bounds allow. *)
THEOREM SpentStaysBounded == Spec => []SpentIsBounded
<1>1. Init => SpentIsBounded
  BY BoundsAssumption DEF Init, SpentIsBounded
<1>2. SpentIsBounded /\ [Next]_vars => SpentIsBounded'
  <2> SUFFICES ASSUME SpentIsBounded, [Next]_vars PROVE SpentIsBounded'
    OBVIOUS
  <2>1. ASSUME NEW s \in Senders, Send(s) PROVE SpentIsBounded'
    <3>1. spent.posts < MaxPosts /\ spent' = [spent EXCEPT !.posts = @ + 1]
      BY <2>1 DEF Send, Deliver
    <3>2. spent.posts + 1 \in 0 .. MaxPosts /\ spent.resends \in 0 .. MaxResends
      BY <3>1, BoundsAssumption DEF SpentIsBounded
    <3> QED BY <3>1, <3>2 DEF SpentIsBounded
  <2>2. ASSUME NEW s \in Senders, SendAgain(s) PROVE SpentIsBounded'
    <3>1. /\ spent.posts < MaxPosts /\ spent.resends < MaxResends
          /\ spent' = [spent EXCEPT !.posts = @ + 1, !.resends = @ + 1]
      BY <2>2 DEF SendAgain, Deliver
    <3>2. spent.posts + 1 \in 0 .. MaxPosts /\ spent.resends + 1 \in 0 .. MaxResends
      BY <3>1, BoundsAssumption DEF SpentIsBounded
    <3> QED BY <3>1, <3>2 DEF SpentIsBounded
  <2>3. ASSUME NEW s \in Senders, AnswerArrives(s) \/ Ingest(s) \/ Count(s) \/ AnswerPost(s)
        PROVE  SpentIsBounded'
    BY <2>3 DEF AnswerArrives, Ingest, Ingesting, Count, AnswerPost, SpentIsBounded
  <2>4. CASE ReadSummary \/ ReadTotal \/ ReadCritical \/ Tick \/ UNCHANGED vars
    BY <2>4 DEF ReadSummary, ReadTotal, ReadCritical, Tick, vars, senderVars, SpentIsBounded
  <2> QED BY <2>1, <2>2, <2>3, <2>4 DEF Next
<1> QED BY <1>1, <1>2, PTL DEF Spec

(* The types, and the ids seen are those of the events stored. *)
THEOREM TypeCorrect == Spec => []TypeOK
<1>1. EverythingIsTracked /\ MonitorFollows /\ SpentIsBounded => TypeOK
  <2> SUFFICES ASSUME EverythingIsTracked, MonitorFollows, SpentIsBounded PROVE TypeOK
    OBVIOUS
  <2>1. /\ pc \in [Senders -> {"idle", "refused", "ingest", "count", "answered"}]
        /\ post \in [Senders -> Deliveries \cup {NoPost}]
    BY DEF EverythingIsTracked, FileIsSettled, RowsAreTracked
  <2>2. ASSUME NEW s \in Senders
        PROVE  Len(todo[s]) <= IF post[s] = NoPost THEN 0 ELSE Len(Kept(post[s]))
    <3>1. CASE todo[s] = <<>>
      <4>1. Len(todo[s]) = 0
        BY <3>1
      <4>2. post[s] # NoPost => Len(Kept(post[s])) \in Nat
        BY <2>1, KeptIsSeq
      <4> QED BY <4>1, <4>2
    <3>2. CASE todo[s] # <<>>
      <4>1. Tracked(s)
        BY <3>2 DEF EverythingIsTracked, RowsAreTracked
      <4>2. post[s] \in Deliveries /\ Len(Kept(post[s])) - Len(todo[s]) \in Nat
        BY <4>1 DEF Tracked, Dealt
      <4>3. post[s] # NoPost
        BY <4>2, DeliveriesAssumption DEF NoPost
      <4>4. Len(Kept(post[s])) \in Nat
        BY <4>2, KeptIsSeq
      <4>5. PICK S : todo[s] \in Seq(S)
        BY DEF EverythingIsTracked, FileIsSettled
      <4>6. Len(todo[s]) \in Nat
        BY <4>5
      <4> QED BY <4>2, <4>3, <4>4, <4>6
    <3> QED BY <3>1, <3>2
  <2>3. instant \in DOMAIN Instants /\ seenIDs = {e.id : e \in StoredEvents}
        /\ tally \in [Senders -> [accepted : Nat, rejected : Nat, known : Nat]]
    BY DEF EverythingIsTracked, FileIsSettled, FileIsKnown, RowsAreTracked
  <2>4. spent.posts \in 0 .. MaxPosts /\ spent.resends \in 0 .. MaxResends
    BY DEF SpentIsBounded
  <2>5. reading.critical = -1
    BY DEF MonitorFollows
  <2> QED BY <2>1, <2>2, <2>3, <2>4, <2>5 DEF TypeOK
<1> QED BY <1>1, EverythingStaysTracked, MonitorAlwaysFollows, SpentStaysBounded, PTL
-----------------------------------------------------------------------------
(* The order of the times that are written: what each place of a fraction stands
   for, and that the second counts more than the whole fraction. *)
Fractions == {r \in Nat : r < FractionOrders}

LEMMA DigitsAreFew ==
    ASSUME NEW d \in Nat
    PROVE  d \div 100 \in Nat /\ 1 + (d % 100) \div 10 \in 0 .. 11 /\ 1 + (d % 10) \in 0 .. 11
<1>1. d % 100 \in 0 .. 99 /\ d % 10 \in 0 .. 9 /\ d \div 100 \in Nat
  OBVIOUS
<1>2. (d % 100) \div 10 \in 0 .. 9
  BY <1>1
<1> QED BY <1>1, <1>2

LEMMA PlacesAddUp ==
    ASSUME NEW x \in 0 .. 11, NEW y \in 0 .. 11, NEW z \in 0 .. 11
    PROVE  /\ ((z * 12) * 12) * 12 \in Fractions
           /\ ((12 + x) * 12 + z) * 12 \in Fractions
           /\ ((12 + x) * 12 + y) * 12 + z \in Fractions
<1>1. /\ ((z * 12) * 12) * 12 \in Nat
      /\ ((12 + x) * 12 + z) * 12 \in Nat
      /\ ((12 + x) * 12 + y) * 12 + z \in Nat
  OBVIOUS
<1>2. ((z * 12) * 12) * 12 < FractionOrders
  BY DEF FractionOrders
<1>3. ((12 + x) * 12 + z) * 12 < FractionOrders
  BY DEF FractionOrders
<1>4. ((12 + x) * 12 + y) * 12 + z < FractionOrders
  BY DEF FractionOrders
<1> QED BY <1>1, <1>2, <1>3, <1>4 DEF Fractions

LEMMA FirstDecides ==
    ASSUME NEW n \in Nat, NEW m \in Nat, NEW f \in Fractions, NEW g \in Fractions
    PROVE  /\ n * FractionOrders + f \in Nat
           /\ n > m => n * FractionOrders + f > m * FractionOrders + g
<1>1. f \in Nat /\ g \in Nat /\ g < FractionOrders
  BY DEF Fractions
<1>2. n * FractionOrders + f \in Nat
  BY <1>1 DEF FractionOrders
<1>3. n > m => n * FractionOrders + f > m * FractionOrders + g
  BY <1>1 DEF FractionOrders
<1> QED BY <1>2, <1>3

LEMMA OneOfThree ==
    ASSUME NEW P, NEW R, NEW S, NEW x \in S, NEW y \in S, NEW z \in S
    PROVE  (CASE P -> x [] ~P /\ R -> y [] OTHER -> z) \in S
<1>1. CASE P
  BY <1>1
<1>2. CASE ~P /\ R
  BY <1>2
<1>3. CASE ~P /\ ~R
  BY <1>3
<1> QED BY <1>1, <1>2, <1>3

LEMMA FractionsAreFew ==
    ASSUME NEW c, c.digits \in Nat
    PROVE  FractionOrder(c) \in Fractions
<1> DEFINE tenth == 1 + (c.digits % 100) \div 10
           hundredth == 1 + (c.digits % 10)
           end == IF c.zoned THEN 0 ELSE 11
           P == c.digits % 100 = 0
           R == c.digits % 10 = 0
           x == ((end * 12) * 12) * 12
           y == ((12 + tenth) * 12 + end) * 12
           z == ((12 + tenth) * 12 + hundredth) * 12 + end
<1>1. tenth \in 0 .. 11 /\ hundredth \in 0 .. 11 /\ end \in 0 .. 11
  BY DigitsAreFew
<1>2. FractionOrder(c) = CASE P -> x [] ~P /\ R -> y [] OTHER -> z
  BY Zenon DEF FractionOrder
<1> HIDE DEF P, R, tenth, hundredth, end
<1>3. x \in Fractions /\ y \in Fractions /\ z \in Fractions
  BY <1>1, PlacesAddUp, Zenon
<1> HIDE DEF x, y, z
<1> QED BY <1>2, <1>3, OneOfThree, Zenon

LEMMA OrderIsNumber == ASSUME NEW c, c.digits \in Nat PROVE StringOrder(c) \in Nat
BY DigitsAreFew, FractionsAreFew, FirstDecides, Zenon DEF StringOrder

(* Of two times in different seconds the later one is the later string. *)
LEMMA LaterSecond ==
    ASSUME NEW a, a.digits \in Nat, NEW b, b.digits \in Nat, Second(a.digits) > Second(b.digits)
    PROVE  StringOrder(a) > StringOrder(b)
<1> DEFINE n == a.digits \div 100
           m == b.digits \div 100
           f == FractionOrder(a)
           g == FractionOrder(b)
<1>1. n \in Nat /\ m \in Nat /\ f \in Fractions /\ g \in Fractions
  BY DigitsAreFew, FractionsAreFew, Zenon
<1>2. n > m
  BY Zenon DEF Second
<1>3. StringOrder(a) = n * FractionOrders + f /\ StringOrder(b) = m * FractionOrders + g
  BY Zenon DEF StringOrder
<1> HIDE DEF n, m, f, g
<1> QED BY <1>1, <1>2, <1>3, FirstDecides

(* the latest time is that of some event counted, and none is of a later second *)
LatestFollows ==
    /\ IsStats(stats)
    /\ Counted = {} => stats.latest = NotWritten
    /\ Counted # {} =>
          /\ \E e \in Counted : Written(e) = stats.latest
          /\ \A e \in Counted : Second(Written(e).digits) <= Second(stats.latest.digits)

(* Only Count adds to what is counted. *)
LEMMA CountingCounts ==
    ASSUME EverythingIsTracked, NEW s \in Senders, Count(s)
    PROVE  /\ Head(todo[s]).event \in StoredEvents
           /\ Counted' = Counted \cup {Head(todo[s]).event}
<1> DEFINE e == Head(todo[s]).event
           Pending == {Head(todo[t]).event : t \in {u \in Senders : pc[u] = "count"}}
           Rest == {Head(todo[t]).event : t \in {u \in Senders \ {s} : pc[u] = "count"}}
<1>1. /\ pc[s] = "count" /\ stored' = stored /\ pc'[s] = "ingest"
      /\ \A t \in Senders \ {s} : pc'[t] = pc[t] /\ todo'[t] = todo[t]
  BY DEF Count, Goto, EverythingIsTracked, FileIsSettled
<1>2. e \in StoredEvents
  BY <1>1 DEF EverythingIsTracked, CountedOnce
<1>3. e \notin Rest
  BY <1>1 DEF EverythingIsTracked, CountedOnce
<1>4. Pending = Rest \cup {e}
  BY <1>1
<1>5. Pending' = Rest
  BY <1>1
<1>6. StoredEvents' = StoredEvents /\ Counted = StoredEvents \ Pending
      /\ Counted' = StoredEvents' \ Pending'
  BY <1>1 DEF StoredEvents, Counted
<1> HIDE DEF Pending, Rest, e
<1>7. Counted' = Counted \cup {e}
  BY <1>2, <1>3, <1>4, <1>5, <1>6
<1> QED BY <1>2, <1>7 DEF e

(* A step that neither stores nor moves a sender that counts leaves what was counted alone. *)
LEMMA NobodyCounts ==
    ASSUME stored' = stored,
           \A s \in Senders : pc[s] = "count" \/ pc'[s] = "count"
                                 => pc'[s] = pc[s] /\ todo'[s] = todo[s]
    PROVE  Counted' = Counted
<1>1. {s \in Senders : pc'[s] = "count"} = {s \in Senders : pc[s] = "count"}
  OBVIOUS
<1>2. \A s \in {t \in Senders : pc[t] = "count"} : todo'[s] = todo[s]
  OBVIOUS
<1>3. {Head(todo'[s]).event : s \in {t \in Senders : pc'[t] = "count"}}
         = {Head(todo[s]).event : s \in {t \in Senders : pc[t] = "count"}}
  BY <1>1, <1>2
<1> QED BY <1>3 DEF Counted

(* An event that is stored is not counted yet. *)
LEMMA StoringCountsNone ==
    ASSUME EverythingIsTracked, NEW s \in Senders, Ingest(s)
    PROVE  Counted' = Counted
<1> DEFINE h == Head(todo[s])
           e == Accepted(h.event, Now)
           rec == [endpoint |-> post[s].endpoint, row |-> h.row, event |-> e]
<1>1. /\ pc[s] = "ingest" /\ todo[s] # <<>>
      /\ \A t \in Senders \ {s} : pc'[t] = pc[t] /\ todo'[t] = todo[t]
  BY DEF Ingest, Ingesting, Goto, EverythingIsTracked, FileIsSettled
<1>2. CASE stored' = stored /\ pc' = pc
  BY <1>1, <1>2, NobodyCounts
<1>3. CASE ~(stored' = stored /\ pc' = pc)
  <2>1. /\ e.id \notin seenIDs /\ stored' = Append(stored, rec)
        /\ todo' = [todo EXCEPT ![s][1].event = e] /\ pc' = [pc EXCEPT ![s] = "count"]
    BY <1>3 DEF Ingest, Ingesting, Goto
  <2>2. PICK S : todo[s] \in Seq(S) /\ \A q \in S : Decoded(q)
    BY DEF EverythingIsTracked, FileIsSettled
  <2>3. pc'[s] = "count" /\ Head(todo'[s]).event = e
    <3> DEFINE x == [h EXCEPT !.event = e]
    <3>1. todo'[s] = [todo[s] EXCEPT ![1] = x]
      BY <1>1, <2>1, <2>2 DEF EverythingIsTracked, FileIsSettled
    <3>2. h \in S
      BY <1>1, <2>2
    <3>3. x.event = e
      <4> HIDE DEF h, e
      <4> QED BY <2>2, <3>2 DEF Decoded
    <3> HIDE DEF x
    <3>4. Head(todo'[s]) = x
      BY <1>1, <2>2, <3>1, HeadReplaced
    <3> QED BY <2>1, <3>3, <3>4 DEF EverythingIsTracked, FileIsSettled
  <2>4. StoredEvents' = StoredEvents \cup {e}
    <3>1. PICK R : stored \in Seq(R)
      BY DEF EverythingIsTracked, FileIsSettled
    <3>2. rec.event = e
      OBVIOUS
    <3> HIDE DEF rec, e
    <3>3. Range(stored') = Range(stored) \cup {rec}
      <4>1. stored \in Seq(R \cup {rec})
        BY <3>1
      <4> QED BY <2>1, <4>1, RangeAppend
    <3> QED BY <3>2, <3>3 DEF StoredEvents, Range
  <2>5. e \notin StoredEvents
    BY <2>1 DEF EverythingIsTracked, FileIsKnown
  <2> DEFINE Pending == {Head(todo[t]).event : t \in {u \in Senders : pc[u] = "count"}}
  <2>6. Pending' = Pending \cup {e}
    <3> HIDE DEF e
    <3> QED BY <1>1, <2>3
  <2>7. Counted = StoredEvents \ Pending /\ Counted' = StoredEvents' \ Pending'
    BY DEF Counted, StoredEvents
  <2> HIDE DEF e, Pending
  <2> QED BY <2>4, <2>5, <2>6, <2>7
<1> QED BY <1>2, <1>3

(* An event that is stored has a time that is written. *)
LEMMA StoredIsWritten ==
    ASSUME EverythingIsTracked, NEW e \in StoredEvents
    PROVE  Written(e).digits \in Nat /\ Written(e) # NotWritten
<1>1. PICK i \in DOMAIN stored : e = stored[i].event
  BY DEF StoredEvents
<1>2. Zoned(e) /\ e.received \in Nat
  BY <1>1 DEF EverythingIsTracked, FileIsKnown, MadeFor, Made
<1>3. e.received # NoTime
  BY <1>1 DEF EverythingIsTracked, FileIsKnown, MadeFor, Made
<1>4. e.offset \in Int /\ e.received + e.offset \in Nat
  BY <1>2 DEF Zoned, InvalidTime
<1>5. Written(e).digits = e.received + e.offset /\ Written(e).zoned = (e.offset # 0)
  BY DEF Written
<1>6. ASSUME Written(e) = NotWritten PROVE FALSE
  <2>1. Written(e).digits = NoTime /\ Written(e).zoned = FALSE
    BY <1>6 DEF NotWritten
  <2>2. e.offset = 0
    BY <1>5, <2>1
  <2> QED BY <1>2, <1>3, <1>5, <2>1, <2>2
<1> QED BY <1>4, <1>5, <1>6

(* Counting an event of the file keeps the latest time the latest to the second. *)
LEMMA CountingKeepsLatest ==
    ASSUME EverythingIsTracked, LatestFollows, NEW s \in Senders, Count(s)
    PROVE  LatestFollows'
<1> DEFINE e == Head(todo[s]).event
<1>1. e \in StoredEvents /\ Counted' = Counted \cup {e}
  BY CountingCounts
<1>2. \A q \in StoredEvents : Written(q).digits \in Nat /\ Written(q) # NotWritten
  BY StoredIsWritten
<1>3. Counted \subseteq StoredEvents
  BY DEF Counted, StoredEvents
<1>4. Added(stats, e, stats')
  <2>1. IsStats(stats) /\ stats' = StatsAdd(stats, e, Now \div 100)
    BY DEF Count, LatestFollows
  <2> HIDE DEF e
  <2> QED BY <2>1, StatsAdded
<1> HIDE DEF e
<1> DEFINE w == Written(e)
           was == stats.latest
<1>5. IsStats(stats') /\ stats'.latest = LaterOf(stats, e)
  BY <1>4 DEF Added
<1>6. w.digits \in Nat /\ Second(w.digits) \in Nat
  BY <1>1, <1>2 DEF Second
<1>7. CASE Counted = {}
  <2>1. stats'.latest = w /\ Counted' = {e}
    BY <1>1, <1>5, <1>7 DEF LatestFollows, LaterOf
  <2>2. Second(w.digits) <= Second(w.digits)
    BY <1>6
  <2> QED BY <1>5, <2>1, <2>2 DEF LatestFollows
<1>8. CASE Counted # {}
  <2>1. PICK q \in Counted : Written(q) = was
    BY <1>8 DEF LatestFollows
  <2>2. was.digits \in Nat /\ was # NotWritten /\ Second(was.digits) \in Nat
    BY <1>2, <1>3, <2>1 DEF Second
  <2>3. \A r \in Counted : /\ Second(Written(r).digits) \in Nat
                           /\ Second(Written(r).digits) <= Second(was.digits)
    BY <1>2, <1>3, <1>8 DEF LatestFollows, Second
  <2>4. StringOrder(w) \in Nat /\ StringOrder(was) \in Nat
    BY <1>6, <2>2, OrderIsNumber
  <2>5. CASE StringOrder(w) > StringOrder(was)
    <3>1. stats'.latest = w
      BY <1>5, <2>5 DEF LaterOf
    <3>2. Second(was.digits) <= Second(w.digits)
      <4>1. ~(Second(was.digits) > Second(w.digits))
        <5> SUFFICES ASSUME Second(was.digits) > Second(w.digits) PROVE FALSE
          OBVIOUS
        <5>1. StringOrder(was) > StringOrder(w)
          BY <1>6, <2>2, LaterSecond
        <5> QED BY <2>4, <2>5, <5>1
      <4> QED BY <1>6, <2>2, <4>1
    <3> HIDE DEF w, was
    <3>3. \A r \in Counted : Second(Written(r).digits) <= Second(w.digits)
      BY <1>6, <2>2, <2>3, <3>2
    <3>4. Second(w.digits) <= Second(w.digits)
      BY <1>6
    <3> QED BY <1>1, <1>5, <3>1, <3>3, <3>4 DEF LatestFollows, w
  <2>6. CASE ~(StringOrder(w) > StringOrder(was))
    <3>1. stats'.latest = was
      BY <1>5, <2>2, <2>6 DEF LaterOf
    <3>2. Second(w.digits) <= Second(was.digits)
      <4>1. ~(Second(w.digits) > Second(was.digits))
        BY <1>6, <2>2, <2>6, LaterSecond
      <4> QED BY <1>6, <2>2, <4>1
    <3>3. \A r \in Counted' : Second(Written(r).digits) <= Second(was.digits)
      BY <1>1, <2>3, <3>2
    <3> QED BY <1>1, <1>5, <2>1, <3>1, <3>3 DEF LatestFollows
  <2> QED BY <2>5, <2>6
<1> QED BY <1>7, <1>8

(* LatestFollows is an invariant. *)
THEOREM LatestAlwaysFollows == Spec => []LatestFollows
<1>1. Init => LatestFollows
  <2> SUFFICES ASSUME Init PROVE LatestFollows
    OBVIOUS
  <2>1. Counted = {}
    BY DEF Init, Counted
  <2>2. IsStats(stats) /\ stats.latest = NotWritten
    BY DEF Init, IsStats, NewStats
  <2> QED BY <2>1, <2>2 DEF LatestFollows
<1>2. EverythingIsTracked /\ LatestFollows /\ [Next]_vars => LatestFollows'
  <2> SUFFICES ASSUME EverythingIsTracked, LatestFollows, [Next]_vars PROVE LatestFollows'
    OBVIOUS
  <2>1. ASSUME NEW s \in Senders, Count(s) PROVE LatestFollows'
    BY <2>1, CountingKeepsLatest
  <2>2. ASSUME NEW s \in Senders, Ingest(s) PROVE LatestFollows'
    <3>1. Counted' = Counted /\ stats' = stats
      BY <2>2, StoringCountsNone DEF Ingest, Ingesting
    <3> QED BY <3>1 DEF LatestFollows
  <2>3. ASSUME NEW s \in Senders, Send(s) \/ SendAgain(s) \/ AnswerArrives(s) \/ AnswerPost(s)
        PROVE  LatestFollows'
    <3>1. /\ stored' = stored /\ stats' = stats /\ pc[s] # "count" /\ pc'[s] # "count"
          /\ \A t \in Senders \ {s} : pc'[t] = pc[t] /\ todo'[t] = todo[t]
      BY <2>3 DEF Send, SendAgain, Deliver, AnswerArrives, AnswerPost, Goto,
                  EverythingIsTracked, FileIsSettled
    <3>2. Counted' = Counted
      BY <3>1, NobodyCounts
    <3> QED BY <3>1, <3>2 DEF LatestFollows
  <2>4. CASE ReadSummary \/ ReadTotal \/ ReadCritical \/ Tick \/ UNCHANGED vars
    <3>1. UNCHANGED <<stored, stats, pc, todo>>
      BY <2>4 DEF ReadSummary, ReadTotal, ReadCritical, Tick, vars, senderVars
    <3>2. Counted' = Counted
      BY <3>1 DEF Counted
    <3> QED BY <3>1, <3>2 DEF LatestFollows
  <2> QED BY <2>1, <2>2, <2>3, <2>4 DEF Next
<1> QED BY <1>1, <1>2, EverythingStaysTracked, PTL DEF Spec

(* The latest time, found by comparing strings, is the last one written to the second. *)
THEOREM LatestStaysThisSecond == Spec => []LatestIsThisSecond
<1>1. EverythingIsTracked /\ LatestFollows => LatestIsThisSecond
  <2> SUFFICES ASSUME EverythingIsTracked, LatestFollows, Counted # {}
               PROVE  Second(stats.latest.digits)
                         = Max({Second(Written(e).digits) : e \in Counted})
    BY DEF LatestIsThisSecond
  <2> DEFINE S == {Second(Written(e).digits) : e \in Counted}
             m == Second(stats.latest.digits)
  <2>1. m \in S /\ \A n \in S : n <= m
    BY DEF LatestFollows
  <2>2. \A e \in Counted : Written(e).digits \in Nat
    BY StoredIsWritten DEF Counted, StoredEvents
  <2>3. S \subseteq Nat
    BY <2>2 DEF Second
  <2> HIDE DEF S, m
  <2>4. \A x \in S : (\A y \in S : x >= y) => x = m
    BY <2>1, <2>3
  <2>5. m \in S /\ \A y \in S : m >= y
    BY <2>1, <2>3
  <2>6. Max(S) = m
    BY <2>4, <2>5 DEF Max
  <2> QED BY <2>6 DEF S, m
<1> QED BY <1>1, EverythingStaysTracked, LatestAlwaysFollows, PTL
-----------------------------------------------------------------------------
(* Whoever has stored an event and not counted it yet. *)
Counting == {s \in Senders : pc[s] = "count"}

(* each of the six maps counts the events counted, and these are the events stored but
   those not counted yet *)
CountsAgree ==
    /\ IsStats(stats)
    /\ \A m \in {stats.bySource, stats.bySeverity, stats.byCategory, stats.bySourcetype,
                 stats.timeline, stats.sources} : IsCount(m, stats.totalReceived)
    /\ stats.totalReceived \in Nat
    /\ IsFiniteSet(Counting)
    /\ stats.totalReceived + Cardinality(Counting) = Len(stored)

(* An event counted is counted in each map. *)
LEMMA CountingKeepsAgreed ==
    ASSUME FileIsSettled, CountsAgree, NEW s \in Senders, Count(s)
    PROVE  CountsAgree'
<1> DEFINE e == Head(todo[s]).event
           source == IF e.ip # "" THEN e.ip ELSE e.name
           n == stats.totalReceived
<1>1. Added(stats, e, stats')
  <2>1. IsStats(stats) /\ stats' = StatsAdd(stats, e, Now \div 100)
    BY DEF Count, CountsAgree
  <2> HIDE DEF e
  <2> QED BY <2>1, StatsAdded
<1>2. /\ IsStats(stats') /\ stats'.totalReceived = n + 1
      /\ stats'.bySource = Incremented(stats.bySource, e.type)
      /\ stats'.bySeverity = Incremented(stats.bySeverity, e.severity)
      /\ stats'.byCategory = Incremented(stats.byCategory, e.category)
      /\ stats'.bySourcetype = Incremented(stats.bySourcetype, e.sourcetype)
      /\ stats'.timeline = Incremented(stats.timeline, Bucket(e.received))
      /\ stats'.sources = Incremented(stats.sources, source)
  <2> HIDE DEF e
  <2> QED BY <1>1, Zenon DEF Added
<1>3. n \in Nat /\ IsFiniteSet(Counting) /\ n + Cardinality(Counting) = Len(stored)
  BY DEF CountsAgree
<1>4. /\ IsCount(stats.bySource, n) /\ IsCount(stats.bySeverity, n)
      /\ IsCount(stats.byCategory, n) /\ IsCount(stats.bySourcetype, n)
      /\ IsCount(stats.timeline, n) /\ IsCount(stats.sources, n)
  BY DEF CountsAgree
<1> HIDE DEF e, source, n
<1>5. ASSUME NEW m, IsCount(m, n), NEW x PROVE IsCount(Incremented(m, x), n + 1)
  BY <1>5, CountingAddsOne
<1>6. /\ IsCount(stats'.bySource, n + 1) /\ IsCount(stats'.bySeverity, n + 1)
      /\ IsCount(stats'.byCategory, n + 1) /\ IsCount(stats'.bySourcetype, n + 1)
      /\ IsCount(stats'.timeline, n + 1) /\ IsCount(stats'.sources, n + 1)
  BY <1>2, <1>4, <1>5
<1>7. /\ s \in Counting /\ Counting' = Counting \ {s} /\ stored' = stored
  BY DEF Count, Goto, Counting, FileIsSettled
<1>8. IsFiniteSet(Counting') /\ Cardinality(Counting') = Cardinality(Counting) - 1
  BY <1>3, <1>7, FS_RemoveElement
<1>9. Cardinality(Counting) \in Nat
  BY <1>3, FS_CardinalityType
<1>10. (n + 1) + Cardinality(Counting') = Len(stored')
  BY <1>3, <1>7, <1>8, <1>9
<1> QED BY <1>2, <1>3, <1>6, <1>8, <1>10 DEF CountsAgree

(* An event stored is one more to count. *)
LEMMA StoringKeepsAgreed ==
    ASSUME FileIsSettled, CountsAgree, NEW s \in Senders, Ingest(s)
    PROVE  CountsAgree'
<1>1. stats' = stats /\ pc[s] = "ingest"
  BY DEF Ingest, Ingesting
<1>2. CASE stored' = stored /\ pc' = pc
  BY <1>1, <1>2 DEF CountsAgree, Counting
<1>3. CASE ~(stored' = stored /\ pc' = pc)
  <2> DEFINE e == Accepted(Head(todo[s]).event, Now)
             rec == [endpoint |-> post[s].endpoint, row |-> Head(todo[s]).row, event |-> e]
  <2>1. stored' = Append(stored, rec) /\ pc' = [pc EXCEPT ![s] = "count"]
    BY <1>3 DEF Ingest, Ingesting, Goto
  <2> HIDE DEF rec
  <2>2. s \notin Counting /\ Counting' = Counting \cup {s}
    BY <1>1, <2>1 DEF Counting, FileIsSettled
  <2>3. IsFiniteSet(Counting)
    BY DEF CountsAgree
  <2>4. IsFiniteSet(Counting') /\ Cardinality(Counting') = Cardinality(Counting) + 1
    BY <2>2, <2>3, FS_AddElement
  <2>5. Cardinality(Counting) \in Nat
    BY <2>3, FS_CardinalityType
  <2>6. Len(stored') = Len(stored) + 1
    BY <2>1 DEF FileIsSettled
  <2>7. stats.totalReceived + Cardinality(Counting') = Len(stored')
    BY <2>4, <2>5, <2>6 DEF CountsAgree
  <2> QED BY <1>1, <2>4, <2>7 DEF CountsAgree
<1> QED BY <1>2, <1>3

(* CountsAgree is an invariant. *)
THEOREM CountsAlwaysAgree == Spec => []CountsAgree
<1>1. Init => CountsAgree
  <2> SUFFICES ASSUME Init PROVE CountsAgree
    OBVIOUS
  <2>1. Counting = {} /\ Len(stored) = 0
    BY DEF Init, Counting
  <2>2. IsFiniteSet(Counting) /\ Cardinality(Counting) = 0
    BY <2>1, FS_EmptySet
  <2>3. /\ IsStats(stats) /\ stats.totalReceived = 0
        /\ stats.bySource = <<>> /\ stats.bySeverity = <<>> /\ stats.byCategory = <<>>
        /\ stats.bySourcetype = <<>> /\ stats.timeline = <<>> /\ stats.sources = <<>>
    BY DEF Init, IsStats, NewStats
  <2> QED BY <2>1, <2>2, <2>3, NothingIsCounted DEF CountsAgree
<1>2. FileIsSettled /\ CountsAgree /\ [Next]_vars => CountsAgree'
  <2> SUFFICES ASSUME FileIsSettled, CountsAgree, [Next]_vars PROVE CountsAgree'
    OBVIOUS
  <2>1. ASSUME NEW s \in Senders, Count(s) PROVE CountsAgree'
    BY <2>1, CountingKeepsAgreed
  <2>2. ASSUME NEW s \in Senders, Ingest(s) PROVE CountsAgree'
    BY <2>2, StoringKeepsAgreed
  <2>3. ASSUME NEW s \in Senders, Send(s) \/ SendAgain(s) \/ AnswerArrives(s) \/ AnswerPost(s)
        PROVE  CountsAgree'
    <3>1. /\ stored' = stored /\ stats' = stats /\ pc[s] # "count" /\ pc'[s] # "count"
          /\ \A t \in Senders \ {s} : pc'[t] = pc[t]
      BY <2>3 DEF Send, SendAgain, Deliver, AnswerArrives, AnswerPost, Goto, FileIsSettled
    <3>2. Counting' = Counting
      BY <3>1 DEF Counting
    <3> QED BY <3>1, <3>2 DEF CountsAgree
  <2>4. CASE ReadSummary \/ ReadTotal \/ ReadCritical \/ Tick \/ UNCHANGED vars
    <3>1. UNCHANGED <<stored, stats, pc>>
      BY <2>4 DEF ReadSummary, ReadTotal, ReadCritical, Tick, vars, senderVars
    <3>2. Counting' = Counting
      BY <3>1 DEF Counting
    <3> QED BY <3>1, <3>2 DEF CountsAgree
  <2> QED BY <2>1, <2>2, <2>3, <2>4 DEF Next
<1> QED BY <1>1, <1>2, FileStaysSettled, PTL DEF Spec

(* The counters add up to the events stored, whatever the names in them are. *)
THEOREM CountersAddUp == Spec => []StatsAddUp
<1>1. CountsAgree => StatsAddUp
  <2> SUFFICES ASSUME CountsAgree PROVE StatsAddUp
    OBVIOUS
  <2> DEFINE n == stats.totalReceived
  <2>1. n \in Nat /\ Cardinality(Counting) \in Nat /\ n + Cardinality(Counting) = Len(stored)
    BY FS_CardinalityType DEF CountsAgree
  <2>2. n = Len(stored) - Cardinality(Counting)
    BY <2>1
  <2>3. Quantify(Senders, LAMBDA s : pc[s] = "count") = Cardinality(Counting)
    BY DEF Quantify, Counting
  <2>4. /\ TotalOf(stats.bySource) = n /\ TotalOf(stats.bySeverity) = n
        /\ TotalOf(stats.byCategory) = n /\ TotalOf(stats.bySourcetype) = n
        /\ TotalOf(stats.timeline) = n /\ TotalOf(stats.sources) = n
    BY DEF CountsAgree, IsCount
  <2> QED BY <2>2, <2>3, <2>4 DEF StatsAddUp
<1> QED BY <1>1, CountsAlwaysAgree, PTL
-----------------------------------------------------------------------------
(***************************************************************************)
(* What the events tell: the alarm of the class a row was put in, and the  *)
(* meaning of a line of sshd, go into the file as the tables made them.    *)
(***************************************************************************)
(* e, the event of a row, tells what there is to tell of the row *)
Told(endpoint, row, e) ==
    /\ e.type \in CanonicalTypes
    /\ Identified(e)
    /\ IsAlarm(e) => /\ e.risk \in {"HIGH", "CRITICAL"}
                     /\ e.alert \/ FromControlPlane([endpoint |-> endpoint], row)
    /\ e.type = "jumphost" /\ IsSSHLine(row) => e.message = LineMessage(row.words)

(* A class that raises its alarms makes an event that tells them. *)
LEMMA ClassRaisesEvent ==
    ASSUME NEW endpoint, NEW type \in CanonicalTypes, type # "jumphost", NEW class,
           RaisesAlarm(class), NEW row, NEW raw, NEW n
    PROVE  Told(endpoint, row, EventOf(type, class, row, raw, n))
<1> DEFINE e == EventOf(type, class, row, raw, n)
<1>1. /\ e.type = type /\ e.risk = class.risk /\ e.alert = class.alert
      /\ IsAlarm(e) <=> IsAlarm(class)
      /\ Identified(e)
  BY ClassTells
<1> HIDE DEF e
<1> QED BY <1>1 DEF Told, RaisesAlarm, e

(* A row of the GDS, in whichever form it comes. *)
LEMMA GDSTells ==
    ASSUME NEW row, NEW n PROVE Told("gds", row, NormalizeGDSEvent(row, n))
<1>1. PICK class, raw : GDSForm(row, class, raw)
  BY GDSForms
<1> DEFINE e == EventOf("gds", class, row, raw, n)
<1>2. NormalizeGDSEvent(row, n) = e
  BY <1>1 DEF GDSForm
<1>3. /\ e.type = "gds" /\ e.risk = class.risk /\ e.alert = class.alert
      /\ IsAlarm(e) <=> IsAlarm(class)
      /\ Identified(e)
  BY ClassTells
<1> HIDE DEF e
<1>4. IsAlarm(e) => e.risk \in {"HIGH", "CRITICAL"} /\ (e.alert \/ FromPlane(row))
  BY <1>1, <1>3 DEF GDSForm, RaisesAlarm
<1>5. "gds" \in CanonicalTypes
  BY DEF CanonicalTypes, KnownTypes, DMZServices
<1> QED BY <1>2, <1>3, <1>4, <1>5 DEF Told, FromPlane

(* A row of the jump host, whose message is told as it is understood. *)
LEMMA JumphostTells ==
    ASSUME NEW row, NEW n, NEW e, e = NormalizeJumphostEvent(row, n)
    PROVE  /\ e.type = "jumphost" /\ e.message = MessageOfRow(row)
           /\ IsAlarm(e) => e.risk \in {"HIGH", "CRITICAL"} /\ e.alert
           /\ Identified(e)
<1> DEFINE class == ClassifyJumphost(row)
           said == [class EXCEPT !.alert = @ \/ row.alert]
           b == EventOf("jumphost", said, row, <<row.details>>, n)
           high == class.message \in HighValueMessages
<1>1. RaisesAlarm(said) /\ said.message = MessageOfRow(row)
  BY JumphostRaisesAlarm, RowAddsAlert
<1>2. e = [b EXCEPT !.high = high]
  BY DEF NormalizeJumphostEvent
<1> HIDE DEF class, said
<1>3. /\ b.type = "jumphost" /\ b.message = said.message
      /\ b.risk = said.risk /\ b.alert = said.alert
      /\ IsAlarm(b) <=> IsAlarm(said)
      /\ DOMAIN b = DOMAIN BlankEvent
      /\ Identified(b)
  BY ClassTells
<1> HIDE DEF b, high
<1>4. /\ e.type = b.type /\ e.message = b.message /\ e.risk = b.risk
      /\ e.alert = b.alert /\ e.severity = b.severity
  BY <1>2, <1>3 DEF BlankEvent
<1>5. e.id = b.id /\ e.timestamp = b.timestamp /\ e.ip = b.ip /\ e.raw = b.raw
  BY <1>2, <1>3 DEF BlankEvent
<1>6. Identified(e)
  BY <1>3, <1>4, <1>5 DEF Identified
<1> QED BY <1>1, <1>3, <1>4, <1>6 DEF RaisesAlarm, IsAlarm

(* A line of syslog is one of the jump host's or of the firewall. *)
LEMMA SyslogTells ==
    ASSUME NEW row, DOMAIN row = DOMAIN BlankRow, ~row.json, NEW n
    PROVE  Told("syslog", row, NormalizeSyslogLine(row, n))
<1>1. CASE IsJumphostSyslog(row)
  <2> DEFINE q == [row EXCEPT !.time = NoTime, !.message = LineMessage(row.words)]
             e == NormalizeJumphostEvent(q, n)
  <2>1. NormalizeSyslogLine(row, n) = e
    BY <1>1 DEF NormalizeSyslogLine, LineMessage
  <2>2. q.message = LineMessage(row.words) /\ q.words = row.words /\ ~q.json
    BY DEF BlankRow
  <2>3. /\ e.type = "jumphost" /\ e.message = MessageOfRow(q)
        /\ IsAlarm(e) => e.risk \in {"HIGH", "CRITICAL"} /\ e.alert
        /\ Identified(e)
    BY JumphostTells
  <2> HIDE DEF q, e
  <2>4. IsSSHLine(row) => e.message = LineMessage(row.words)
    BY <2>2, <2>3, SyslogMeansSame DEF IsSSHLine
  <2>5. "jumphost" \in CanonicalTypes
    BY DEF CanonicalTypes, KnownTypes, DMZServices
  <2> QED BY <2>1, <2>3, <2>4, <2>5 DEF Told
<1>2. CASE ~IsJumphostSyslog(row)
  <2> DEFINE b == Firewalled(row, n)
             e == EnsureDefaults(b, n)
  <2>1. NormalizeSyslogLine(row, n) = e
    BY <1>2 DEF NormalizeSyslogLine, NormalizeFirewall, Firewalled
  <2>2. IsEvent(b) /\ b.id = NoId /\ b.type = "firewall" /\ b.severity = "warning"
    BY FirewalledFields
  <2> HIDE DEF b
  <2>3. /\ e.type = "firewall" /\ ~(e.severity = "critical") /\ Identified(e)
    BY <2>2, DefaultsTell
  <2>4. "firewall" \in CanonicalTypes
    BY DEF CanonicalTypes, KnownTypes, DMZServices
  <2> HIDE DEF e
  <2> QED BY <2>1, <2>3, <2>4 DEF Told, IsAlarm
<1> QED BY <1>1, <1>2

(* An alert of the IDS has no risk. *)
LEMMA AlertTells ==
    ASSUME NEW row, NEW n PROVE Told("ids", row, NormalizeIDSAlert(row, n))
<1> DEFINE b == Alerted(LevelOf(row), row, TimeOf(row, n), n)
           e == EnsureDefaults(b, n)
<1>1. NormalizeIDSAlert(row, n) = e
  BY AlertIsAlerted
<1>2. IsEvent(b) /\ b.id = NoId /\ b.type = "ids" /\ b.risk = BlankEvent.risk
  BY AlertedFields
<1>3. BlankEvent.risk = NoName
  BY Zenon DEF BlankEvent, NoName
<1> HIDE DEF b
<1>4. e.type = "ids" /\ e.risk = NoName /\ Identified(e)
  BY <1>2, <1>3, DefaultsTell
<1>5. "ids" \in CanonicalTypes
  BY DEF CanonicalTypes, KnownTypes, DMZServices
<1> HIDE DEF e
<1> QED BY <1>1, <1>4, <1>5 DEF Told, IsAlarm

(* So every normalizer tells what there is to tell. *)
LEMMA RowIsTold ==
    ASSUME NEW d \in Deliveries, d.endpoint # "events", NEW i \in DOMAIN Kept(d), NEW n
    PROVE  Told(d.endpoint, Kept(d)[i], Normalize(d.endpoint, Kept(d)[i], n))
<1> DEFINE row == Kept(d)[i]
<1>1. DOMAIN row = DOMAIN BlankRow /\ (d.endpoint = "syslog" => ~row.json)
  <2>1. Kept(d) \in Seq(Range(d.rows))
    BY DeliveriesAssumption
  <2>2. row \in Range(d.rows)
    BY <2>1, ElementOfSeq
  <2>3. PICK k \in DOMAIN d.rows : row = d.rows[k]
    BY <2>2 DEF Range
  <2> QED BY <2>3, DeliveriesAssumption
<1> HIDE DEF row
<1>2. {"opcua_dmz_gateway", "vault"} \subseteq CanonicalTypes
  BY DEF CanonicalTypes, KnownTypes, DMZServices
<1>3. CASE d.endpoint = "gds"
  BY <1>3, GDSTells DEF Normalize, row
<1>4. CASE d.endpoint = "opcua"
  <2> DEFINE class == ClassifyGateway(row)
             said == [class EXCEPT !.alert = @ \/ row.alert]
             raw == KeptOfGateway(row, class.message)
  <2>1. RaisesAlarm(said)
    BY GatewayRaisesAlarm, RowAddsAlert
  <2>2. Normalize("opcua", row, n) = EventOf("opcua_dmz_gateway", said, row, raw, n)
    BY DEF Normalize, NormalizeOPCUADMZEvent
  <2> HIDE DEF said, raw
  <2> QED BY <1>2, <1>4, <2>1, <2>2, ClassRaisesEvent DEF row
<1>5. CASE d.endpoint = "jumphost"
  <2> DEFINE e == NormalizeJumphostEvent(row, n)
  <2>1. /\ e.type = "jumphost" /\ e.message = MessageOfRow(row)
        /\ IsAlarm(e) => e.risk \in {"HIGH", "CRITICAL"} /\ e.alert
        /\ Identified(e)
    BY JumphostTells
  <2>2. Normalize("jumphost", row, n) = e
    BY DEF Normalize
  <2>3. IsSSHLine(row) => e.message = LineMessage(row.words)
    BY <2>1, LineMeansSame
  <2>4. "jumphost" \in CanonicalTypes
    BY DEF CanonicalTypes, KnownTypes, DMZServices
  <2> HIDE DEF e
  <2>5. Told("jumphost", row, e)
    BY <2>1, <2>3, <2>4 DEF Told
  <2> QED BY <1>5, <2>2, <2>5 DEF row
<1>6. CASE d.endpoint = "vault"
  <2>1. Normalize("vault", row, n)
           = EventOf("vault", ClassifyVaultAudit(row), row, <<row.safe>>, n)
    BY DEF Normalize, NormalizeVaultAudit
  <2> QED BY <1>2, <1>6, <2>1, VaultRaisesAlarm, ClassRaisesEvent DEF row
<1>7. CASE d.endpoint = "ids"
  BY <1>7, AlertTells DEF Normalize, row
<1>8. CASE d.endpoint = "syslog"
  BY <1>1, <1>8, SyslogTells DEF Normalize, row
<1> QED BY <1>3, <1>4, <1>5, <1>6, <1>7, <1>8, DeliveriesAssumption

(* ingestOne leaves alone what an event tells. *)
LEMMA AcceptingKeepsTold ==
    ASSUME NEW endpoint, NEW row, NEW e, Told(endpoint, row, e), IsEvent(e),
           e.id # NoId, e.timestamp # NoTime, e.received # NoTime, NEW now
    PROVE  Told(endpoint, row, Accepted(e, now))
<1> DEFINE r == Accepted(e, now)
<1>1. e.type \in CanonicalTypes
  BY DEF Told
<1>2. /\ r.id = e.id /\ r.timestamp = e.timestamp /\ r.ip = e.ip
      /\ r.message = e.message /\ r.raw = e.raw /\ r.risk = e.risk /\ r.alert = e.alert
      /\ r.type = NormalizeSourceType(e.type)
      /\ r.severity = "critical" <=> e.severity = "critical"
  BY AcceptingChanges
<1>3. r.type = e.type
  BY <1>1, <1>2, CanonicalStays
<1> HIDE DEF r
<1>4. Identified(r)
  BY <1>2, <1>3 DEF Told, Identified
<1> QED BY <1>2, <1>3, <1>4 DEF Told, IsAlarm, r

(* what waits and what is stored, of all that goes through a table, tells *)
RowsAreTold ==
    /\ \A s \in Senders : post[s].endpoint # "events" =>
          \A k \in DOMAIN todo[s] : Told(post[s].endpoint, todo[s][k].row, todo[s][k].event)
    /\ \A i \in DOMAIN stored : stored[i].endpoint # "events" =>
          Told(stored[i].endpoint, stored[i].row, stored[i].event)

(* A body that is decoded tells, *)
LEMMA DeliveryTells ==
    ASSUME FileIsSettled, RowsAreTold, NEW s \in Senders, NEW d \in Deliveries, Deliver(s, d)
    PROVE  RowsAreTold'
<1>1. /\ stored' = stored /\ post'[s] = d
      /\ \A t \in Senders \ {s} : post'[t] = post[t] /\ todo'[t] = todo[t]
      /\ todo'[s] = IF Refused(d) THEN <<>> ELSE Decode(d, Now)
  BY DEF FileIsSettled, Deliver
<1>2. ASSUME NEW k \in DOMAIN todo'[s], d.endpoint # "events"
      PROVE  Told(d.endpoint, todo'[s][k].row, todo'[s][k].event)
  <2>1. todo'[s] = Decode(d, Now)
    BY <1>1
  <2> DEFINE e == Normalize(d.endpoint, Kept(d)[k], Now)
  <2>2. k \in DOMAIN Kept(d) /\ todo'[s][k] = [row |-> Kept(d)[k], event |-> e]
    BY <2>1, Zenon DEF Decode
  <2>3. Told(d.endpoint, Kept(d)[k], e)
    BY <1>2, <2>2, RowIsTold
  <2> HIDE DEF e
  <2> QED BY <2>2, <2>3
<1> QED BY <1>1, <1>2 DEF RowsAreTold

(* and so does what ingestOne makes of the next event. *)
LEMMA IngestTells ==
    ASSUME EverythingIsTracked, RowsAreTold, NEW s \in Senders, Ingest(s) PROVE RowsAreTold'
<1> DEFINE h == Head(todo[s])
           e == Accepted(h.event, Now)
           x == [endpoint |-> post[s].endpoint, row |-> h.row, event |-> e]
<1>0. FileIsSettled
  BY DEF EverythingIsTracked
<1>1. PICK S : todo[s] \in Seq(S) /\ \A y \in S : Decoded(y)
  BY <1>0 DEF FileIsSettled
<1>2. /\ todo[s] # <<>> /\ post' = post
      /\ \A t \in Senders \ {s} : todo'[t] = todo[t]
  BY <1>0 DEF FileIsSettled, Ingest, Ingesting
<1>3. /\ 1 \in DOMAIN todo[s] /\ h = todo[s][1] /\ h \in S
      /\ Len(todo[s]) \in Nat /\ DOMAIN todo[s] = 1 .. Len(todo[s])
  BY <1>1, <1>2
<1>4. post[s].endpoint # "events" => Told(post[s].endpoint, h.row, e)
  <2>1. pc[s] = "ingest"
    BY DEF Ingest, Ingesting
  <2>2. Made(h.event, Normalize(post[s].endpoint, h.row, 1))
    BY <1>2, <2>1, NextRow DEF MadeFor
  <2>3. post[s].endpoint # "events" => Told(post[s].endpoint, h.row, h.event)
    BY <1>3 DEF RowsAreTold
  <2> HIDE DEF h
  <2> QED BY <2>2, <2>3, AcceptingKeepsTold DEF Made
<1>5. ASSUME NEW k \in DOMAIN todo'[s], post[s].endpoint # "events"
      PROVE  Told(post[s].endpoint, todo'[s][k].row, todo'[s][k].event)
  <2>1. CASE todo'[s] = Tail(todo[s])
    <3>1. k + 1 \in DOMAIN todo[s] /\ todo'[s][k] = todo[s][k + 1]
      BY <1>1, <1>2, <2>1, HeadTailProperties
    <3> QED BY <1>5, <3>1 DEF RowsAreTold
  <2>2. CASE todo' = [todo EXCEPT ![s][1].event = e]
    <3>1. todo'[s] = [todo[s] EXCEPT ![1].event = e]
      BY <1>0, <2>2 DEF FileIsSettled
    <3>2. CASE k = 1
      <4>1. h = [row |-> h.row, event |-> h.event]
        BY <1>1, <1>3 DEF Decoded
      <4>2. todo'[s][1] = [h EXCEPT !.event = e]
        BY <1>3, <3>1
      <4> HIDE DEF h, e
      <4>3. todo'[s][1].row = h.row /\ todo'[s][1].event = e
        BY <4>1, <4>2
      <4> QED BY <1>4, <1>5, <3>2, <4>3
    <3>3. CASE k # 1
      <4>1. k \in DOMAIN todo[s] /\ todo'[s][k] = todo[s][k]
        BY <1>3, <3>1, <3>3
      <4> QED BY <1>5, <4>1 DEF RowsAreTold
    <3> QED BY <3>2, <3>3
  <2>3. todo'[s] = Tail(todo[s]) \/ todo' = [todo EXCEPT ![s][1].event = e]
    BY <1>0 DEF FileIsSettled, Ingest, Ingesting
  <2> QED BY <2>1, <2>2, <2>3
<1>6. ASSUME NEW i \in DOMAIN stored', stored'[i].endpoint # "events"
      PROVE  Told(stored'[i].endpoint, stored'[i].row, stored'[i].event)
  <2>1. CASE stored' = stored
    BY <1>6, <2>1 DEF RowsAreTold
  <2>2. CASE stored' # stored
    <3>1. stored' = Append(stored, x)
      BY <2>2 DEF Ingest, Ingesting
    <3>2. PICK R : stored \in Seq(R)
      BY <1>0 DEF FileIsSettled
    <3> HIDE DEF x
    <3>3. \/ i \in DOMAIN stored /\ stored'[i] = stored[i]
          \/ stored'[i] = x
      BY <3>1, <3>2, AppendProperties
    <3>4. x.endpoint # "events" => Told(x.endpoint, x.row, x.event)
      <4> HIDE DEF h, e
      <4> QED BY <1>4 DEF x
    <3> QED BY <1>6, <3>3, <3>4 DEF RowsAreTold
  <2> QED BY <2>1, <2>2
<1> HIDE DEF h, e, x
<1> QED BY <1>2, <1>5, <1>6 DEF RowsAreTold

(* What is told stays told on its way to the file. *)
THEOREM RowsStayTold == Spec => []RowsAreTold
<1>1. Init => RowsAreTold
  BY DEF Init, RowsAreTold
<1>2. EverythingIsTracked /\ RowsAreTold /\ [Next]_vars => RowsAreTold'
  <2> SUFFICES ASSUME EverythingIsTracked, RowsAreTold, [Next]_vars PROVE RowsAreTold'
    OBVIOUS
  <2>0. FileIsSettled
    BY DEF EverythingIsTracked
  <2>1. ASSUME NEW s \in Senders, Send(s) PROVE RowsAreTold'
    BY <2>0, <2>1, DeliveryTells DEF Send
  <2>2. ASSUME NEW s \in Senders, SendAgain(s) PROVE RowsAreTold'
    <3>1. post[s] \in Deliveries
      BY <2>0, <2>2 DEF SendAgain, FileIsSettled
    <3> QED BY <2>0, <2>2, <3>1, DeliveryTells DEF SendAgain
  <2>3. ASSUME NEW s \in Senders, Ingest(s) PROVE RowsAreTold'
    BY <2>3, IngestTells
  <2>4. ASSUME NEW s \in Senders, Count(s) PROVE RowsAreTold'
    <3>1. PICK S : todo[s] \in Seq(S)
      BY <2>0 DEF FileIsSettled
    <3>2. /\ todo[s] # <<>> /\ todo'[s] = Tail(todo[s]) /\ post' = post /\ stored' = stored
          /\ \A t \in Senders \ {s} : todo'[t] = todo[t]
      BY <2>0, <2>4 DEF Count, FileIsSettled
    <3>3. ASSUME NEW k \in DOMAIN todo'[s]
          PROVE  k + 1 \in DOMAIN todo[s] /\ todo'[s][k] = todo[s][k + 1]
      BY <3>1, <3>2, HeadTailProperties
    <3>4. ASSUME NEW t \in Senders, post'[t].endpoint # "events", NEW k \in DOMAIN todo'[t]
          PROVE  Told(post'[t].endpoint, todo'[t][k].row, todo'[t][k].event)
      <4>1. CASE t = s
        BY <3>2, <3>3, <3>4, <4>1 DEF RowsAreTold
      <4>2. CASE t # s
        BY <3>2, <3>4, <4>2 DEF RowsAreTold
      <4> QED BY <4>1, <4>2
    <3> QED BY <3>2, <3>4 DEF RowsAreTold
  <2>5. ASSUME NEW s \in Senders, AnswerArrives(s) PROVE RowsAreTold'
    <3>1. /\ todo[s] = <<>> /\ todo' = todo /\ stored' = stored
          /\ \A t \in Senders \ {s} : post'[t] = post[t]
      BY <2>5 DEF AnswerArrives, EverythingIsTracked, RowsAreTracked, FileIsSettled
    <3> QED BY <3>1 DEF RowsAreTold
  <2>6. ASSUME NEW s \in Senders, AnswerPost(s) PROVE RowsAreTold'
    BY <2>6 DEF AnswerPost, RowsAreTold
  <2>7. CASE ReadSummary \/ ReadTotal \/ ReadCritical \/ Tick \/ UNCHANGED vars
    BY <2>7 DEF ReadSummary, ReadTotal, ReadCritical, Tick, vars, senderVars, RowsAreTold
  <2> QED BY <2>1, <2>2, <2>3, <2>4, <2>5, <2>6, <2>7 DEF Next
<1> QED BY <1>1, <1>2, EverythingStaysTracked, PTL DEF Spec

(* A body that was answered is dealt with to its last row: each row is counted once, and
   each valid row with an id or a time of its own is in the file under its id, where the
   event says what the row says. *)
THEOREM AnsweredRowsAreFiled == Spec => []RowsAreAnswered
<1>1. EverythingIsTracked /\ RowsAreTold => RowsAreAnswered
  <2> SUFFICES ASSUME EverythingIsTracked, RowsAreTold, NEW s \in Senders, pc[s] = "answered"
               PROVE  /\ tally[s].accepted + tally[s].rejected + tally[s].known
                            = Len(Kept(post[s]))
                      /\ \A i \in DOMAIN Kept(post[s]) :
                            LET e == Normalize(post[s].endpoint, Kept(post[s])[i], 1) IN
                            Dated(Kept(post[s])[i]) /\ IsValid(e) =>
                               \E j \in DOMAIN stored :
                                  /\ stored[j].event.id = e.id
                                  /\ "events" \in {post[s].endpoint, stored[j].endpoint}
                                        \/ Says(stored[j].event) = Says(e)
    BY DEF RowsAreAnswered
  <2>1. Tracked(s) /\ todo[s] = <<>>
    BY DEF EverythingIsTracked, RowsAreTracked
  <2>2. /\ DOMAIN Kept(post[s]) = 1 .. Len(Kept(post[s])) /\ Len(Kept(post[s])) \in Nat
        /\ post[s] \in Deliveries
    BY <2>1, KeptIsSeq DEF Tracked
  <2>3. Dealt(s) = Len(Kept(post[s]))
    <3>1. Len(todo[s]) = 0
      BY <2>1
    <3> QED BY <2>2, <3>1 DEF Dealt
  <2>4. ASSUME NEW i \in DOMAIN Kept(post[s]), NEW e,
               e = Normalize(post[s].endpoint, Kept(post[s])[i], 1),
               Dated(Kept(post[s])[i]), IsValid(e)
        PROVE  \E j \in DOMAIN stored :
                  /\ stored[j].event.id = e.id
                  /\ "events" \in {post[s].endpoint, stored[j].endpoint}
                        \/ Says(stored[j].event) = Says(e)
    <3>1. e.id \in seenIDs
      BY <2>1, <2>2, <2>3, <2>4 DEF Tracked, Filed, RowId
    <3>2. PICK j \in DOMAIN stored : stored[j].event.id = e.id
      BY <3>1 DEF EverythingIsTracked, FileIsKnown, StoredEvents
    <3>3. ASSUME post[s].endpoint # "events", stored[j].endpoint # "events"
          PROVE  Says(stored[j].event) = Says(e)
      <4>1. Identified(e)
        BY <2>2, <2>4, <3>3, RowIsTold DEF Told
      <4>2. Identified(stored[j].event)
        BY <3>3 DEF RowsAreTold, Told
      <4> QED BY <3>2, <4>1, <4>2 DEF Identified, Says
    <3> QED BY <3>2, <3>3
  <2> QED BY <2>1, <2>3, <2>4 DEF Tracked
<1> QED BY <1>1, EverythingStaysTracked, RowsStayTold, PTL

(* Whichever table an occurrence goes through, what is called critical has a high risk and
   is an alert, the GDS control plane's form apart, and every alert is of high value. *)
THEOREM AlarmsAreRaised == Spec => []AlarmIsRaised
<1>1. FileIsSettled /\ RowsAreTold => AlarmIsRaised
  <2> SUFFICES ASSUME FileIsSettled, RowsAreTold, NEW i \in DOMAIN stored
               PROVE  LET e == stored[i].event IN
                      /\ e.alert => e.high
                      /\ e.severity = "critical" /\ e.risk # NoName
                                              /\ stored[i].endpoint # "events" =>
                            /\ e.risk \in {"HIGH", "CRITICAL"}
                            /\ e.high
                            /\ e.alert \/ FromControlPlane(stored[i], stored[i].row)
    BY DEF AlarmIsRaised
  <2> DEFINE e == stored[i].event
  <2>1. Settled(e)
    BY DEF FileIsSettled
  <2>2. stored[i].endpoint # "events" => Told(stored[i].endpoint, stored[i].row, e)
    BY DEF RowsAreTold
  <2> HIDE DEF e
  <2>3. e.alert \/ e.severity = "critical" => e.high
    BY <2>1 DEF Settled, IsHighValue
  <2> QED BY <2>2, <2>3 DEF Told, IsAlarm, FromControlPlane, e
<1> QED BY <1>1, FileStaysSettled, RowsStayTold, PTL

(* A line of sshd is told the same way in whichever form it comes. *)
THEOREM LinesMeanTheSame == Spec => []SameLineSameMessage
<1>1. RowsAreTold => SameLineSameMessage
  BY DEF RowsAreTold, Told, SameLineSameMessage
<1> QED BY <1>1, RowsStayTold, PTL
=============================================================================
