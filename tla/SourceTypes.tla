----------------------------- MODULE SourceTypes -----------------------------
(***************************************************************************)
(* The names of sources (internal/sourceutil/source.go): what a sender may *)
(* call itself, the canonical type it is filed under, and what the         *)
(* collector derives from the type.                                        *)
(***************************************************************************)

NoName == ""

(* the first of two names that is not empty *)
FirstNonEmpty(a, b) == IF a # "" THEN a ELSE b

(* Blanks around a word are left out: of words, trimming changes only what is nothing
   but blanks. *)
Blanks == "_"
Trimmed(word) == IF word = Blanks THEN NoName ELSE word

DMZServices == {"influxdb", "opcua_dmz_gateway", "collector", "vault", "dmz_collector",
                "vault_agent", "gds", "postgres_gds", "jumphost"}

KnownTypes == DMZServices \cup {"firewall", "gds_agent", "scada", "plc", "opcua", "ews",
                                "ids", "manual_test"}

CanonicalTypes == KnownTypes \cup {"unknown"}

(* upper case and surrounding blanks are left out *)
NormalizeSourceType(raw) ==
    CASE raw \in KnownTypes -> raw
      [] raw = "opnsense" -> "firewall"
      [] raw = "gds-agent" -> "gds_agent"
      [] raw \in {"fuxa", "fuxa-ui"} -> "scada"
      [] raw \in {"opcua_gateway", "opcua-dmz-gateway"} -> "opcua_dmz_gateway"
      [] raw = "dmz-collector" -> "dmz_collector"
      [] raw = "vault-agent" -> "vault_agent"
      [] raw = "postgres-gds" -> "postgres_gds"
      [] raw \in {"jump_host", "jump-host"} -> "jumphost"
      [] raw = "ot_collector" -> "collector"
      [] OTHER -> "unknown"

GroupForSourceType(type) ==
    LET t == NormalizeSourceType(type) IN
    CASE t = "firewall" -> "Firewall"
      [] t = "plc" -> "PLCs"
      [] t = "scada" -> "SCADA / FUXA"
      [] t = "opcua" -> "OPC UA"
      [] t = "gds_agent" -> "GDS / PKI"
      [] t = "ews" -> "Engineering Workstation"
      [] t = "ids" -> "IDS / Future Monitoring"
      [] t \in DMZServices -> "DMZ Services"
      [] OTHER -> "Unknown / Other"

(* "labshock:a:b" is the pair of a and b *)
UnknownSourcetype == <<"ot", "unknown">>

SplunkSourcetypeFor(type) ==
    LET t == NormalizeSourceType(type) IN
    CASE t = "firewall" -> <<"net", "firewall">>
      [] t = "gds_agent" -> <<"ot", "gds">>
      [] t = "opcua_dmz_gateway" -> <<"dmz", "opcua_gateway">>
      [] t \in {"plc", "opcua", "scada", "ews", "ids"} -> <<"ot", t>>
      [] t \in DMZServices \ {"collector", "opcua_dmz_gateway"} -> <<"dmz", t>>
      [] OTHER -> UnknownSourcetype

IsInternalDMZSourceType(type) == NormalizeSourceType(type) \in DMZServices

IsDirectSIEMSourceType(type) == NormalizeSourceType(type) = "ids"

IsPlaceholderSourceName(name) == name \in {"Firewall Future", "IDS Future", "Future IDS"}

IsSupportOnlySourceName(name) == name \in {"Firewall Future", "IDS Future"}
=============================================================================
