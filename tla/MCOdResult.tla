----------------------------- MODULE MCOdResult -----------------------------
(* A command of every kind, two of them for one table.  "limit" lacks its  *)
(* value, "recharge" has a date that is none, "days" covers two days.      *)
EXTENDS OdResult

MCKind == [days |-> "ls", all |-> "events", cat |-> "read", limit |-> "set",
           recharge |-> "dated", relay |-> "switch", time |-> "timesync", load |-> "direct",
           other |-> "unknown"]

MCSource == [c \in DOMAIN MCKind |-> IF c \in {"all", "limit", "load"} THEN "web" ELSE "mqtt"]

MCTable == [c \in DOMAIN MCKind |->
              CASE c = "days" -> "ls_data" [] c \in {"all", "cat"} -> "event_data" [] OTHER -> "none"]

MCParts == [c \in DOMAIN MCKind |-> IF c \in {"days", "all"} THEN 2 ELSE 1]

MCParam == [c \in DOMAIN MCKind |->
              CASE c = "limit" -> "missing" [] c = "recharge" -> "malformed" [] OTHER -> "given"]
=============================================================================
