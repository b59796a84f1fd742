CONSTANTS
  Nodes = {n1}
  Declared = {n1}
  Revisions = {r1}
  Ids = {t1, t2}
  HasDNS = TRUE
  CaddyManaged = TRUE
  TunnelManaged = TRUE
  Routes = {"telegram", "smtp"}
  Wants <- MCWants
  MaxFaults = 1
  MaxOther = 1
  Types = {"deploy"}
SPECIFICATION MCSpec
CHECK_DEADLOCK FALSE
PROPERTY OutboxDelivers
