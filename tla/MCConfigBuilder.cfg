SPECIFICATION Spec
CONSTANTS
  Source = {s1}
  Guardrail = {g1}
  Transformer = {t1, t2}
  Webhook = {w1}
  Key = {k1}
  Org = {home, o1}
  Email = {owner, other}
  Home = home
  Owner = owner
  Secret = {old}
  Redacted = redacted
  t1 = t1
  t2 = t2
  Before <- MCBefore
  Existing <- MCExisting
  Call = {c1}
  MaxEdits = 2
  MaxFaults = 1
PROPERTIES BuildIsRegular Delivered
CHECK_DEADLOCK FALSE
