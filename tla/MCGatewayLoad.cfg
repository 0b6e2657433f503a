SPECIFICATION Spec
CONSTANTS
  Key = {k1}
  Webhook = {w1}
  Cost = 2
  DefaultRate = 2
  DefaultBurst = 4
  AlertRate = 2
  AlertBurst = 2
  Overrides <- MCOverrides
  IdleTTL = 1
  Horizon = 3
  MaxEdits = 1
  Request = {c1, c2}
  MaxRetries = 1
  BaseBackoff = 1
  Timeout = 1
  ProxyTimeout = 2
INVARIANTS AdmissionsBounded AnsweredInTime CallsBounded
PROPERTY EventuallyAnswered
CHECK_DEADLOCK FALSE
