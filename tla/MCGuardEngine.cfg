SPECIFICATION FairSpec
CONSTANTS
  Guard = {g1, g2, g3}
  MaxThreshold = 4
  Configs <- MCConfigs
INVARIANTS
  DecisionSound
  ShadowNeutral
  OutageNeverBlocks
  FailClosed
PROPERTIES
  ImplementsVerdict
  EventuallyReturns
CHECK_DEADLOCK FALSE
