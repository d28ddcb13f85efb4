SPECIFICATION SerialSpec
CONSTANTS
  DefaultTimelock = 2
  DefaultOverrideTime = 2
  v1 = v1
  v2 = v2
  v3 = v3
  p1 = p1
  p2 = p2
  t1 = t1
  t2 = t2
  Voter = {v1, v2}
  HasRepo = {v1, v2}
  Text = {t1, t2}
  Invalid = {}
  Legacy = FALSE
  Request = {p1, p2}
  SettingsChoices <- OneSetting
  ElectorateChoices <- EveryVoter
  DelegationChoices <- NoDelegation
  Ttl = 2
  MaxCidChain = 10
  NoOne = NoOne
  NoText = NoText
  MaxTime = 3
  MaxRequests = 4
  MaxFaults = 1
SYMMETRY Symmetry
CHECK_DEADLOCK FALSE
INVARIANT DecisionStaysSound
