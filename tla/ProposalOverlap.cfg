SPECIFICATION Spec
CONSTANTS
  DefaultTimelock = 2
  DefaultOverrideTime = 1
  v1 = v1
  v2 = v2
  v3 = v3
  p1 = p1
  p2 = p2
  t1 = t1
  t2 = t2
  Voter = {v1, v2, v3}
  HasRepo = {v1, v2}
  Text = {t1, t2}
  Invalid = {t2}
  Legacy = TRUE
  Request = {p1, p2}
  SettingsChoices <- TwoSettings
  ElectorateChoices <- Shrinking
  DelegationChoices <- Delegating
  Ttl = 2
  MaxCidChain = 10
  NoOne = NoOne
  NoText = NoText
  MaxTime = 2
  MaxRequests = 2
  MaxFaults = 1
SYMMETRY RequestSymmetry
CHECK_DEADLOCK FALSE
INVARIANTS
  TypeOK
  EffectIsApproved
  DecisionsAreEvidenced
