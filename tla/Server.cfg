SPECIFICATION ServerSpec
CONSTANTS
  a = a
  b = b
  c = c
  d = d
  Slot = {s1, s2}
  MaxRequests = 5
  FirstLock = 1
  Name = {a, b}
  InviteUses = 1
  PartnerLimit = 1
  Outsider = {a, b}
  HandoffRoom = 1
  Owner = {a, b}
  Wallet = {c}
  Person = {a, b}
  Proprietor = owner
  Server = {a, b}
  Nowhere = nowhere
  Host = {a, b}
  NoHost = nohost
  MaxMoves = 2
  Attestation = {c}
  MaxGrants = 2
  Credential = {a, b}
  Proof = {a, b}
  Change = {c, d}
  Tab = {a, b}
  Party = {a, b}
  PostRoom = 2
  Decisions = 3
  RETRY_BATCH = 1
  RETRY_SCAN = 2
  Months = 3
  Collector = {a, b}
  Records = 3
  PartnerKey = {c, d}
  Origin = {a, b}
  NoKey = nokey
  Provider = {a, b}
  ServiceToken = {a, b, c}
  SeenRoom = 2
  Peer = {a, b}
  Elector = {c, d}
  Founder = founder
  Staff = {d}
  Uploader = {a, b}
SYMMETRY Symmetry
CHECK_DEADLOCK FALSE
INVARIANT ServerTypeOK
INVARIANT CredentialsFollowAccount
INVARIANT ExchangeIsExclusive
INVARIANT PasswordEndsSessions
INVARIANT LimitsHold
INVARIANT CodesBuyOnce
INVARIANT WalletsHold
INVARIANT MembershipHolds
INVARIANT ActiveAtHome
INVARIANT SweepSpares
INVARIANT AttestationsHold
INVARIANT ProofBuysOneChange
INVARIANT AloneIsNeverAThief
INVARIANT ContactsAreMutual
INVARIANT RulesHold
INVARIANT AccessAgrees
INVARIANT StoresAgree
INVARIANT MoveKeepsHome
INVARIANT OthersAreToldTrue
INVARIANT GivenToTheProven
PROPERTY SuspensionHolds
