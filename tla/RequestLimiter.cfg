SPECIFICATION FairSpec
CONSTANTS
  Clients = {a, b}
  MaxRequests = 2
  Window = 3
INVARIANTS
  TypeOK
  BurstBounded
PROPERTIES
  RefusedOnlyOverQuota
  RefusedClientRecovers
