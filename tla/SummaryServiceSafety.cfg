SPECIFICATION Spec
CONSTANTS
  Requests = {r1, r2, r3}
  r1 = r1
  r2 = r2
  r3 = r3
  u1 = u1
  u2 = u2
  u3 = u3
  h1 = h1
  h2 = h2
  Urls <- MCUrls
  Hosts <- MCHosts
  HostOf <- MCHostOf
  Handlers <- MCHandlers
  HealthyUrls = {u1, u3}
  SlowHosts = {}
  ThrottlingHosts = {h1, h2}
  MaxConcurrency = 1
  MaxPerHost = 1
  Cooldown = 1
  CacheMayFail = TRUE
  Nil = Nil
SYMMETRY Symmetry
INVARIANTS
  TypeOK
  OneFlightPerUrl
  NoSlotLeaks
  PreviewsBelongToTheirUrl
  NotFoundHasACause
  StrandedOnlyByFailedLeader
PROPERTY
  ImplementsPreviewFlights
