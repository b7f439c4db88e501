SPECIFICATION Spec
CONSTANTS
  Callers = {c1, c2, c3, c4}
  Hosts = {h1, h2}
  States = {s1, s2, s3}
  Nil = Nil
  MaxPerDomainArg = 0
  CooldownArg = 2
  DefaultMaxPerDomain = 2
  DefaultCooldown = 1
SYMMETRY Symmetry
INVARIANTS
  TypeOK
  CallersUseTheMappedState
  CountsAreExact
  LimitHolds
  ReleaseNeverBlocks
PROPERTY
  ImplementsPerHostLimiter
