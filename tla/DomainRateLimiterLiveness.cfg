SPECIFICATION FairSpec
CONSTANTS
  Callers = {c1, c2, c3}
  Hosts = {h1, h2}
  States = {s1, s2}
  Nil = Nil
  MaxPerDomainArg = 1
  CooldownArg = 0
  DefaultMaxPerDomain = 5
  DefaultCooldown = 1
PROPERTIES
  EveryWaitEnds
  UnusedEntryCollected
