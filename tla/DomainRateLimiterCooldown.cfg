SPECIFICATION Spec
CONSTANTS
  Callers = {c1, c2}
  Hosts = {h1}
  States = {s1}
  Nil = Nil
  MaxPerDomainArg = 1
  CooldownArg = 1
  DefaultMaxPerDomain = 5
  DefaultCooldown = 30
PROPERTY
  NoSlotDuringCooldown
