SPECIFICATION FairSpec
CONSTANTS
  ClientTimeouts = {0, 3, 10}
  OwnTimeout = 5
  ApiTimeout = 7
  HtmlTimeout = 5
  ApiPause = 1
  GeneralTimeout = 5
  BotDelays = {2, 3}
  MaxRedirectCount = 5
CHECK_DEADLOCK FALSE
INVARIANTS
  TypeOK
  ScrapeTimeBounded
  ConnectionsBounded
  RequestsBounded
  NilOnlyAfterGeneral
PROPERTY
  ScrapeEnds
