SPECIFICATION Spec
CONSTANTS
  Strings <- MCStrings
  Empty = ""
  Trimmed <- MCTrimmed
  HttpPrefixed <- MCHttpPrefixed
  DataPrefixed <- MCDataPrefixed
  IconFiles <- MCIconFiles
  Scheme <- MCScheme
  TooLong <- MCTooLong
  Resolved <- MCResolved
  LdImages <- extractImageFromJSONLD
  Label = "text"
  OwnIcon = "icon"
  OwnEmbed = "photo"
  FileIcon = "inline"
  NoPreview = NoPreview
  Pointer = Pointer
  Leader = leader
  Followers = {follower}
  Hits = {h1, h2}
  Scrapings <- MCScrapings
  Backends = {"memory", "redis"}
SYMMETRY Interchangeable
INVARIANTS
  TypeOK
  ResponsesAgree
  HeaderInBounds
  PublishedHasContent
CHECK_DEADLOCK FALSE
