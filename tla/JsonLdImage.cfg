SPECIFICATION Spec
CONSTANTS
  Strings <- MCStrings
  Empty = ""
  Trimmed <- MCTrimmed
  HttpPrefixed <- MCHttpPrefixed
  DataPrefixed <- MCDataPrefixed
  IconFiles <- MCIconFiles
  Scheme <- MCScheme
  TooLong <- MCTooLong
  Resolved <- MCResolved
  LdImages <- extractImageFromJSONLD
  Label = "text"
  OwnIcon = "icon"
  OwnEmbed = "photo"
  FileIcon = "inline"
  NoPreview = NoPreview
  Pages <- JsonLdPages
INVARIANT NamedImageWins
CHECK_DEADLOCK FALSE
