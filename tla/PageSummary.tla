----------------------------- MODULE PageSummary -----------------------------
(***************************************************************************)
(* internal/domain/page-summary.go: the preview of a page as a record, its *)
(* setters, Finalize, and the two tests for emptiness of                   *)
(* internal/infrastructure/scraper-helper.go.  No variables: SharedPreview *)
(* runs these definitions, PageSummaryProofs proves facts about them.      *)
(*                                                                         *)
(* A string is a member of Strings, and what the code asks about it is a   *)
(* constant.  Of the player only the URL is kept; an URL of nil and of ""  *)
(* are both Empty, since nothing but the layout of the JSON tells them     *)
(* apart.  Fields that no code rewrites (Url, Sensitive) are left out.     *)
(***************************************************************************)
EXTENDS Integers, Sequences, FiniteSets, Functions

CONSTANTS
  Strings, Empty,
  Trimmed,       \* strings.TrimSpace
  HttpPrefixed,  \* strings that begin with http:// or https://
  DataPrefixed,  \* strings that begin with data:
  IconFiles,     \* strings that end in .ico or .cur
  Scheme,        \* what url.Parse finds: "http", "data", "other" or "error"
  TooLong,       \* strings longer than MaxDataUrlLength
  NoPreview      \* nil

ASSUME StringAssumption ==
  /\ Empty \in Strings
  /\ Trimmed \in [Strings -> Strings] /\ Trimmed[Empty] = Empty
  /\ \A s \in Strings : Trimmed[Trimmed[s]] = Trimmed[s]
  /\ Scheme \in [Strings -> {"http", "data", "other", "error"}]
  /\ Empty \notin HttpPrefixed \cup DataPrefixed

Blank(s) == Trimmed[s] = Empty

SanitizeUrlUntrimmed(s) ==           \* mutant: the scheme is looked at, the input returned
  IF Scheme[Trimmed[s]] = "http" \/ (Scheme[Trimmed[s]] = "data" /\ s \notin TooLong) THEN s ELSE Empty

SanitizeUrl(s) ==
  LET t == Trimmed[s]
      kept == t # Empty /\ (Scheme[t] = "http" \/ (Scheme[t] = "data" /\ t \notin TooLong))
  IN IF kept THEN t ELSE Empty
-----------------------------------------------------------------------------
(* Construction. *)

Previews ==
  [title : Strings, description : Strings, siteName : Strings, sitename : Strings,
   icon : Strings, thumbnail : Strings, medias : Seq(Strings),
   player : BOOLEAN, playerUrl : Strings]

NewPageSummary ==
  [title |-> Empty, description |-> Empty, siteName |-> Empty, sitename |-> Empty,
   icon |-> Empty, thumbnail |-> Empty, medias |-> <<>>,
   player |-> FALSE, playerUrl |-> Empty]

SetTitle(p, s) == [p EXCEPT !.title = Trimmed[s]]

SetDescription(p, s) == [p EXCEPT !.description = Trimmed[s]]

SetIcon(p, s) ==
  IF Trimmed[s] \in HttpPrefixed \cup DataPrefixed THEN [p EXCEPT !.icon = Trimmed[s]] ELSE p

SetThumbnail(p, s) ==
  IF Trimmed[s] \in HttpPrefixed \ IconFiles THEN [p EXCEPT !.thumbnail = Trimmed[s]] ELSE p

SetSiteName(p, s) ==
  [p EXCEPT !.siteName = Trimmed[s], !.sitename = IF @ = Empty THEN Trimmed[s] ELSE @]

SetPlayer(p, s) == [p EXCEPT !.player = (s # Empty), !.playerUrl = s]
-----------------------------------------------------------------------------
(* Finalize: five fields one after the other, then the medias. *)

FinalField(p, f) ==
  CASE f = "sitename" -> IF p.sitename = Empty THEN p.siteName ELSE p.sitename
    [] f = "player" -> TRUE
    [] f \in {"icon", "thumbnail", "playerUrl"} -> SanitizeUrl(p[f])

\* The medias that ensureMediasConsistency keeps: each sanitised one where it
\* occurs first.
Kept(s) ==
  {i \in DOMAIN s : /\ SanitizeUrl(s[i]) # Empty
                    /\ \A j \in 1 .. i - 1 : SanitizeUrl(s[j]) # SanitizeUrl(s[i])}
Nth(S, k) == CHOOSE i \in S : Cardinality({j \in S : j <= i}) = k
ResetMedias(s) == <<>>               \* mutant: the list is emptied in place first

SanitizedMedias(s) ==
  [k \in 1 .. Cardinality(Kept(s)) |-> SanitizeUrl(s[Nth(Kept(s), k)])]

MissingAlways(t, s) == t # Empty     \* mutant: prepended each time

\* Whether the thumbnail t has to be put in front of the medias s.
MissingFrom(t, s) == t # Empty /\ t \notin Range(s)
ConsistentMedias(t, s) == IF MissingFrom(t, s) THEN <<t>> \o s ELSE s

Finalize(p) ==
  LET t == FinalField(p, "thumbnail") IN
  [p EXCEPT !.sitename = FinalField(p, "sitename"),
            !.player = FinalField(p, "player"),
            !.icon = FinalField(p, "icon"),
            !.thumbnail = t,
            !.playerUrl = FinalField(p, "playerUrl"),
            !.medias = ConsistentMedias(t, SanitizedMedias(p.medias))]

\* What Finalize leaves alone (PageSummaryProofs: and what it makes).
IsFinal(p) ==
  /\ p.player /\ (p.sitename = Empty => p.siteName = Empty)
  /\ \A u \in {p.icon, p.thumbnail, p.playerUrl} \cup Range(p.medias) : SanitizeUrl(u) = u
  /\ \A i \in DOMAIN p.medias :
       p.medias[i] # Empty /\ \A j \in 1 .. i - 1 : p.medias[j] # p.medias[i]
  /\ p.thumbnail # Empty => p.thumbnail \in Range(p.medias)

IsContentEmpty(p) == Blank(p.title) /\ Blank(p.description) /\ Blank(p.thumbnail)

IsEmptyPreview(p) ==
  /\ IsContentEmpty(p)
  /\ Blank(p.icon) /\ Blank(p.siteName) /\ Blank(p.sitename)
  /\ \A m \in Range(p.medias) : Blank(m)
  /\ p.player => Blank(p.playerUrl)
=============================================================================
