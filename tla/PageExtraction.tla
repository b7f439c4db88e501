---------------------------- MODULE PageExtraction ----------------------------
(***************************************************************************)
(* What each scraper makes of one response: the fields it fills in, from   *)
(* which candidates, and when the result counts as empty.  No variables;   *)
(* SharedPreview takes one step of this as its leader's scrape.            *)
(*                                                                         *)
(* A page is a record: the source that reads it, the candidates for each   *)
(* field in the order the source looks at them (selectors are abstracted   *)
(* to their results), the JSON-LD documents, and the type of the response. *)
(* A fetch that fails where the code goes on (Spotify) is a page without   *)
(* candidates.                                                             *)
(***************************************************************************)
EXTENDS PageSummary

CONSTANTS
  Resolved,  \* ResolveRelativeUrl against the page's address
  Label,     \* a text that the scraper itself supplies
  OwnIcon, OwnEmbed, FileIcon, \* addresses that the scraper itself supplies
  LdImages(_) \* what a page's JSON-LD may yield as its image (JsonLd)

ASSUME SuppliedAssumption ==
  /\ Resolved \in [Strings -> Strings] /\ Resolved[Empty] = Empty
  /\ {Label, OwnIcon, OwnEmbed, FileIcon} \subseteq Strings
  /\ ~Blank(Label) /\ SanitizeUrl(FileIcon) = FileIcon

Sources ==
  {"general", "twitterOgp", "fxTwitter", "shop", "nitoriHtml", "nitoriApi", "post",
   "youtube", "niconico", "spotify"}

\* What a response may be (the JSON-LD is LdImages' business).
IsPage(page) ==
  /\ page.source \in Sources
  /\ \A field \in {"titles", "descriptions", "images", "icons", "sites", "videos", "streams"} :
       page[field] \in Seq(Strings)
  /\ page.largeCard \in BOOLEAN
  /\ page.media \in {"html", "document", "binary"} /\ page.extension \in {"none", "document"}
  /\ LdImages(page) \subseteq Strings

FirstNonEmpty(s) ==
  LET found == {i \in DOMAIN s : s[i] # Empty}
  IN IF found = {} THEN Empty ELSE s[CHOOSE i \in found : \A j \in found : i <= j]

\* JSON-LD is read only when no other candidate is there; the first candidate
\* wins even if SetThumbnail refuses it.
Images(page) ==
  LET image == FirstNonEmpty(page.images)
  IN IF image # Empty THEN {image} ELSE LdImages(page)
-----------------------------------------------------------------------------
(* One operator per source: the previews it may build.  p is the preview    *)
(* with the page's own title and description.                               *)

TitleAndDescription(page) ==
  SetDescription(SetTitle(NewPageSummary, FirstNonEmpty(page.titles)),
                 FirstNonEmpty(page.descriptions))

Branded(p, icon) == SetIcon(SetSiteName(p, Label), icon)

Video(page) ==
  LET video == FirstNonEmpty(page.videos)
  IN IF video = Empty /\ ~page.largeCard THEN FirstNonEmpty(page.streams) ELSE video

\* An icon stands in for a missing thumbnail.
IconAsThumbnail(p) ==
  IF p.thumbnail = Empty /\ p.icon # Empty THEN SetThumbnail(p, p.icon) ELSE p

General(page) ==
  {LET p == SetSiteName(SetThumbnail(TitleAndDescription(page), Resolved[image]),
                        FirstNonEmpty(page.sites))
       q == IconAsThumbnail(SetIcon(p, Resolved[FirstNonEmpty(page.icons)]))
   IN IF Blank(Video(page)) THEN q ELSE SetPlayer(q, Video(page)) : image \in Images(page)}

TwitterOgp(page) ==
  {Branded(SetThumbnail(TitleAndDescription(page), Resolved[image]),
           Resolved[FirstNonEmpty(page.icons \o <<OwnIcon>>)]) : image \in Images(page)}

\* Amazon, Yodobashi: the image as it stands.
Shop(page) ==
  {Branded(SetThumbnail(TitleAndDescription(page), FirstNonEmpty(page.images)), OwnIcon)}

NitoriHtml(page) ==
  {Branded(SetThumbnail(TitleAndDescription(page), Resolved[FirstNonEmpty(page.images)]),
           Resolved[FirstNonEmpty(page.icons)])}

NitoriApi(page) ==
  IF FirstNonEmpty(page.titles) = Empty THEN {} ELSE {SetSiteName(TitleAndDescription(page), Label)}

\* Bluesky, Threads: the image resolved, a video makes a player.
Post(page) ==
  {SetPlayer(Branded(SetThumbnail(TitleAndDescription(page),
                                  Resolved[FirstNonEmpty(page.images)]), OwnIcon),
             FirstNonEmpty(page.videos))}

YouTube(page) ==
  {SetPlayer(SetIcon(SetSiteName(SetThumbnail(TitleAndDescription(page),
                                              FirstNonEmpty(page.images)),
                                 FirstNonEmpty(page.sites)), OwnIcon),
             FirstNonEmpty(page.videos))}

NicoNico(page) ==
  {SetPlayer(SetIcon(SetSiteName(SetThumbnail(TitleAndDescription(page),
                                              FirstNonEmpty(page.images)),
                                 FirstNonEmpty(page.sites)),
                     Resolved[FirstNonEmpty(page.icons)]), video) : video \in {Empty, OwnEmbed}}

FxTwitter(page) ==
  {Branded(SetThumbnail(SetTitle(TitleAndDescription(page), Label),
                        IF page.images = <<>> THEN Empty ELSE Head(page.images)), OwnIcon)}

\* Spotify starts from a preview of its own, kept when the fetch fails.
SpotifyDefault == SetPlayer(Branded(SetTitle(NewPageSummary, Label), OwnIcon), OwnEmbed)

Spotify(page) ==
  LET name == FirstNonEmpty(page.titles)
      p == IF name = Empty THEN SpotifyDefault ELSE SetTitle(SpotifyDefault, name)
      image == IF page.images = <<>> THEN Empty ELSE page.images[Len(page.images)]
  IN {SetThumbnail(SetDescription(p, FirstNonEmpty(page.descriptions)), image)}

\* The type of the response comes before the extension of its address.
DetectContentKind(page) ==
  CASE page.media = "document" -> "file"
    [] page.extension = "document" -> "file"
    [] OTHER -> IF page.media = "binary" THEN "file" ELSE "html"

BuildFilePreviewSummary(page) ==
  {SetDescription(Branded(SetTitle(NewPageSummary, FirstNonEmpty(page.titles \o <<Label>>)),
                          FileIcon), Label)}

Built(page) ==
  CASE page.source = "general" /\ DetectContentKind(page) = "file" -> BuildFilePreviewSummary(page)
    [] page.source = "general" /\ DetectContentKind(page) = "html" -> General(page)
    [] page.source = "twitterOgp" -> TwitterOgp(page)
    [] page.source = "fxTwitter" -> FxTwitter(page)
    [] page.source = "shop" -> Shop(page)
    [] page.source = "nitoriHtml" -> NitoriHtml(page)
    [] page.source = "nitoriApi" -> NitoriApi(page)
    [] page.source = "post" -> Post(page)
    [] page.source = "youtube" -> YouTube(page)
    [] page.source = "niconico" -> NicoNico(page)
    [] page.source = "spotify" -> Spotify(page)

\* The preview is thrown away as empty; a file's never is, and Nitori's API must
\* have given a title.
Dropped(page, p) ==
  CASE page.source = "general" -> DetectContentKind(page) = "html" /\ IsEmptyPreview(p)
    [] page.source = "twitterOgp" -> IsEmptyPreview(p)
    [] page.source = "nitoriApi" -> IsContentEmpty(p) \/ p.title = Empty
    [] OTHER -> IsContentEmpty(p)

ScrapedUnfinished(page) ==           \* mutant: emptiness judged before Finalize
  {IF Dropped(page, p) THEN NoPreview ELSE Finalize(p) : p \in Built(page)}

\* What Scrape may return: a finalised preview, or nil (an error counts as nil).
Scraped(page) ==
  IF Built(page) = {} THEN {NoPreview}
  ELSE {LET q == Finalize(p) IN IF Dropped(page, q) THEN NoPreview ELSE q : p \in Built(page)}
=============================================================================
