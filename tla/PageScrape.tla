------------------------------ MODULE PageScrape ------------------------------
(***************************************************************************)
(* One Scrape of one page, the whole of a scraper's work on a response as  *)
(* PageExtraction defines it.                                              *)
(***************************************************************************)
EXTENDS PageExtraction, JsonLd

CONSTANT Pages  \* the responses considered

VARIABLES
  page,
  results  \* what Scrape has returned: {} before it returns
vars == <<page, results>>

Init == page \in Pages /\ results = {}

Scrape ==
  /\ results = {}
  /\ \E p \in Scraped(page) : results' = {p}
  /\ UNCHANGED page

Spec == Init /\ [][Scrape]_vars
-----------------------------------------------------------------------------
\* The strings some "image" member of the JSON-LD value v carries.
RECURSIVE NamedImages(_)
NamedImages(v) ==
  CASE v.shape = "object" ->
         {m.text : m \in {m \in {Member(v, "image")} : m.shape = "string"}}
           \cup UNION {NamedImages(m) : m \in Range(v.members)}
    [] v.shape = "list" -> UNION {NamedImages(m) : m \in Range(v.items)}
    [] OTHER -> {}

\* When a page's only image is the one its JSON-LD names, that is the thumbnail
\* (general-scraper_test.go:41 expects so of jsonld_image.html).
NamedImageWins ==
  \A p \in results \ {NoPreview}, u \in Strings :
    /\ page.source = "general" /\ FirstNonEmpty(page.images) = Empty
    /\ UNION {NamedImages(v) : v \in Range(page.ld)} = {u}
    /\ SetThumbnail(NewPageSummary, u).thumbnail = u
    => p.thumbnail = u
=============================================================================
