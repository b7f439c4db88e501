-------------------------------- MODULE MCPages --------------------------------
(***************************************************************************)
(* A small world of strings and pages.                                     *)
(***************************************************************************)
EXTENDS PageExtraction, JsonLd, TLC

\* photo, stray, icon: web addresses, the last of an .ico file.  padded: the photo's
\* with blanks.  broken: begins with http:// and does not parse.  relative
\* resolves to the photo, text to stray.  inline, huge: data: addresses.  script: an address
\* of another scheme.  text: anything that is no address.
MCStrings ==
  {"", " ", "photo", "stray", "icon", "padded", "broken", "relative", "inline", "huge", "script", "text"}

MCTrimmed ==
  [s \in MCStrings |-> CASE s = " " -> "" [] s = "padded" -> "photo" [] OTHER -> s]
MCHttpPrefixed == {"photo", "stray", "icon", "broken"}
MCDataPrefixed == {"inline", "huge"}
MCIconFiles == {"icon"}
MCScheme ==
  [s \in MCStrings |->
     CASE s \in {"photo", "stray", "icon"} -> "http"
       [] s \in {"inline", "huge"} -> "data"
       [] s = "broken" -> "error"
       [] OTHER -> "other"]
MCTooLong == {"huge"}
MCResolved ==
  [s \in MCStrings |->
     CASE s \in {"", "broken", "padded"} -> "" [] s \in {"relative", " "} -> "photo"
       [] s = "text" -> "stray" [] OTHER -> s]
-----------------------------------------------------------------------------
Text(s) == [shape |-> "string", text |-> s]
Object(members) == [shape |-> "object", members |-> members]
List(items) == [shape |-> "list", items |-> items]

\* One object that names its image, directly and as an object with an address.
Direct == Object([context |-> Text("script"), image |-> Text("photo")])
Indirect == Object([image |-> List(<<Nothing, Object([url |-> Text("photo")])>>)])
\* A graph: first the site's name, then what the page is about.
Graph == Object("@graph" :> List(<<Object([name |-> Text("text")]), Direct>>))
Textual == Object([context |-> Text("script"), name |-> Text("icon")])

Blanks ==
  [source |-> "general", titles |-> <<>>, descriptions |-> <<>>, images |-> <<>>,
   icons |-> <<>>, sites |-> <<>>, videos |-> <<>>, streams |-> <<>>, largeCard |-> FALSE,
   ld |-> <<>>, media |-> "html", extension |-> "none"]

\* Pages that say nothing but an image, usable or not, per source.
ImagePages ==
  {[Blanks EXCEPT !.source = source, !.images = images] :
     source \in Sources, images \in {<<>>, <<"", "padded", "photo">>, <<"broken", "photo">>}}
  \cup {[Blanks EXCEPT !.images = images] : images \in {<<"relative">>, <<"inline">>}}
\* Pages with the rest.
FullPages ==
  {[Blanks EXCEPT !.source = source, !.titles = <<" ">>, !.descriptions = <<"", "text">>,
                  !.sites = <<"text">>, !.icons = <<"huge">>, !.videos = <<video>>] :
     source \in Sources, video \in {"script", "padded"}}
OtherPages ==
  {[Blanks EXCEPT !.icons = <<"photo">>], [Blanks EXCEPT !.icons = <<"icon">>],
   [Blanks EXCEPT !.streams = <<"photo">>],
   [Blanks EXCEPT !.streams = <<"photo">>, !.largeCard = TRUE],
   [Blanks EXCEPT !.media = "document"], [Blanks EXCEPT !.media = "binary"],
   [Blanks EXCEPT !.extension = "document"]}
JsonLdPages ==
  {[Blanks EXCEPT !.source = source, !.ld = ld] :
     source \in {"general", "twitterOgp"},
     ld \in {<<Nothing, Direct>>, <<Indirect>>, <<Graph>>, <<Textual>>}}

AllPages == ImagePages \cup FullPages \cup OtherPages \cup JsonLdPages

\* The pages meet the hypothesis of the theorems about them (PageSummaryProofs).
ASSUME PagesAssumption == \A page \in AllPages : IsPage(page)
=============================================================================
