--------------------------------- MODULE JsonLd ---------------------------------
(***************************************************************************)
(* The search for an image in the JSON-LD of a page.  A value is an object,*)
(* a list, a string, or anything else (a script that does not parse        *)
(* included).  A map is visited in random order, so what is found is a set *)
(* of strings the code may return.                                         *)
(***************************************************************************)
EXTENDS PageSummary

Nothing == [shape |-> "other"]
Member(v, key) == IF key \in DOMAIN v.members THEN v.members[key] ELSE Nothing

\* One result after the other, until one is not empty.
FirstFound(results) ==
  {x \in UNION Range(results) :
     IF x = Empty THEN \A i \in DOMAIN results : Empty \in results[i]
     ELSE \E i \in DOMAIN results :
            x \in results[i] /\ \A j \in 1 .. i - 1 : Empty \in results[j]}

\* The same in random order.
AnyFound(results) ==
  IF \A r \in results : Empty \in r THEN {Empty} \cup UNION results
  ELSE UNION results \ {Empty}

RECURSIVE findImageInJSONLD(_), extractImageValue(_)

extractImageValue(v) ==
  CASE v.shape = "string" -> {v.text}
    [] v.shape = "object" ->
         LET keys == SelectSeq(<<"url", "contentUrl", "thumbnailUrl">>,
                               LAMBDA key : Member(v, key).shape = "string")
         IN IF keys # <<>> THEN {Member(v, Head(keys)).text} ELSE findImageInJSONLD(v)
    [] v.shape = "list" -> FirstFound([i \in DOMAIN v.items |-> extractImageValue(v.items[i])]
                                      \o <<{Empty}>>)
    [] OTHER -> {Empty}

findImageInJSONLD(v) ==
  CASE v.shape = "object" ->
         FirstFound(<<extractImageValue(Member(v, "image")),
                      extractImageValue(Member(v, "thumbnailUrl")),
                      extractImageValue(Member(v, "logo")),
                      findImageInJSONLD(Member(v, "@graph")),
                      AnyFound({findImageInJSONLD(m) : m \in Range(v.members)})>>)
    [] v.shape = "list" -> FirstFound([i \in DOMAIN v.items |-> findImageInJSONLD(v.items[i])]
                                      \o <<{Empty}>>)
    [] v.shape = "string" -> {IF Blank(v.text) THEN Empty ELSE v.text}
    [] OTHER -> {Empty}

extractImageFromJSONLD(page) ==
  FirstFound([i \in DOMAIN page.ld |-> findImageInJSONLD(page.ld[i])] \o <<{Empty}>>)
=================================================================================
