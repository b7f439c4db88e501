----------------------------- MODULE SharedPreview -----------------------------
(***************************************************************************)
(* One preview object and the goroutines that use it.  The leader scrapes, *)
(* publishes the pointer and stores it; leader, followers and cache hits   *)
(* encode what they point to.  In the in-memory cache every hit points to  *)
(* the same object and finalises it first, without a lock, while others    *)
(* encode it.  Redis gives each hit a copy.                                *)
(*                                                                         *)
(* A field is accessed in one step.  The header of Medias is two words,    *)
(* the array and the length, that a writer stores in either order.  Arrays *)
(* are never written after they are made.                                  *)
(***************************************************************************)
EXTENDS PageSummary

CONSTANTS Leader, Followers, Hits,  \* the requests for the page
          Scrapings,                \* what the leader's scrape may return
          Backends,                 \* subset of {"memory", "redis"}
          Pointer                   \* what the in-memory cache holds

Requests == {Leader} \cup Followers \cup Hits

\* A scrape returns nil or a preview that Finalize has been over.
ASSUME SharingAssumption ==
  /\ Leader \notin Followers \cup Hits /\ Followers \cap Hits = {}
  /\ NoPreview \notin Previews /\ Pointer \notin Previews /\ Pointer # NoPreview
  /\ \A p \in Scrapings \ {NoPreview} : p \in Previews /\ IsFinal(p)

VARIABLES
  backend,    \* the cache that main has chosen
  preview,    \* the object; medias is the array its header points to
  length,     \* the length in that header
  published,  \* the preview as it was published
  cached,     \* what the cache holds: nothing, the pointer or a copy
  pos,        \* per request, the access it makes next
  header,     \* per request, the header it has loaded
  response    \* per request, what it has encoded so far

vars == <<backend, preview, length, published, cached, pos, header, response>>
-----------------------------------------------------------------------------
(* The accesses of Finalize and of json.Encode, in order. *)

Sanitized == {"sitename", "player", "icon", "thumbnail", "playerUrl"}
ArrayLoads == {"array1", "array2", "array3", "array4"}
LengthLoads == {"length1", "length2", "length3", "length4"}
FieldReads == {"readIcon", "readSitename", "readThumbnail", "readMedias", "readPlayer"}

Successor ==
  [sitename |-> "player", player |-> "icon", icon |-> "thumbnail", thumbnail |-> "playerUrl",
   playerUrl |-> "array1", array1 |-> "length1", length1 |-> "keep",
   array2 |-> "length2", length2 |-> "look", array3 |-> "length3", length3 |-> "prepend",
   readIcon |-> "readSitename", readSitename |-> "readThumbnail", readThumbnail |-> "array4",
   array4 |-> "length4", length4 |-> "readMedias", readMedias |-> "readPlayer",
   readPlayer |-> "done"]

\* After one word of a header is stored comes the other, then what follows.
AfterArray ==
  [keep |-> "keepLength", keepArray |-> "array2",
   prepend |-> "prependLength", prependArray |-> "readIcon"]
AfterLength ==
  [keep |-> "keepArray", keepLength |-> "array2",
   prepend |-> "prependArray", prependLength |-> "readIcon"]

Positions ==
  {"waiting", "look", "done"} \cup Sanitized \cup ArrayLoads \cup LengthLoads \cup FieldReads
    \cup DOMAIN AfterArray \cup DOMAIN AfterLength

\* The medias that request r sees (HeaderInBounds: never fewer than the length).
Loaded(r) == [i \in (DOMAIN header[r].medias) \cap (1 .. header[r].length) |-> header[r].medias[i]]

Goto(r, p) == pos' = [pos EXCEPT ![r] = p]

Init ==
  /\ backend \in Backends
  /\ preview = NoPreview /\ length = 0 /\ published = NoPreview /\ cached = NoPreview
  /\ pos = [r \in Requests |-> "waiting"]
  /\ header = [r \in Requests |-> [medias |-> <<>>, length |-> 0]]
  /\ response = [r \in Requests |-> NoPreview]
-----------------------------------------------------------------------------
\* A scrape that finds nothing ends the flight, the followers included.
FindNothing ==
  /\ pos[Leader] = "waiting" /\ published = NoPreview
  /\ NoPreview \in Scrapings
  /\ pos' = [r \in Requests |-> IF r \in Hits THEN pos[r] ELSE "done"]
  /\ UNCHANGED <<backend, preview, length, published, cached, header, response>>

Publish ==
  /\ pos[Leader] = "waiting" /\ published = NoPreview
  /\ \E p \in Scrapings \ {NoPreview} :
       preview' = p /\ published' = p /\ length' = Len(p.medias)
  /\ UNCHANGED <<backend, cached, pos, header, response>>

\* Request r begins at position p; the fields that nobody writes are read.
Begin(r, p) ==
  /\ Goto(r, p) /\ response' = [response EXCEPT ![r] = preview]
  /\ UNCHANGED <<backend, preview, length, published, header>>

\* Redis is given the JSON of the object, the in-memory cache the object.
Store ==
  /\ pos[Leader] = "waiting" /\ published # NoPreview
  /\ cached' = IF backend = "memory" THEN Pointer ELSE preview
  /\ Begin(Leader, "readIcon")

Follow(r) ==
  /\ r \in Followers /\ pos[r] = "waiting" /\ published # NoPreview
  /\ Begin(r, "readIcon") /\ UNCHANGED cached

HitMemory(r) ==
  /\ r \in Hits /\ pos[r] = "waiting" /\ cached = Pointer
  /\ Begin(r, "sitename") /\ UNCHANGED cached

\* The copy is the request's own: nobody sees it being finalised and encoded.
HitRedis(r) ==
  /\ r \in Hits /\ pos[r] = "waiting" /\ cached \notin {NoPreview, Pointer}
  /\ Goto(r, "done") /\ response' = [response EXCEPT ![r] = Finalize(cached)]
  /\ UNCHANGED <<backend, preview, length, published, cached, header>>
-----------------------------------------------------------------------------
(* One access. *)

Sanitize(r) ==
  /\ pos[r] \in Sanitized
  /\ preview' = [preview EXCEPT ![pos[r]] = FinalField(preview, pos[r])]
  /\ Goto(r, Successor[pos[r]])
  /\ UNCHANGED <<backend, length, published, cached, header, response>>

LoadArray(r) ==
  /\ pos[r] \in ArrayLoads
  /\ header' = [header EXCEPT ![r].medias = preview.medias]
  /\ Goto(r, Successor[pos[r]])
  /\ UNCHANGED <<backend, preview, length, published, cached, response>>

LoadLength(r) ==
  /\ pos[r] \in LengthLoads
  /\ header' = [header EXCEPT ![r].length = length]
  /\ Goto(r, Successor[pos[r]])
  /\ UNCHANGED <<backend, preview, length, published, cached, response>>

\* The list that request r puts in the place of the medias.
Stored(r) ==
  IF pos[r] \in {"keep", "keepArray", "keepLength"}
  THEN SanitizedMedias(Loaded(r)) ELSE <<preview.thumbnail>> \o Loaded(r)

StoreArray(r) ==
  /\ pos[r] \in DOMAIN AfterArray
  /\ preview' = [preview EXCEPT !.medias = Stored(r)]
  /\ Goto(r, AfterArray[pos[r]])
  /\ UNCHANGED <<backend, length, published, cached, header, response>>

StoreLength(r) ==
  /\ pos[r] \in DOMAIN AfterLength
  /\ length' = Len(Stored(r))
  /\ Goto(r, AfterLength[pos[r]])
  /\ UNCHANGED <<backend, preview, published, cached, header, response>>

\* The thumbnail is not prepended when it is among the medias.
Look(r) ==
  /\ pos[r] = "look"
  /\ Goto(r, IF MissingFrom(preview.thumbnail, Loaded(r)) THEN "array3" ELSE "readIcon")
  /\ UNCHANGED <<backend, preview, length, published, cached, header, response>>

\* The answer of request r with the field that comes next encoded.
Encoded(r) ==
  CASE pos[r] = "readIcon" -> [response[r] EXCEPT !.icon = preview.icon]
    [] pos[r] = "readSitename" -> [response[r] EXCEPT !.sitename = preview.sitename]
    [] pos[r] = "readThumbnail" -> [response[r] EXCEPT !.thumbnail = preview.thumbnail]
    [] pos[r] = "readMedias" -> [response[r] EXCEPT !.medias = Loaded(r)]
    [] pos[r] = "readPlayer" -> [response[r] EXCEPT !.player = preview.player,
                                                    !.playerUrl = preview.playerUrl]

Read(r) ==
  /\ pos[r] \in FieldReads
  /\ response' = [response EXCEPT ![r] = Encoded(r)]
  /\ Goto(r, Successor[pos[r]])
  /\ UNCHANGED <<backend, preview, length, published, cached, header>>

Next ==
  \/ FindNothing \/ Publish \/ Store
  \/ \E r \in Requests :
       \/ Follow(r) \/ HitMemory(r) \/ HitRedis(r)
       \/ Sanitize(r) \/ LoadArray(r) \/ LoadLength(r) \/ StoreArray(r) \/ StoreLength(r)
       \/ Look(r) \/ Read(r)

Spec == Init /\ [][Next]_vars
-----------------------------------------------------------------------------
(* Properties. *)

\* Types, and the list of medias is as long as when it was published, however
\* often Finalize is run over it.
TypeOK ==
  /\ backend \in Backends
  /\ preview \in Previews \cup {NoPreview}
  /\ published \in Previews \cup {NoPreview} /\ cached \in Previews \cup {NoPreview, Pointer}
  /\ pos \in [Requests -> Positions]
  /\ \A r \in Requests : response[r] \in Previews \cup {NoPreview}
  /\ published # NoPreview =>
       Len(preview.medias) = Len(published.medias) /\ length = Len(published.medias)

\* Every answer is the preview that was published, field by field: finalising
\* the shared object again, unlocked, while others encode it never shows
\* (in-memory-cache-repository.go:39), and Redis' copy answers the same.
ResponsesAgree ==
  \A r \in Requests : pos[r] = "done" => response[r] = published

\* Whoever has loaded the two words of the Medias header may index the array up
\* to that length, though another request stores the words one by one.
HeaderInBounds ==
  \A r \in Requests : pos[r] \notin LengthLoads => header[r].length <= Len(header[r].medias)

\* A page that yields nothing to show is never published, and so neither cached
\* for a day: what Finalize throws away does not count as content.
PublishedHasContent == published # NoPreview => ~IsEmptyPreview(published)
=============================================================================
