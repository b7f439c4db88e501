-------------------------- MODULE SharedPreviewProofs --------------------------
(***************************************************************************)
(* The answers of any number of followers and cache hits agree.  The       *)
(* argument: what is published is final, on a final preview every store of *)
(* Finalize writes what is there already (PageSummaryProofs), so the       *)
(* object never changes and every read sees what was published.            *)
(***************************************************************************)
EXTENDS SharedPreview, PageSummaryProofs

\* The positions around putting the thumbnail in front, which nobody gets to.
Prepending == {"array3", "length3", "prepend", "prependArray", "prependLength"}

\* Those where both words of the header are loaded and used.
UsesHeader == {"keep", "keepArray", "keepLength", "look", "readMedias"}

NoHeader == [medias |-> <<>>, length |-> 0]
HalfHeader(p) == [medias |-> p.medias, length |-> 0]
WholeHeader(p) == [medias |-> p.medias, length |-> Len(p.medias)]

Types ==
  /\ backend \in Backends
  /\ pos \in [Requests -> Positions \ Prepending]
  /\ header \in [Requests -> [medias : Seq(Strings), length : Nat]]
  /\ response \in [Requests -> Previews \cup {NoPreview}]

BeforePublication ==
  /\ preview = NoPreview /\ cached = NoPreview
  /\ pos[Leader] = "waiting" => \A r \in Requests : pos[r] = "waiting"
  /\ \A r \in Requests :
       pos[r] \in {"waiting", "done"} /\ response[r] = NoPreview /\ header[r] = NoHeader

\* What request r knows of the published preview.
Knows(r) ==
  /\ response[r] = IF pos[r] = "waiting" THEN NoPreview ELSE published
  /\ header[r] \in {NoHeader, HalfHeader(published), WholeHeader(published)}
  /\ pos[r] \in LengthLoads => header[r].medias = published.medias
  /\ pos[r] \in UsesHeader => header[r] = WholeHeader(published)

AfterPublication ==
  /\ published \in Previews /\ IsFinal(published)
  /\ preview = published /\ length = Len(published.medias)
  /\ cached \in {NoPreview, Pointer, published}
  /\ \A r \in Requests : Knows(r)

IInv ==
  /\ Types
  /\ published = NoPreview => BeforePublication
  /\ published # NoPreview => AfterPublication
-----------------------------------------------------------------------------
(* Where each access leads. *)

LEMMA Domains ==
  /\ DOMAIN AfterArray = {"keep", "keepArray", "prepend", "prependArray"}
  /\ DOMAIN AfterLength = {"keep", "keepLength", "prepend", "prependLength"}
  BY DEF AfterArray, AfterLength

LEMMA Successors ==
  /\ \A f \in Sanitized : Successor[f] \in Sanitized \cup {"array1"}
  /\ \A a \in ArrayLoads \ {"array3"} : Successor[a] \in LengthLoads \ {"length3"}
  /\ \A l \in LengthLoads \ {"length3"} : Successor[l] \in {"keep", "look", "readMedias"}
  /\ \A f \in FieldReads :
       Successor[f] \in {"readSitename", "readThumbnail", "array4", "readPlayer", "done"}
  BY DEF Successor, Sanitized, ArrayLoads, LengthLoads, FieldReads

LEMMA StoresLead ==
  /\ AfterArray["keep"] = "keepLength" /\ AfterArray["keepArray"] = "array2"
  /\ AfterLength["keep"] = "keepArray" /\ AfterLength["keepLength"] = "array2"
  BY DEF AfterArray, AfterLength

\* A whole header shows the whole list.
LEMMA LoadedIsPublished ==
  ASSUME NEW r, header[r] = WholeHeader(published), published \in Previews
  PROVE  Loaded(r) = published.medias
<1>1. published.medias \in Seq(Strings)
  BY DEF Previews
<1>2. (DOMAIN published.medias) \cap (1 .. Len(published.medias)) = 1 .. Len(published.medias)
  BY <1>1
<1>3. published.medias = [i \in 1 .. Len(published.medias) |-> published.medias[i]]
  BY <1>1
<1> QED
  BY <1>2, <1>3 DEF Loaded, WholeHeader
-----------------------------------------------------------------------------
LEMMA InitIInv == Init => IInv
<1> SUFFICES ASSUME Init PROVE IInv
  OBVIOUS
<1>1. "waiting" \in Positions \ Prepending
  BY DEF Positions, Prepending
<1>2. <<>> \in Seq(Strings)
  OBVIOUS
<1>3. Types
  BY <1>1, <1>2 DEF Init, Types
<1>4. BeforePublication
  BY DEF Init, BeforePublication, NoHeader, Requests
<1> QED
  BY <1>3, <1>4 DEF IInv, Init

LEMMA FindNothingKeeps == IInv /\ FindNothing => IInv'
<1> SUFFICES ASSUME IInv, FindNothing PROVE IInv'
  OBVIOUS
<1>1. published = NoPreview /\ BeforePublication
  BY DEF FindNothing, IInv
<1>2. Leader \in Requests \ Hits
  BY SharingAssumption DEF Requests
<1>3. pos'[Leader] = "done"
  BY <1>2 DEF FindNothing
<1>4. "done" \in Positions \ Prepending
  BY DEF Positions, Prepending
<1>5. Types'
  BY <1>4 DEF FindNothing, IInv, Types
<1>6. BeforePublication'
  BY <1>1, <1>3 DEF FindNothing, BeforePublication
<1> QED
  BY <1>1, <1>5, <1>6 DEF FindNothing, IInv

LEMMA PublishKeeps == IInv /\ Publish => IInv'
<1> SUFFICES ASSUME IInv, Publish PROVE IInv'
  OBVIOUS
<1>1. BeforePublication
  BY DEF Publish, IInv
<1>2. PICK p \in Scrapings \ {NoPreview} :
        preview' = p /\ published' = p /\ length' = Len(p.medias)
  BY DEF Publish
<1>3. p \in Previews /\ IsFinal(p)
  BY SharingAssumption
<1>4. Types'
  BY DEF Publish, IInv, Types
<1>5. \A r \in Requests : pos[r] = "waiting"
  BY <1>1 DEF Publish, BeforePublication
<1>6. \A r \in Requests : Knows(r)'
  BY <1>1, <1>5 DEF Publish, BeforePublication, Knows, LengthLoads, UsesHeader
<1>7. AfterPublication'
  BY <1>1, <1>2, <1>3, <1>6 DEF Publish, BeforePublication, AfterPublication
<1> QED
  BY <1>2, <1>4, <1>7 DEF IInv

\* A request that makes no access: neither the object nor another request changes.
LEMMA OthersKnow ==
  ASSUME AfterPublication, NEW r \in Requests, Knows(r)',
         UNCHANGED published,
         \A s \in Requests \ {r} :
           /\ pos'[s] = pos[s] /\ header'[s] = header[s] /\ response'[s] = response[s]
  PROVE  \A s \in Requests : Knows(s)'
<1> SUFFICES ASSUME NEW s \in Requests, s # r PROVE Knows(s)'
  OBVIOUS
<1>1. Knows(s)
  BY DEF AfterPublication
<1> QED
  BY <1>1 DEF Knows

LEMMA BeginKeeps ==
  ASSUME IInv, published # NoPreview, NEW r \in Requests, NEW p \in {"readIcon", "sitename"},
         Begin(r, p), cached' \in {cached, Pointer, preview}
  PROVE  IInv'
<1>1. AfterPublication /\ Types /\ Knows(r)
  BY DEF IInv, AfterPublication
<1>2. p \in Positions \ Prepending
  BY DEF Positions, Prepending, Sanitized, FieldReads
<1>3. Types'
  BY <1>1, <1>2 DEF Begin, Goto, Types, AfterPublication
<1>4. Knows(r)'
  BY <1>1 DEF Begin, Goto, Types, Knows, AfterPublication, LengthLoads, UsesHeader
<1>5. \A s \in Requests : Knows(s)'
  BY <1>1, <1>4, OthersKnow DEF Begin, Goto, Types
<1>6. AfterPublication'
  BY <1>1, <1>5 DEF Begin, AfterPublication
<1> QED
  BY <1>3, <1>6 DEF Begin, IInv

LEMMA HitRedisKeeps ==
  ASSUME IInv, NEW r \in Requests, HitRedis(r)
  PROVE  IInv'
<1>1. published # NoPreview /\ AfterPublication /\ Types /\ Knows(r)
  BY DEF IInv, HitRedis, BeforePublication, AfterPublication
<1>2. Finalize(cached) = published
  BY <1>1, FinalizeKeepsFinal DEF HitRedis, AfterPublication
<1>3. "done" \in Positions \ Prepending
  BY DEF Positions, Prepending
<1>4. Types'
  BY <1>1, <1>2, <1>3 DEF HitRedis, Goto, Types, AfterPublication
<1>5. Knows(r)'
  BY <1>1, <1>2 DEF HitRedis, Goto, Types, Knows, LengthLoads, UsesHeader
<1>6. \A s \in Requests : Knows(s)'
  BY <1>1, <1>5, OthersKnow DEF HitRedis, Goto, Types
<1>7. AfterPublication'
  BY <1>1, <1>6 DEF HitRedis, AfterPublication
<1> QED
  BY <1>1, <1>4, <1>7 DEF HitRedis, IInv
-----------------------------------------------------------------------------
(* The accesses.  Each is shown to leave the object as it was published. *)

\* Whoever makes an access does so after the publication.
LEMMA AccessAfterPublication ==
  ASSUME IInv, NEW r \in Requests, pos[r] \notin {"waiting", "done"}
  PROVE  published # NoPreview /\ AfterPublication /\ Types /\ Knows(r) /\ response[r] = published
  BY DEF IInv, BeforePublication, AfterPublication, Knows

LEMMA SanitizeKeeps ==
  ASSUME IInv, NEW r \in Requests, Sanitize(r)
  PROVE  IInv'
<1> DEFINE f == pos[r]
<1>1. f \in Sanitized /\ f \notin {"waiting", "done"}
  BY DEF Sanitize, Sanitized
<1>2. published # NoPreview /\ AfterPublication /\ Types /\ Knows(r) /\ response[r] = published
  BY <1>1, AccessAfterPublication
<1>3. FinalField(preview, f) = preview[f]
  BY <1>1, <1>2, FinalFieldsStay DEF AfterPublication, Sanitized
<1>4. preview' = preview
  <2>1. preview' = [preview EXCEPT ![f] = preview[f]]
    BY <1>3 DEF Sanitize
  <2>2. [preview EXCEPT ![f] = preview[f]] = preview
    BY <1>2, Zenon DEF AfterPublication, Previews
  <2> QED
    BY <2>1, <2>2
<1>5. Successor[f] \in Sanitized \cup {"array1"}
  BY <1>1, Successors
<1>6. Types'
  BY <1>2, <1>5 DEF Sanitize, Goto, Types, Positions, Prepending, Sanitized, ArrayLoads
<1>7. Knows(r)'
  BY <1>1, <1>2, <1>5 DEF Sanitize, Goto, Types, Knows, Sanitized, LengthLoads, UsesHeader
<1>8. \A s \in Requests : Knows(s)'
  BY <1>2, <1>7, OthersKnow DEF Sanitize, Goto, Types
<1>9. AfterPublication'
  BY <1>2, <1>4, <1>8 DEF Sanitize, AfterPublication
<1> QED
  BY <1>2, <1>6, <1>9 DEF Sanitize, IInv

LEMMA LoadArrayKeeps ==
  ASSUME IInv, NEW r \in Requests, LoadArray(r)
  PROVE  IInv'
<1>1. pos[r] \in ArrayLoads \ {"array3"}
  BY DEF LoadArray, IInv, Types, Prepending
<1>2. published # NoPreview /\ AfterPublication /\ Types /\ Knows(r) /\ response[r] = published
  BY <1>1, AccessAfterPublication DEF ArrayLoads
<1>3. Successor[pos[r]] \in LengthLoads \ {"length3"}
  BY <1>1, Successors
<1>4. published.medias \in Seq(Strings)
  BY <1>2 DEF AfterPublication, Previews
<1>5. header'[r] = [header[r] EXCEPT !.medias = published.medias]
  BY <1>2 DEF LoadArray, Types, AfterPublication
<1>6. header' \in [Requests -> [medias : Seq(Strings), length : Nat]]
  BY <1>2, <1>4 DEF LoadArray, Types, AfterPublication
<1>7. Types'
  BY <1>2, <1>3, <1>6 DEF LoadArray, Goto, Types, Positions, Prepending, LengthLoads
<1>8. header'[r] \in {HalfHeader(published), WholeHeader(published)}
  BY <1>2, <1>5 DEF Knows, NoHeader, HalfHeader, WholeHeader
<1>9. Knows(r)'
  BY <1>2, <1>3, <1>8 DEF LoadArray, Goto, Types, Knows, HalfHeader, WholeHeader, LengthLoads,
     UsesHeader
<1>10. \A s \in Requests : Knows(s)'
  BY <1>2, <1>9, OthersKnow DEF LoadArray, Goto, Types
<1>11. AfterPublication'
  BY <1>2, <1>10 DEF LoadArray, AfterPublication
<1> QED
  BY <1>2, <1>7, <1>11 DEF LoadArray, IInv

LEMMA LoadLengthKeeps ==
  ASSUME IInv, NEW r \in Requests, LoadLength(r)
  PROVE  IInv'
<1>1. pos[r] \in LengthLoads \ {"length3"}
  BY DEF LoadLength, IInv, Types, Prepending
<1>2. published # NoPreview /\ AfterPublication /\ Types /\ Knows(r) /\ response[r] = published
  BY <1>1, AccessAfterPublication DEF LengthLoads
<1>3. Successor[pos[r]] \in {"keep", "look", "readMedias"}
  BY <1>1, Successors
<1>4. published.medias \in Seq(Strings) /\ Len(published.medias) \in Nat
  BY <1>2 DEF AfterPublication, Previews
<1>5. header'[r] = [header[r] EXCEPT !.length = Len(published.medias)]
  BY <1>2 DEF LoadLength, Types, AfterPublication
<1>6. header' \in [Requests -> [medias : Seq(Strings), length : Nat]]
  BY <1>2, <1>4 DEF LoadLength, Types, AfterPublication
<1>7. Types'
  BY <1>2, <1>3, <1>6 DEF LoadLength, Goto, Types, Positions, Prepending, FieldReads, AfterArray
<1>8. header'[r] = WholeHeader(published)
  BY <1>1, <1>2, <1>5 DEF Knows, NoHeader, HalfHeader, WholeHeader
<1>9. Knows(r)'
  BY <1>2, <1>3, <1>8 DEF LoadLength, Goto, Types, Knows, LengthLoads, UsesHeader
<1>10. \A s \in Requests : Knows(s)'
  BY <1>2, <1>9, OthersKnow DEF LoadLength, Goto, Types
<1>11. AfterPublication'
  BY <1>2, <1>10 DEF LoadLength, AfterPublication
<1> QED
  BY <1>2, <1>7, <1>11 DEF LoadLength, IInv

\* What a hit stores as the medias is what is there.
LEMMA StoredIsPublished ==
  ASSUME AfterPublication, NEW r \in Requests, Knows(r), pos[r] \in {"keep", "keepArray",
  "keepLength"}
  PROVE  Stored(r) = published.medias
<1>1. Loaded(r) = published.medias
  BY LoadedIsPublished DEF AfterPublication, Knows, UsesHeader
<1>2. SanitizedMedias(published.medias) = published.medias
  BY FinalFieldsStay DEF AfterPublication
<1> QED
  BY <1>1, <1>2 DEF Stored

LEMMA StoreArrayKeeps ==
  ASSUME IInv, NEW r \in Requests, StoreArray(r)
  PROVE  IInv'
<1>1. pos[r] \in {"keep", "keepArray"}
  BY Domains DEF StoreArray, IInv, Types, Prepending
<1>2. published # NoPreview /\ AfterPublication /\ Types /\ Knows(r) /\ response[r] = published
  BY <1>1, AccessAfterPublication
<1>3. AfterArray[pos[r]] \in {"keepLength", "array2"}
  BY <1>1, StoresLead
<1>4. preview' = preview
  <2>1. preview' = [preview EXCEPT !.medias = preview.medias]
    BY <1>1, <1>2, StoredIsPublished DEF StoreArray, AfterPublication
  <2> QED
    BY <1>2, <2>1 DEF AfterPublication, Previews
<1>5. Types'
  BY <1>2, <1>3, Domains DEF StoreArray, Goto, Types, Positions, Prepending, ArrayLoads
<1>6. Knows(r)'
  BY <1>1, <1>2, <1>3 DEF StoreArray, Goto, Types, Knows, LengthLoads, UsesHeader
<1>7. \A s \in Requests : Knows(s)'
  BY <1>2, <1>6, OthersKnow DEF StoreArray, Goto, Types
<1>8. AfterPublication'
  BY <1>2, <1>4, <1>7 DEF StoreArray, AfterPublication
<1> QED
  BY <1>2, <1>5, <1>8 DEF StoreArray, IInv

LEMMA StoreLengthKeeps ==
  ASSUME IInv, NEW r \in Requests, StoreLength(r)
  PROVE  IInv'
<1>1. pos[r] \in {"keep", "keepLength"}
  BY Domains DEF StoreLength, IInv, Types, Prepending
<1>2. published # NoPreview /\ AfterPublication /\ Types /\ Knows(r) /\ response[r] = published
  BY <1>1, AccessAfterPublication
<1>3. AfterLength[pos[r]] \in {"keepArray", "array2"}
  BY <1>1, StoresLead
<1>4. length' = Len(published.medias)
  BY <1>1, <1>2, StoredIsPublished DEF StoreLength
<1>5. Types'
  BY <1>2, <1>3, Domains DEF StoreLength, Goto, Types, Positions, Prepending, ArrayLoads
<1>6. Knows(r)'
  BY <1>1, <1>2, <1>3 DEF StoreLength, Goto, Types, Knows, LengthLoads, UsesHeader
<1>7. \A s \in Requests : Knows(s)'
  BY <1>2, <1>6, OthersKnow DEF StoreLength, Goto, Types
<1>8. AfterPublication'
  BY <1>2, <1>4, <1>7 DEF StoreLength, AfterPublication
<1> QED
  BY <1>2, <1>5, <1>8 DEF StoreLength, IInv

LEMMA LookKeeps ==
  ASSUME IInv, NEW r \in Requests, Look(r)
  PROVE  IInv'
<1>1. pos[r] = "look"
  BY DEF Look
<1>2. published # NoPreview /\ AfterPublication /\ Types /\ Knows(r) /\ response[r] = published
  BY <1>1, AccessAfterPublication
<1>3. ~MissingFrom(preview.thumbnail, Loaded(r))
  BY <1>1, <1>2, LoadedIsPublished, FinalFieldsStay DEF AfterPublication, Knows, UsesHeader
<1>4. pos' = [pos EXCEPT ![r] = "readIcon"]
  BY <1>3 DEF Look, Goto
<1>5. Types'
  BY <1>2, <1>4 DEF Look, Types, Positions, Prepending, FieldReads
<1>6. Knows(r)'
  BY <1>1, <1>2, <1>4 DEF Look, Types, Knows, LengthLoads, UsesHeader
<1>7. \A s \in Requests : Knows(s)'
  BY <1>2, <1>4, <1>6, OthersKnow DEF Look, Types
<1>8. AfterPublication'
  BY <1>2, <1>7 DEF Look, AfterPublication
<1> QED
  BY <1>2, <1>5, <1>8 DEF Look, IInv

LEMMA ReadKeeps ==
  ASSUME IInv, NEW r \in Requests, Read(r)
  PROVE  IInv'
<1>1. pos[r] \in FieldReads
  BY DEF Read
<1>2. published # NoPreview /\ AfterPublication /\ Types /\ Knows(r) /\ response[r] = published
  BY <1>1, AccessAfterPublication DEF FieldReads
<1>3. Successor[pos[r]] \in {"readSitename", "readThumbnail", "array4", "readPlayer", "done"}
  BY <1>1, Successors
<1>4. Encoded(r) = published
  <2>1. response[r] = published /\ preview = published /\ published \in Previews
    BY <1>2 DEF AfterPublication
  <2>2. pos[r] = "readMedias" => Loaded(r) = published.medias
    BY <1>2, LoadedIsPublished DEF AfterPublication, Knows, UsesHeader
  <2> QED
    BY <1>1, <2>1, <2>2 DEF Encoded, FieldReads, Previews
<1>5. response' = [response EXCEPT ![r] = published]
  BY <1>4 DEF Read
<1>6. Types'
  BY <1>2, <1>3, <1>5 DEF Read, Goto, Types, Positions, Prepending, FieldReads, ArrayLoads,
     AfterPublication
<1>7. Knows(r)'
  BY <1>1, <1>2, <1>3, <1>5 DEF Read, Goto, Types, Knows, LengthLoads, UsesHeader
<1>8. \A s \in Requests : Knows(s)'
  BY <1>2, <1>5, <1>7, OthersKnow DEF Read, Goto, Types
<1>9. AfterPublication'
  BY <1>2, <1>8 DEF Read, AfterPublication
<1> QED
  BY <1>2, <1>6, <1>9 DEF Read, IInv
-----------------------------------------------------------------------------
LEMMA StutterKeeps == IInv /\ UNCHANGED vars => IInv'
  BY DEF IInv, vars, Types, BeforePublication, AfterPublication, Knows

\* Every action keeps the invariant.
LEMMA NextKeeps == IInv /\ [Next]_vars => IInv'
<1> SUFFICES ASSUME IInv, [Next]_vars PROVE IInv'
  OBVIOUS
<1>1. CASE FindNothing
  BY <1>1, FindNothingKeeps
<1>2. CASE Publish
  BY <1>2, PublishKeeps
<1>3. CASE Store
  <2>1. Leader \in Requests /\ published # NoPreview /\ Begin(Leader, "readIcon")
    BY <1>3 DEF Store, Requests
  <2>2. cached' \in {cached, Pointer, preview}
    BY <1>3 DEF Store
  <2> QED
    BY <2>1, <2>2, BeginKeeps
<1>4. ASSUME NEW r \in Requests, Follow(r) PROVE IInv'
  BY <1>4, BeginKeeps DEF Follow
<1>5. ASSUME NEW r \in Requests, HitMemory(r) PROVE IInv'
  <2>1. published # NoPreview
    BY <1>5, SharingAssumption DEF HitMemory, IInv, BeforePublication
  <2> QED
    BY <1>5, <2>1, BeginKeeps DEF HitMemory
<1>6. ASSUME NEW r \in Requests, HitRedis(r) PROVE IInv'
  BY <1>6, HitRedisKeeps
<1>7. ASSUME NEW r \in Requests, Sanitize(r) \/ LoadArray(r) \/ LoadLength(r) PROVE IInv'
  BY <1>7, SanitizeKeeps, LoadArrayKeeps, LoadLengthKeeps
<1>8. ASSUME NEW r \in Requests, StoreArray(r) \/ StoreLength(r) \/ Look(r) \/ Read(r) PROVE IInv'
  BY <1>8, StoreArrayKeeps, StoreLengthKeeps, LookKeeps, ReadKeeps
<1>9. CASE UNCHANGED vars
  BY <1>9, StutterKeeps
<1> QED
  BY <1>1, <1>2, <1>3, <1>4, <1>5, <1>6, <1>7, <1>8, <1>9 DEF Next

\* The object is as it was published from the publication on, whatever the
\* hits' unlocked Finalize (in-memory-cache-repository.go:39) stores into it.
THEOREM ObjectNeverChanges == Spec => []IInv
<1>1. Init => IInv
  BY InitIInv
<1>2. IInv /\ [Next]_vars => IInv'
  BY NextKeeps
<1> QED
  BY <1>1, <1>2, PTL DEF Spec

\* TypeOK: the list of medias keeps its published length through any number of
\* finalisations.
THEOREM TypeCorrect == Spec => []TypeOK
<1>1. IInv => TypeOK
  <2> SUFFICES ASSUME IInv PROVE TypeOK
    OBVIOUS
  <2>1. pos \in [Requests -> Positions] /\ \A r \in Requests : response[r] \in Previews \cup {NoPreview}
    BY DEF IInv, Types
  <2> QED
    BY <2>1 DEF IInv, Types, BeforePublication, AfterPublication, TypeOK
<1> QED
  BY <1>1, ObjectNeverChanges, PTL

\* Whoever asks, when, and from whichever cache: all get the same answer, the
\* preview the leader published.
THEOREM AnswersAgree == Spec => []ResponsesAgree
<1>1. IInv => ResponsesAgree
  BY DEF IInv, BeforePublication, AfterPublication, Knows, ResponsesAgree
<1> QED
  BY <1>1, ObjectNeverChanges, PTL

\* No request loads a header that reaches past its array, though the words of
\* the header are stored and loaded one at a time.
THEOREM HeadersSafe == Spec => []HeaderInBounds
<1>1. IInv => HeaderInBounds
  <2> SUFFICES ASSUME IInv, NEW r \in Requests PROVE header[r].length <= Len(header[r].medias)
    BY DEF HeaderInBounds
  <2>1. CASE published = NoPreview
    BY <2>1 DEF IInv, BeforePublication, NoHeader
  <2>2. CASE published # NoPreview
    <3>1. published.medias \in Seq(Strings)
      BY <2>2 DEF IInv, AfterPublication, Previews
    <3>2. header[r] \in {NoHeader, HalfHeader(published), WholeHeader(published)}
      BY <2>2 DEF IInv, AfterPublication, Knows
    <3> QED
      BY <3>1, <3>2 DEF NoHeader, HalfHeader, WholeHeader
  <2> QED
    BY <2>1, <2>2
<1> QED
  BY <1>1, ObjectNeverChanges, PTL

\* With the scrapers of PageExtraction: what the leader publishes, hands to its
\* followers and stores for a day has something to show, whatever the pages hold.
\* NoPreview says that the scrape found nothing.
THEOREM NothingEmptyPublished ==
  ASSUME NEW Pages, \A page \in Pages : IsPage(page),
         Scrapings \subseteq UNION {Scraped(page) : page \in Pages}
  PROVE  Spec => []PublishedHasContent
<1>1. Init => PublishedHasContent
  BY DEF Init, PublishedHasContent
<1>2. PublishedHasContent /\ [Next]_vars => PublishedHasContent'
  <2> SUFFICES ASSUME PublishedHasContent, [Next]_vars PROVE PublishedHasContent'
    OBVIOUS
  <2>1. CASE Publish
    <3>1. PICK p \in Scrapings \ {NoPreview} : published' = p
      BY <2>1 DEF Publish
    <3>2. PICK page \in Pages : p \in Scraped(page)
      OBVIOUS
    <3>3. ~IsEmptyPreview(p)
      BY <3>1, <3>2, ScrapedHasContent
    <3> QED
      BY <3>1, <3>3 DEF PublishedHasContent
  <2>2. CASE UNCHANGED published
    BY <2>2 DEF PublishedHasContent
  <2>3. Publish \/ UNCHANGED published
    BY DEF Next, vars, FindNothing, Store, Follow, HitMemory, HitRedis, Begin, Sanitize,
       LoadArray, LoadLength, StoreArray, StoreLength, Look, Read
  <2> QED
    BY <2>1, <2>2, <2>3
<1> QED
  BY <1>1, <1>2, PTL DEF Spec
=============================================================================
