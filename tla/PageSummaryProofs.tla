--------------------------- MODULE PageSummaryProofs ---------------------------
(***************************************************************************)
(* Facts about Finalize.  What it leaves alone is IsFinal; SharedPreview-  *)
(* Proofs rests on it.                                                     *)
(***************************************************************************)
EXTENDS PageExtraction, FiniteSetTheorems, WellFoundedInduction, TLAPS

\* SanitizeUrl returns a string of the world.
LEMMA SanitizeUrlType ==
  ASSUME NEW s \in Strings
  PROVE  SanitizeUrl(s) \in Strings
  BY StringAssumption DEF SanitizeUrl

\* What SanitizeUrl has let pass passes again.
LEMMA SanitizeUrlIdempotent ==
  ASSUME NEW s \in Strings
  PROVE  SanitizeUrl(SanitizeUrl(s)) = SanitizeUrl(s)
<1>1. CASE SanitizeUrl(s) = Empty
  BY <1>1, StringAssumption DEF SanitizeUrl
<1>2. CASE SanitizeUrl(s) # Empty
  <2>1. SanitizeUrl(s) = Trimmed[s]
    BY <1>2 DEF SanitizeUrl
  <2>2. Trimmed[Trimmed[s]] = Trimmed[s]
    BY StringAssumption
  <2> QED
    BY <2>1, <2>2 DEF SanitizeUrl
<1> QED
  BY <1>1, <1>2

\* The least-number principle, which stands in for induction below.
LEMMA LeastNatural ==
  ASSUME NEW S \in SUBSET Nat, S # {}
  PROVE  \E m \in S : \A n \in S : m <= n
<1> DEFINE Below == {ss \in Nat \X Nat : ss[1] < ss[2]}
<1>1. IsWellFoundedOn(Below, Nat)
  BY NatLessThanWellFounded, Zenon DEF OpToRel
<1>2. \E m \in S : \A n \in S : <<n, m>> \notin Below
  <2> HIDE DEF Below
  <2> QED
    BY <1>1, WFMin, Zenon
<1>3. PICK m \in S : \A n \in S : <<n, m>> \notin Below
  BY <1>2
<1>4. \A n \in S : ~(n < m)
  BY <1>3
<1> QED
  BY <1>4
-----------------------------------------------------------------------------
(* Nth: the members of a set of indices in order. *)

\* How many members of S are at most m.
Rank(S, m) == Cardinality({j \in S : j <= m})

LEMMA RankType ==
  ASSUME NEW n \in Nat, NEW S, \A j \in S : j \in 1 .. n, NEW m \in Int
  PROVE  Rank(S, m) \in Nat /\ IsFiniteSet(S) /\ Cardinality(S) \in Nat
<1>1. IsFiniteSet(1 .. n)
  BY FS_Interval
<1>2. IsFiniteSet(S) /\ IsFiniteSet({j \in S : j <= m})
  BY <1>1, FS_Subset
<1> QED
  BY <1>2, FS_CardinalityType DEF Rank

\* One index further, one member more or none.
LEMMA RankStep ==
  ASSUME NEW n \in Nat, NEW S, \A j \in S : j \in 1 .. n, NEW m \in 1 .. n
  PROVE  Rank(S, m) = IF m \in S THEN Rank(S, m - 1) + 1 ELSE Rank(S, m - 1)
<1> DEFINE L == {j \in S : j <= m - 1}
<1>1. IsFiniteSet(1 .. n)
  BY FS_Interval
<1>2. IsFiniteSet(L)
  BY <1>1, FS_Subset
<1>3. CASE m \in S
  <2>1. {j \in S : j <= m} = L \cup {m}
    <3>1. \A j \in S : j <= m <=> j <= m - 1 \/ j = m
      OBVIOUS
    <3> QED
      BY <1>3, <3>1
  <2>2. m \notin L
    OBVIOUS
  <2> HIDE DEF L
  <2>3. Cardinality(L \cup {m}) = Cardinality(L) + 1
    BY <1>2, <2>2, FS_AddElement
  <2> QED
    BY <1>3, <2>1, <2>3 DEF Rank, L
<1>4. CASE m \notin S
  <2>1. {j \in S : j <= m} = L
    BY <1>4
  <2> QED
    BY <1>4, <2>1 DEF Rank
<1> QED
  BY <1>3, <1>4

\* A member beyond i counts more.
LEMMA RankGrows ==
  ASSUME NEW n \in Nat, NEW S, \A j \in S : j \in 1 .. n, NEW i \in S, NEW j \in S, i < j
  PROVE  Rank(S, i) < Rank(S, j)
<1> DEFINE A == {k \in S : k <= i}
           B == {k \in S : k <= j}
<1>1. IsFiniteSet(1 .. n)
  BY FS_Interval
<1>2. IsFiniteSet(B) /\ A \in SUBSET B /\ A # B
  <2>1. IsFiniteSet(B)
    BY <1>1, FS_Subset
  <2>2. A \in SUBSET B
    OBVIOUS
  <2>3. j \in B /\ j \notin A
    OBVIOUS
  <2> QED
    BY <2>1, <2>2, <2>3
<1>3. Rank(S, i) = Cardinality(A) /\ Rank(S, j) = Cardinality(B)
  BY DEF Rank
<1>4. Rank(S, i) \in Nat /\ Rank(S, j) \in Nat
  <2>1. i \in Int /\ j \in Int
    OBVIOUS
  <2> HIDE DEF A, B
  <2> QED
    BY <2>1, RankType
<1> HIDE DEF A, B
<1>5. Cardinality(A) <= Cardinality(B) /\ Cardinality(A) # Cardinality(B)
  BY <1>2, FS_Subset
<1> QED
  BY <1>3, <1>4, <1>5

\* Nth(S, k) is the member of S whose rank is k.
LEMMA NthMember ==
  ASSUME NEW n \in Nat, NEW S, \A j \in S : j \in 1 .. n, NEW k \in 1 .. Cardinality(S)
  PROVE  Nth(S, k) \in S /\ Rank(S, Nth(S, k)) = k
<1> DEFINE T == {m \in 0 .. n : Rank(S, m) >= k}
<1>1. n \in T
  <2>1. {j \in S : j <= n} = S
    OBVIOUS
  <2>2. Cardinality(S) \in Nat
    BY RankType
  <2>3. Rank(S, n) = Cardinality(S)
    BY <2>1 DEF Rank
  <2> QED
    BY <2>2, <2>3
<1>2. PICK m \in T : \A l \in T : m <= l
  <2>1. T \in SUBSET Nat /\ T # {}
    BY <1>1
  <2> HIDE DEF T
  <2> QED
    BY <2>1, LeastNatural
<1>3. m # 0
  <2>1. {j \in S : j <= 0} = {}
    OBVIOUS
  <2>2. Rank(S, 0) = 0
    BY <2>1, FS_EmptySet DEF Rank
  <2> QED
    BY <1>2, <2>2
<1>4. m \in 1 .. n /\ m - 1 \in 0 .. n /\ m - 1 \notin T
  BY <1>2, <1>3
<1>5. Rank(S, m - 1) \in Nat /\ Rank(S, m) \in Nat /\ Rank(S, m - 1) < k /\ Rank(S, m) >= k
  BY <1>2, <1>4, RankType
<1>6. m \in S /\ Rank(S, m) = k
  BY <1>4, <1>5, RankStep
<1>7. \E i \in S : Cardinality({j \in S : j <= i}) = k
  BY <1>6 DEF Rank
<1> QED
  BY <1>7 DEF Nth, Rank

\* The k-th member of 1 .. n is k.
LEMMA NthOfInterval ==
  ASSUME NEW n \in Nat, NEW k \in 1 .. n
  PROVE  Nth(1 .. n, k) = k
<1>1. \A i \in 1 .. n : {j \in 1 .. n : j <= i} = 1 .. i
  OBVIOUS
<1>2. \A i \in 1 .. n : Cardinality(1 .. i) = i
  <2> SUFFICES ASSUME NEW i \in 1 .. n
               PROVE  Cardinality(1 .. i) = i
    OBVIOUS
  <2>1. Cardinality(1 .. i) = IF 1 > i THEN 0 ELSE i - 1 + 1
    BY FS_Interval
  <2> QED
    BY <2>1
<1>3. \A i \in 1 .. n : Cardinality({j \in 1 .. n : j <= i}) = k <=> i = k
  BY <1>1, <1>2
<1> QED
  BY <1>3 DEF Nth

\* A list of addresses that are clean, and none twice, is kept as it stands.
LEMMA CleanMediasKept ==
  ASSUME NEW s \in Seq(Strings),
         \A i \in DOMAIN s : /\ SanitizeUrl(s[i]) = s[i] /\ s[i] # Empty
                             /\ \A j \in 1 .. i - 1 : s[j] # s[i]
  PROVE  SanitizedMedias(s) = s
<1>1. DOMAIN s = 1 .. Len(s) /\ Len(s) \in Nat
  OBVIOUS
<1>2. \A i \in DOMAIN s : \A j \in 1 .. i - 1 : j \in DOMAIN s
  BY <1>1
<1>3. Kept(s) = 1 .. Len(s)
  BY <1>1, <1>2 DEF Kept
<1>4. Cardinality(Kept(s)) = Len(s)
  <2>1. Cardinality(1 .. Len(s)) = IF 1 > Len(s) THEN 0 ELSE Len(s) - 1 + 1
    BY <1>1, FS_Interval
  <2> QED
    BY <1>1, <1>3, <2>1
<1>5. \A k \in 1 .. Len(s) : Nth(Kept(s), k) = k
  BY <1>1, <1>3, NthOfInterval
<1>6. SanitizedMedias(s) = [k \in 1 .. Len(s) |-> SanitizeUrl(s[Nth(Kept(s), k)])]
  BY <1>4 DEF SanitizedMedias
<1>7. SanitizedMedias(s) = [k \in 1 .. Len(s) |-> s[k]]
  BY <1>1, <1>5, <1>6
<1> QED
  BY <1>1, <1>7

\* On a final preview none of Finalize's assignments changes anything: not the
\* fields one by one, not the medias, and no thumbnail is put in front of them.
LEMMA FinalFieldsStay ==
  ASSUME NEW p \in Previews, IsFinal(p)
  PROVE  /\ \A f \in {"sitename", "player", "icon", "thumbnail", "playerUrl"} : FinalField(p, f) = p[f]
         /\ SanitizedMedias(p.medias) = p.medias
         /\ ~MissingFrom(p.thumbnail, p.medias)
<1>1. FinalField(p, "sitename") = p.sitename
  BY DEF IsFinal, FinalField
<1>2. FinalField(p, "player") = p.player
  BY DEF IsFinal, FinalField, Previews
<1>3. \A f \in {"icon", "thumbnail", "playerUrl"} : SanitizeUrl(p[f]) = p[f]
  BY DEF IsFinal
<1>4. \A f \in {"icon", "thumbnail", "playerUrl"} : FinalField(p, f) = p[f]
  BY <1>3 DEF FinalField
<1>5. p.medias \in Seq(Strings)
  BY DEF Previews
<1>6. SanitizedMedias(p.medias) = p.medias
  BY <1>5, CleanMediasKept DEF IsFinal, Range
<1>7. ~MissingFrom(p.thumbnail, p.medias)
  BY DEF IsFinal, MissingFrom
<1> QED
  BY <1>1, <1>2, <1>4, <1>6, <1>7

\* Finalize (page-summary.go:120) changes nothing in a preview that is final,
\* so a cache hit's Finalize is a no-op however often it is repeated.
THEOREM FinalizeKeepsFinal ==
  ASSUME NEW p \in Previews, IsFinal(p)
  PROVE  Finalize(p) = p
<1>1. ConsistentMedias(p.thumbnail, SanitizedMedias(p.medias)) = p.medias
  BY FinalFieldsStay DEF ConsistentMedias
<1>2. Finalize(p) = [p EXCEPT !.sitename = p.sitename, !.player = p.player, !.icon = p.icon,
                              !.thumbnail = p.thumbnail, !.playerUrl = p.playerUrl,
                              !.medias = p.medias]
  BY <1>1, FinalFieldsStay DEF Finalize
<1> QED
  BY <1>2 DEF Previews

-----------------------------------------------------------------------------
(* The medias after ensureMediasConsistency, for any list. *)

LEMMA KeptIndices ==
  ASSUME NEW s \in Seq(Strings)
  PROVE  /\ Len(s) \in Nat /\ \A j \in Kept(s) : j \in 1 .. Len(s)
         /\ IsFiniteSet(Kept(s)) /\ Cardinality(Kept(s)) \in Nat
<1>1. Len(s) \in Nat /\ DOMAIN s = 1 .. Len(s)
  OBVIOUS
<1>2. \A j \in Kept(s) : j \in 1 .. Len(s)
  BY <1>1 DEF Kept
<1> QED
  BY <1>1, <1>2, RankType

\* What is kept is clean, not empty, and none of it twice.
LEMMA SanitizedMediasClean ==
  ASSUME NEW s \in Seq(Strings)
  PROVE  /\ SanitizedMedias(s) \in Seq(Strings)
         /\ \A i \in DOMAIN SanitizedMedias(s) :
              /\ SanitizeUrl(SanitizedMedias(s)[i]) = SanitizedMedias(s)[i]
              /\ SanitizedMedias(s)[i] # Empty
              /\ \A j \in 1 .. i - 1 : SanitizedMedias(s)[j] # SanitizedMedias(s)[i]
<1> DEFINE K == Kept(s)
           m == SanitizedMedias(s)
           N == Cardinality(K)
<1>1. Len(s) \in Nat /\ N \in Nat /\ \A j \in K : j \in 1 .. Len(s)
  BY KeptIndices
<1>2. DOMAIN s = 1 .. Len(s) /\ \A i \in DOMAIN s : s[i] \in Strings
  OBVIOUS
<1>3. \A k \in 1 .. N : Nth(K, k) \in K /\ Rank(K, Nth(K, k)) = k
  <2> HIDE DEF K
  <2> QED
    BY <1>1, NthMember
<1>4. m = [k \in 1 .. N |-> SanitizeUrl(s[Nth(K, k)])]
  BY DEF SanitizedMedias
<1>5. \A k \in 1 .. N : s[Nth(K, k)] \in Strings /\ SanitizeUrl(s[Nth(K, k)]) # Empty
  BY <1>1, <1>2, <1>3 DEF Kept
<1>6. \A k \in 1 .. N : SanitizeUrl(s[Nth(K, k)]) \in Strings
  BY <1>5, SanitizeUrlType
<1>7. m \in Seq(Strings) /\ DOMAIN m = 1 .. N
  <2> HIDE DEF m, K, N
  <2> QED
    BY <1>1, <1>4, <1>6
<1>8. ASSUME NEW i \in 1 .. N PROVE SanitizeUrl(m[i]) = m[i] /\ m[i] # Empty
  BY <1>4, <1>5, SanitizeUrlIdempotent
<1>9. ASSUME NEW i \in 1 .. N, NEW j \in 1 .. i - 1 PROVE m[j] # m[i]
  <2> DEFINE a == Nth(K, i)
             b == Nth(K, j)
  <2>1. j \in 1 .. N /\ i # j
    BY <1>1
  <2>2. a \in K /\ b \in K /\ a # b
    BY <1>3, <2>1
  <2>3. a \in 1 .. Len(s) /\ b \in 1 .. Len(s)
    BY <1>1, <2>2
  <2>4. SanitizeUrl(s[a]) # SanitizeUrl(s[b])
    <3>1. a < b \/ b < a
      BY <2>2, <2>3
    <3>2. a < b => a \in 1 .. b - 1
      BY <2>3
    <3>3. b < a => b \in 1 .. a - 1
      BY <2>3
    <3> HIDE DEF a, b
    <3> QED
      BY <2>2, <3>1, <3>2, <3>3 DEF Kept
  <2> QED
    BY <1>4, <2>1, <2>4
<1> QED
  BY <1>7, <1>8, <1>9

\* Nothing usable is lost: the list holds exactly the addresses that SanitizeUrl
\* makes of the old ones and that are not empty.
LEMMA SanitizedMediasComplete ==
  ASSUME NEW s \in Seq(Strings), NEW i \in DOMAIN s, SanitizeUrl(s[i]) # Empty
  PROVE  SanitizeUrl(s[i]) \in Range(SanitizedMedias(s))
<1> DEFINE K == Kept(s)
           N == Cardinality(K)
           u == SanitizeUrl(s[i])
           Same == {j \in 1 .. Len(s) : SanitizeUrl(s[j]) = u}
<1>1. Len(s) \in Nat /\ N \in Nat /\ IsFiniteSet(K) /\ \A j \in K : j \in 1 .. Len(s)
  BY KeptIndices
<1>2. DOMAIN s = 1 .. Len(s)
  OBVIOUS
<1>3. PICK first \in Same : \A j \in Same : first <= j
  <2>1. Same \in SUBSET Nat /\ i \in Same
    BY <1>2
  <2> HIDE DEF Same
  <2> QED
    BY <2>1, LeastNatural
<1>4. first \in K
  <2>1. \A j \in 1 .. first - 1 : j \in 1 .. Len(s) /\ ~(first <= j)
    BY <1>1, <1>3
  <2>2. \A j \in 1 .. first - 1 : SanitizeUrl(s[j]) # SanitizeUrl(s[first])
    BY <1>3, <2>1
  <2> QED
    BY <1>2, <1>3, <2>2 DEF Kept
<1> DEFINE k == Rank(K, first)
<1>5. k \in 1 .. N
  <2>1. {j \in K : j <= first} \in SUBSET K /\ first \in {j \in K : j <= first}
    BY <1>1, <1>4
  <2>2. IsFiniteSet({j \in K : j <= first}) /\ k <= N
    BY <1>1, <2>1, FS_Subset DEF Rank
  <2>3. k # 0
    BY <2>1, <2>2, FS_EmptySet DEF Rank
  <2>4. k \in Nat
    BY <2>2, FS_CardinalityType DEF Rank
  <2> HIDE DEF k, N
  <2> QED
    BY <1>1, <2>2, <2>3, <2>4
<1>6. Nth(K, k) = first
  <2>1. Nth(K, k) \in K /\ Rank(K, Nth(K, k)) = k
    <3> HIDE DEF K, k
    <3> QED
      BY <1>1, <1>5, NthMember DEF N
  <2>2. Nth(K, k) \in 1 .. Len(s) /\ first \in 1 .. Len(s)
    BY <1>1, <1>4, <2>1
  <2>3. ~(Nth(K, k) < first) /\ ~(first < Nth(K, k))
    <3>1. \A a, b \in K : a < b => Rank(K, a) < Rank(K, b)
      <4> HIDE DEF K
      <4> QED
        BY <1>1, RankGrows
    <3>2. k \in Int /\ Rank(K, first) = k
      BY <1>5
    <3> HIDE DEF K, k
    <3>3. Nth(K, k) < first => Rank(K, Nth(K, k)) < Rank(K, first)
      BY <1>4, <2>1, <3>1
    <3>4. first < Nth(K, k) => Rank(K, first) < Rank(K, Nth(K, k))
      BY <1>4, <2>1, <3>1
    <3> QED
      BY <2>1, <3>2, <3>3, <3>4
  <2> QED
    BY <2>2, <2>3
<1>7. SanitizedMedias(s)[k] = SanitizeUrl(s[first]) /\ k \in DOMAIN SanitizedMedias(s)
  BY <1>5, <1>6 DEF SanitizedMedias
<1> QED
  BY <1>3, <1>7 DEF Range

\* Finalize makes every preview final, whatever its list of medias, and loses no
\* media that has an address to show (page-summary.go:120, ensureMediasConsistency).
THEOREM FinalizeFinishes ==
  ASSUME NEW p \in Previews
  PROVE  /\ Finalize(p) \in Previews /\ IsFinal(Finalize(p))
         /\ \A u \in {p.thumbnail} \cup Range(p.medias) :
              SanitizeUrl(u) # Empty => SanitizeUrl(u) \in Range(Finalize(p).medias)
<1> DEFINE q == Finalize(p)
           t == SanitizeUrl(p.thumbnail)
           m == SanitizedMedias(p.medias)
<1>1. /\ m \in Seq(Strings)
      /\ \A i \in DOMAIN m : /\ SanitizeUrl(m[i]) = m[i] /\ m[i] # Empty
                             /\ \A j \in 1 .. i - 1 : m[j] # m[i]
  BY SanitizedMediasClean DEF Previews
<1>2. t \in Strings /\ SanitizeUrl(t) = t
  BY SanitizeUrlType, SanitizeUrlIdempotent DEF Previews
<1>3. SanitizeUrl(p.icon) \in Strings /\ SanitizeUrl(SanitizeUrl(p.icon)) = SanitizeUrl(p.icon)
  BY SanitizeUrlType, SanitizeUrlIdempotent DEF Previews
<1>4. /\ SanitizeUrl(p.playerUrl) \in Strings
      /\ SanitizeUrl(SanitizeUrl(p.playerUrl)) = SanitizeUrl(p.playerUrl)
  BY SanitizeUrlType, SanitizeUrlIdempotent DEF Previews
<1>5. /\ q.player /\ q.icon = SanitizeUrl(p.icon) /\ q.playerUrl = SanitizeUrl(p.playerUrl)
      /\ q.thumbnail = t /\ q.siteName = p.siteName
      /\ q.sitename = IF p.sitename = Empty THEN p.siteName ELSE p.sitename
      /\ q.medias = ConsistentMedias(t, m)
  BY DEF Finalize, FinalField, Previews
<1>6. /\ q.medias \in Seq(Strings)
      /\ \A i \in DOMAIN q.medias :
           /\ SanitizeUrl(q.medias[i]) = q.medias[i] /\ q.medias[i] # Empty
           /\ \A j \in 1 .. i - 1 : q.medias[j] # q.medias[i]
      /\ Range(m) \subseteq Range(q.medias)
      /\ t # Empty => t \in Range(q.medias)
  <2> HIDE DEF q, t, m
  <2>1. CASE ~MissingFrom(t, m)
    BY <1>1, <1>5, <2>1 DEF ConsistentMedias, MissingFrom
  <2>2. CASE MissingFrom(t, m)
    <3> DEFINE l == <<t>> \o m
    <3>1. q.medias = l /\ t # Empty /\ \A i \in DOMAIN m : m[i] # t
      BY <1>5, <2>2 DEF ConsistentMedias, MissingFrom, Range
    <3>2. /\ l \in Seq(Strings) /\ Len(m) \in Nat
          /\ DOMAIN m = 1 .. Len(m) /\ DOMAIN l = 1 .. Len(m) + 1
          /\ l[1] = t /\ \A i \in DOMAIN l : i # 1 => i - 1 \in DOMAIN m /\ l[i] = m[i - 1]
      BY <1>1, <1>2
    <3>3. \A i \in DOMAIN m : i + 1 \in DOMAIN l /\ l[i + 1] = m[i]
      BY <1>1, <1>2
    <3> HIDE DEF l
    <3>4. ASSUME NEW i \in DOMAIN l
          PROVE  /\ SanitizeUrl(l[i]) = l[i] /\ l[i] # Empty
                 /\ \A j \in 1 .. i - 1 : l[j] # l[i]
      <4>1. CASE i = 1
        BY <1>2, <3>1, <3>2, <4>1
      <4>2. CASE i # 1
        <5>1. i - 1 \in DOMAIN m /\ l[i] = m[i - 1] /\ i \in Nat
          BY <3>2, <4>2
        <5>2. ASSUME NEW j \in 1 .. i - 1 PROVE l[j] # l[i]
          <6>1. CASE j = 1
            BY <3>1, <3>2, <5>1, <6>1
          <6>2. CASE j # 1
            <7>1. j \in DOMAIN l /\ j - 1 \in 1 .. (i - 1) - 1
              BY <3>2, <5>1, <6>2
            <7>2. l[j] = m[j - 1]
              BY <3>2, <6>2, <7>1
            <7> QED
              BY <1>1, <5>1, <7>1, <7>2
          <6> QED
            BY <6>1, <6>2
        <5> QED
          BY <1>1, <5>1, <5>2
      <4> QED
        BY <4>1, <4>2
    <3>5. Range(m) \subseteq Range(l) /\ t \in Range(l)
      <4>1. 1 \in DOMAIN l
        BY <3>2
      <4> QED
        BY <3>2, <3>3, <4>1 DEF Range
    <3> QED
      BY <3>1, <3>2, <3>4, <3>5
  <2> QED
    BY <2>1, <2>2
<1>7. q \in Previews
  <2>1. q = [p EXCEPT !.sitename = q.sitename, !.player = q.player, !.icon = q.icon,
                      !.thumbnail = q.thumbnail, !.playerUrl = q.playerUrl, !.medias = q.medias]
    BY DEF Finalize, Previews
  <2>2. q.sitename \in Strings /\ q.player \in BOOLEAN
    BY <1>5 DEF Finalize, FinalField, Previews
  <2>3. /\ q.icon \in Strings /\ q.thumbnail \in Strings /\ q.playerUrl \in Strings
        /\ q.medias \in Seq(Strings)
    BY <1>2, <1>3, <1>4, <1>5, <1>6
  <2> HIDE DEF q
  <2> QED
    BY <2>1, <2>2, <2>3 DEF Previews
<1>8. IsFinal(q)
  <2> HIDE DEF q, t, m
  <2>1. SanitizeUrl(t) = t /\ SanitizeUrl(q.icon) = q.icon /\ SanitizeUrl(q.playerUrl) = q.playerUrl
    BY <1>2, <1>3, <1>4, <1>5
  <2>2. \A u \in Range(q.medias) : SanitizeUrl(u) = u
    BY <1>6 DEF Range
  <2> QED
    BY <1>5, <1>6, <2>1, <2>2 DEF IsFinal
<1>9. ASSUME NEW u \in Range(p.medias), SanitizeUrl(u) # Empty PROVE SanitizeUrl(u) \in Range(q.medias)
  <2>1. p.medias \in Seq(Strings)
    BY DEF Previews
  <2>2. PICK i \in DOMAIN p.medias : u = p.medias[i]
    BY DEF Range
  <2>3. SanitizeUrl(u) \in Range(m)
    BY <1>9, <2>1, <2>2, SanitizedMediasComplete
  <2> QED
    BY <1>6, <2>3
<1>10. t # Empty => t \in Range(q.medias)
  BY <1>6
<1> QED
  BY <1>7, <1>8, <1>9, <1>10

\* However often Finalize is run over a preview, once is enough.
THEOREM FinalizeIdempotent ==
  ASSUME NEW p \in Previews
  PROVE  Finalize(Finalize(p)) = Finalize(p)
  BY FinalizeFinishes, FinalizeKeepsFinal
-----------------------------------------------------------------------------
(* What a scraper returns (PageExtraction). *)

\* The setters make previews of previews.
LEMMA SettersType ==
  ASSUME NEW p \in Previews, NEW s \in Strings
  PROVE  /\ SetTitle(p, s) \in Previews /\ SetDescription(p, s) \in Previews
         /\ SetIcon(p, s) \in Previews /\ SetThumbnail(p, s) \in Previews
         /\ SetSiteName(p, s) \in Previews /\ SetPlayer(p, s) \in Previews
<1>1. Trimmed[s] \in Strings
  BY StringAssumption
<1>2. SetTitle(p, s) \in Previews /\ SetDescription(p, s) \in Previews
  BY <1>1 DEF SetTitle, SetDescription, Previews
<1>3. SetIcon(p, s) \in Previews /\ SetThumbnail(p, s) \in Previews
  BY <1>1 DEF SetIcon, SetThumbnail, Previews
<1>4. SetSiteName(p, s) \in Previews
  BY <1>1 DEF SetSiteName, Previews
<1>5. SetPlayer(p, s) \in Previews
  BY DEF SetPlayer, Previews
<1> QED
  BY <1>2, <1>3, <1>4, <1>5

\* The first candidate that is not empty: one of them, none before it, or Empty
\* when there is none.
LEMMA FirstNonEmptyIsFirst ==
  ASSUME NEW s \in Seq(Strings)
  PROVE  /\ FirstNonEmpty(s) \in Strings
         /\ \/ FirstNonEmpty(s) = Empty /\ \A i \in DOMAIN s : s[i] = Empty
            \/ \E i \in DOMAIN s : /\ s[i] = FirstNonEmpty(s) /\ s[i] # Empty
                                  /\ \A j \in 1 .. i - 1 : s[j] = Empty
<1> DEFINE found == {i \in DOMAIN s : s[i] # Empty}
<1>1. CASE found = {}
  BY <1>1, StringAssumption DEF FirstNonEmpty
<1>2. CASE found # {}
  <2> DEFINE i == CHOOSE i \in found : \A j \in found : i <= j
  <2>1. found \in SUBSET Nat
    OBVIOUS
  <2>2. \E m \in found : \A j \in found : m <= j
    <3> HIDE DEF found
    <3> QED
      BY <1>2, <2>1, LeastNatural
  <2>3. i \in found /\ \A j \in found : i <= j
    <3> HIDE DEF found
    <3> QED
      BY <2>2
  <2>4. FirstNonEmpty(s) = s[i]
    BY <1>2 DEF FirstNonEmpty
  <2> HIDE DEF i
  <2>5. i \in DOMAIN s /\ s[i] # Empty /\ s[i] \in Strings
    BY <2>3
  <2>6. \A j \in 1 .. i - 1 : j \in DOMAIN s /\ ~(i <= j)
    BY <2>5
  <2>7. \A j \in 1 .. i - 1 : s[j] = Empty
    BY <2>3, <2>6
  <2> QED
    BY <2>4, <2>5, <2>7
<1> QED
  BY <1>1, <1>2

\* The texts a page may give its preview.
LEMMA CandidatesType ==
  ASSUME NEW page, IsPage(page)
  PROVE  /\ \A field \in {"titles", "descriptions", "images", "icons", "sites", "videos",
                          "streams"} :
              FirstNonEmpty(page[field]) \in Strings
         /\ \A s \in Strings : Resolved[s] \in Strings
         /\ Images(page) \subseteq Strings /\ Video(page) \in Strings
         /\ FirstNonEmpty(page.icons \o <<OwnIcon>>) \in Strings
         /\ FirstNonEmpty(page.titles \o <<Label>>) \in Strings
<1>1. \A field \in {"titles", "descriptions", "images", "icons", "sites", "videos", "streams"} :
        FirstNonEmpty(page[field]) \in Strings
  BY FirstNonEmptyIsFirst DEF IsPage
<1>2. \A s \in Strings : Resolved[s] \in Strings
  BY SuppliedAssumption
<1>3. /\ page.icons \o <<OwnIcon>> \in Seq(Strings)
      /\ page.titles \o <<Label>> \in Seq(Strings)
  BY SuppliedAssumption DEF IsPage
<1>4. Images(page) \subseteq Strings
  BY <1>1 DEF IsPage, Images
<1>5. Video(page) \in Strings
  BY <1>1 DEF Video
<1> QED
  BY <1>1, <1>2, <1>3, <1>4, <1>5, FirstNonEmptyIsFirst

LEMMA StartType ==
  ASSUME NEW page, IsPage(page)
  PROVE  /\ NewPageSummary \in Previews /\ TitleAndDescription(page) \in Previews
         /\ SpotifyDefault \in Previews
         /\ \A p \in Previews, icon \in Strings : Branded(p, icon) \in Previews
<1>1. NewPageSummary \in Previews
  <2>1. Empty \in Strings /\ <<>> \in Seq(Strings)
    BY StringAssumption
  <2> QED
    BY <2>1 DEF NewPageSummary, Previews
<1>2. TitleAndDescription(page) \in Previews
  BY <1>1, CandidatesType, SettersType DEF TitleAndDescription
<1>3. \A p \in Previews, icon \in Strings : Branded(p, icon) \in Previews
  BY SettersType, SuppliedAssumption DEF Branded
<1>4. SpotifyDefault \in Previews
  BY <1>1, <1>3, SettersType, SuppliedAssumption DEF SpotifyDefault
<1> QED
  BY <1>1, <1>2, <1>3, <1>4

\* Every source builds previews.
LEMMA BuiltType ==
  ASSUME NEW page, IsPage(page)
  PROVE  Built(page) \subseteq Previews
<1> DEFINE start == TitleAndDescription(page)
           image == FirstNonEmpty(page.images)
           icon == FirstNonEmpty(page.icons)
           site == FirstNonEmpty(page.sites)
           video == FirstNonEmpty(page.videos)
<1>1. /\ NewPageSummary \in Previews /\ start \in Previews /\ SpotifyDefault \in Previews
      /\ \A p \in Previews, s \in Strings : Branded(p, s) \in Previews
  BY StartType
<1>2. /\ image \in Strings /\ icon \in Strings /\ site \in Strings /\ video \in Strings
      /\ \A s \in Strings : Resolved[s] \in Strings
      /\ Images(page) \subseteq Strings /\ Video(page) \in Strings
      /\ FirstNonEmpty(page.titles) \in Strings /\ FirstNonEmpty(page.descriptions) \in Strings
      /\ FirstNonEmpty(page.icons \o <<OwnIcon>>) \in Strings
      /\ FirstNonEmpty(page.titles \o <<Label>>) \in Strings
  BY CandidatesType
<1>3. {Empty, Label, OwnIcon, OwnEmbed, FileIcon} \subseteq Strings
  BY StringAssumption, SuppliedAssumption
<1>4. page.images \in Seq(Strings)
  BY DEF IsPage
<1>5. General(page) \subseteq Previews
  <2> SUFFICES ASSUME NEW i \in Images(page)
               PROVE  LET p == SetSiteName(SetThumbnail(start, Resolved[i]), site)
                          q == IconAsThumbnail(SetIcon(p, Resolved[icon]))
                      IN (IF Blank(Video(page)) THEN q ELSE SetPlayer(q, Video(page))) \in Previews
    BY DEF General
  <2> DEFINE p == SetSiteName(SetThumbnail(start, Resolved[i]), site)
             r == SetIcon(p, Resolved[icon])
             q == IconAsThumbnail(r)
  <2>1. SetThumbnail(start, Resolved[i]) \in Previews
    BY <1>1, <1>2, SettersType
  <2>2. p \in Previews
    BY <1>2, <2>1, SettersType
  <2>3. r \in Previews /\ r.icon \in Strings
    <3>1. r \in Previews
      BY <1>2, <2>2, SettersType
    <3> QED
      BY <3>1 DEF Previews
  <2>4. q \in Previews
    <3> HIDE DEF r
    <3> QED
      BY <2>3, SettersType DEF IconAsThumbnail
  <2>5. SetPlayer(q, Video(page)) \in Previews
    BY <1>2, <2>4, SettersType
  <2> QED
    BY <2>4, <2>5
<1>6. TwitterOgp(page) \subseteq Previews
  <2>1. \A i \in Images(page) : SetThumbnail(start, Resolved[i]) \in Previews
    BY <1>1, <1>2, SettersType
  <2> QED
    BY <1>1, <1>2, <2>1 DEF TwitterOgp
<1>7. Shop(page) \subseteq Previews
  <2>1. SetThumbnail(start, image) \in Previews
    BY <1>1, <1>2, SettersType
  <2> QED
    BY <1>1, <1>3, <2>1 DEF Shop
<1>8. NitoriHtml(page) \subseteq Previews /\ NitoriApi(page) \subseteq Previews
  <2>1. SetThumbnail(start, Resolved[image]) \in Previews
    BY <1>1, <1>2, SettersType
  <2>2. Branded(SetThumbnail(start, Resolved[image]), Resolved[icon]) \in Previews
    BY <1>1, <1>2, <2>1
  <2>3. SetSiteName(start, Label) \in Previews
    BY <1>1, <1>3, SettersType
  <2> QED
    BY <2>2, <2>3 DEF NitoriHtml, NitoriApi
<1>9. Post(page) \subseteq Previews
  <2>1. SetThumbnail(start, Resolved[image]) \in Previews
    BY <1>1, <1>2, SettersType
  <2>2. Branded(SetThumbnail(start, Resolved[image]), OwnIcon) \in Previews
    BY <1>1, <1>3, <2>1
  <2> QED
    BY <1>2, <2>2, SettersType DEF Post
<1>10. YouTube(page) \subseteq Previews /\ NicoNico(page) \subseteq Previews
  <2> DEFINE p == SetSiteName(SetThumbnail(start, image), site)
  <2>1. SetThumbnail(start, image) \in Previews
    BY <1>1, <1>2, SettersType
  <2>2. p \in Previews
    BY <1>2, <2>1, SettersType
  <2>3. SetIcon(p, OwnIcon) \in Previews /\ SetIcon(p, Resolved[icon]) \in Previews
    BY <1>2, <1>3, <2>2, SettersType
  <2>4. SetPlayer(SetIcon(p, OwnIcon), video) \in Previews
    BY <1>2, <2>3, SettersType
  <2>5. \A v \in {Empty, OwnEmbed} : SetPlayer(SetIcon(p, Resolved[icon]), v) \in Previews
    BY <1>3, <2>3, SettersType
  <2> QED
    BY <2>4, <2>5 DEF YouTube, NicoNico
<1>11. FxTwitter(page) \subseteq Previews
  <2> DEFINE first == IF page.images = <<>> THEN Empty ELSE Head(page.images)
  <2>1. first \in Strings
    BY <1>3, <1>4
  <2>2. SetTitle(start, Label) \in Previews
    BY <1>1, <1>3, SettersType
  <2>3. SetThumbnail(SetTitle(start, Label), first) \in Previews
    BY <2>1, <2>2, SettersType
  <2> QED
    BY <1>1, <1>3, <2>3 DEF FxTwitter
<1>12. Spotify(page) \subseteq Previews
  <2> DEFINE name == FirstNonEmpty(page.titles)
             p == IF name = Empty THEN SpotifyDefault ELSE SetTitle(SpotifyDefault, name)
             last == IF page.images = <<>> THEN Empty ELSE page.images[Len(page.images)]
  <2>1. last \in Strings
    BY <1>3, <1>4
  <2>2. p \in Previews
    BY <1>1, <1>2, SettersType
  <2>3. SetDescription(p, FirstNonEmpty(page.descriptions)) \in Previews
    BY <1>2, <2>2, SettersType
  <2> QED
    BY <2>1, <2>3, SettersType DEF Spotify
<1>13. BuildFilePreviewSummary(page) \subseteq Previews
  <2>1. SetTitle(NewPageSummary, FirstNonEmpty(page.titles \o <<Label>>)) \in Previews
    BY <1>1, <1>2, SettersType
  <2>2. Branded(SetTitle(NewPageSummary, FirstNonEmpty(page.titles \o <<Label>>)), FileIcon) \in Previews
    BY <1>1, <1>3, <2>1
  <2> QED
    BY <1>3, <2>2, SettersType DEF BuildFilePreviewSummary
<1>14. DetectContentKind(page) \in {"file", "html"}
  BY DEF DetectContentKind
<1>15. page.source \in Sources
  BY DEF IsPage
<1> QED
  BY <1>5, <1>6, <1>7, <1>8, <1>9, <1>10, <1>11, <1>12, <1>13, <1>14, <1>15 DEF Built, Sources

\* The preview of a file says so in its description, which Finalize leaves alone.
LEMMA FilesDescribed ==
  ASSUME NEW page, NEW p \in BuildFilePreviewSummary(page)
  PROVE  ~IsContentEmpty(Finalize(p))
<1>1. p.description = Trimmed[Label]
  BY DEF BuildFilePreviewSummary, SetDescription, Branded, SetTitle, SetIcon, SetSiteName,
     NewPageSummary
<1>2. Finalize(p).description = p.description
  BY DEF Finalize, BuildFilePreviewSummary, SetDescription, Branded, SetTitle, SetIcon,
     SetSiteName, NewPageSummary
<1>3. ~Blank(Trimmed[Label])
  BY StringAssumption, SuppliedAssumption DEF Blank
<1> QED
  BY <1>1, <1>2, <1>3 DEF IsContentEmpty

\* Whatever a response holds, a scraper returns nil or a preview that is final
\* and has something to show: emptiness is judged after Finalize has thrown away
\* the addresses it does not accept (general-scraper.go, scraper-helper.go).
THEOREM ScrapedHasContent ==
  ASSUME NEW page, IsPage(page), NEW q \in Scraped(page), q # NoPreview
  PROVE  q \in Previews /\ IsFinal(q) /\ ~IsEmptyPreview(q)
<1>1. PICK p \in Built(page) : q = Finalize(p) /\ ~Dropped(page, q)
  BY DEF Scraped
<1>2. p \in Previews
  BY BuiltType
<1>3. q \in Previews /\ IsFinal(q)
  BY <1>1, <1>2, FinalizeFinishes
<1>4. ~IsEmptyPreview(q)
  <2>1. CASE page.source = "general" /\ DetectContentKind(page) = "file"
    <3>1. p \in BuildFilePreviewSummary(page)
      BY <2>1, <1>1 DEF Built
    <3> QED
      BY <1>1, <3>1, FilesDescribed DEF IsEmptyPreview
  <2>2. CASE page.source = "general" /\ DetectContentKind(page) # "file"
    <3>1. DetectContentKind(page) = "html"
      BY <2>2 DEF DetectContentKind
    <3> QED
      BY <1>1, <2>2, <3>1 DEF Dropped
  <2>3. CASE page.source # "general"
    BY <1>1, <2>3 DEF Dropped, IsEmptyPreview
  <2> QED
    BY <2>1, <2>2, <2>3
<1> QED
  BY <1>3, <1>4
=============================================================================
