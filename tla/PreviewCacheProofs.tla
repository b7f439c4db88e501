--------------------------- MODULE PreviewCacheProofs ---------------------------
(***************************************************************************)
(* What the in-memory cache may lose, for any number of goroutines, pages  *)
(* and previews and any time to live.                                      *)
(***************************************************************************)
EXTENDS PreviewCache, TLAPS

LEMMA TypeKept == TypeOK /\ [Next]_vars => TypeOK'
<1> SUFFICES ASSUME TypeOK, [Next]_vars PROVE TypeOK'
  OBVIOUS
<1> USE CacheAssumption DEF TypeOK
<1>1. CASE Start \/ RedisFlips
  BY <1>1 DEF Start, RedisFlips
<1>2. CASE Tick
  <2>1. \A v \in Copies : age'[v] \in -1 .. Ttl + 1
    <3> SUFFICES ASSUME NEW v \in Copies PROVE age'[v] \in -1 .. Ttl + 1
      OBVIOUS
    <3>1. age[v] \in -1 .. Ttl + 1
      OBVIOUS
    <3>2. age'[v] = IF age[v] \in 0 .. Ttl THEN age[v] + 1 ELSE age[v]
      BY <1>2 DEF Tick
    <3> QED
      BY <3>1, <3>2
  <2>2. age' \in [Copies -> -1 .. Ttl + 1]
    BY <1>2, <2>1 DEF Tick
  <2> QED
    BY <1>2, <2>2 DEF Tick
<1>3. ASSUME NEW c \in Callers, NEW u \in Urls, RedisGet(c, u) PROVE TypeOK'
  BY <1>3 DEF RedisGet
<1>4. ASSUME NEW c \in Callers, NEW u \in Urls, MemoryLoad(c, u) PROVE TypeOK'
  BY <1>4 DEF MemoryLoad
<1>5. ASSUME NEW u \in Urls, NEW v \in Copies, RedisSet(u, v) \/ MemorySet(u, v) PROVE TypeOK'
  BY <1>5 DEF RedisSet, MemorySet
<1>6. ASSUME NEW c \in Callers, MemoryDrop(c) \/ MemoryReturn(c) PROVE TypeOK'
  BY <1>6 DEF MemoryDrop, MemoryReturn, MemoryChecked
<1>7. CASE UNCHANGED vars
  BY <1>7 DEF vars
<1> QED
  BY <1>1, <1>2, <1>3, <1>4, <1>5, <1>6, <1>7 DEF Next

\* A Get that has passed Load holds an item, whatever else is stored, dropped
\* or expires meanwhile.
THEOREM TypeCorrect == Spec => []TypeOK
<1>1. Init => TypeOK
  BY CacheAssumption DEF Init, TypeOK
<1> QED
  BY <1>1, TypeKept, PTL DEF Spec

\* A live preview is lost only to the Delete of a Get that loaded another,
\* expired item of the URL (in-memory-cache-repository.go:35).
THEOREM LiveLostOnlyThere == Spec => LiveLostOnlyToStaleGet
<1>1. TypeOK /\ [Next]_vars =>
        [\A u \in Urls :
           memory[u] # Nil /\ ~Expired(memory[u]) /\ memory'[u] = Nil
             => \E c \in Callers : url[c] = u /\ item[c] # memory[u] /\ Expired(item[c])]_vars
  <2> SUFFICES ASSUME TypeOK, Next, NEW u \in Urls,
                      memory[u] # Nil, ~Expired(memory[u]), memory'[u] = Nil
               PROVE  \E c \in Callers : url[c] = u /\ item[c] # memory[u] /\ Expired(item[c])
    OBVIOUS
  <2>1. ASSUME NEW w \in Urls, NEW v \in Copies, MemorySet(w, v) PROVE FALSE
    BY <2>1, CacheAssumption DEF MemorySet, TypeOK
  <2>2. PICK c \in Callers : MemoryDrop(c)
    BY <2>1 DEF Next, Start, RedisFlips, Tick, RedisGet, MemoryLoad, RedisSet, MemoryReturn
  <2>3. url[c] = u
    BY <2>2 DEF MemoryDrop, TypeOK
  <2>4. Expired(item[c])
    BY <2>2 DEF MemoryDrop
  <2> QED
    BY <2>3, <2>4
<1> QED
  BY <1>1, TypeCorrect, PTL DEF Spec, LiveLostOnlyToStaleGet
=============================================================================
