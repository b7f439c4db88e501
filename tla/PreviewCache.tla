----------------------------- MODULE PreviewCache -----------------------------
(***************************************************************************)
(* The preview cache: which repository main chooses, and the two of them,  *)
(* internal/infrastructure/{in-memory,redis}-cache-repository.go.          *)
(*                                                                         *)
(* Goroutines call Get and Set.  Redis answers each command in one step;   *)
(* the in-memory repository uses a sync.Map with separate Load, Delete and *)
(* Store calls, so a Get has two steps.  Every Set stores a copy that is   *)
(* told apart by a member of Copies; Copies bounds how many Sets there are.*)
(* A copy's age counts ticks since its Set up to Ttl + 1: expired.         *)
(***************************************************************************)
EXTENDS Integers

CONSTANTS
  Callers,     \* goroutines
  Urls,
  Copies,      \* previews passed to Set, one per call
  Ttl,         \* time to live, in ticks
  Nil

ASSUME CacheAssumption == Nil \notin Copies /\ Ttl \in Nat

VARIABLES
  backend,     \* what main chose: "none" before start-up
  redisUp,     \* whether the Redis server answers
  redis,       \* Redis' data: URL -> copy
  memory,      \* cacheStorage: URL -> item
  age,         \* age of each copy, -1 before its Set
  op,          \* per caller: "idle", or "check" between Load and the expiry test
  url, item,   \* the URL of its Get, the item it loaded
  got          \* what its last Get returned

vars == <<backend, redisUp, redis, memory, age, op, url, item, got>>

Init ==
  /\ backend = "none"
  /\ redisUp \in BOOLEAN
  /\ redis = [u \in Urls |-> Nil]
  /\ memory = [u \in Urls |-> Nil]
  /\ age = [v \in Copies |-> -1]
  /\ op = [c \in Callers |-> "idle"]
  /\ url = [c \in Callers |-> Nil]
  /\ item = [c \in Callers |-> Nil]
  /\ got = [c \in Callers |-> Nil]

Expired(v) == age[v] > Ttl
-----------------------------------------------------------------------------
\* main pings Redis once, and once only.
Start ==
  /\ backend = "none"
  /\ backend' = IF redisUp THEN "redis" ELSE "memory"
  /\ UNCHANGED <<redisUp, redis, memory, age, op, url, item, got>>

\* Redis goes away or comes back, with its data.
RedisFlips ==
  /\ redisUp' = ~redisUp
  /\ UNCHANGED <<backend, redis, memory, age, op, url, item, got>>

\* Redis Get: an error from the server, a key that is missing or has expired
\* there, all mean a miss to GetSummary.
RedisGet(c, u) ==
  /\ backend = "redis" /\ op[c] = "idle"
  /\ got' = [got EXCEPT ![c] = IF redisUp /\ redis[u] # Nil /\ ~Expired(redis[u])
                               THEN redis[u] ELSE Nil]
  /\ UNCHANGED <<backend, redisUp, redis, memory, age, op, url, item>>

\* Redis Set: without a server the preview is dropped with the ignored error.
RedisSet(u, v) ==
  /\ backend = "redis" /\ age[v] = -1
  /\ age' = [age EXCEPT ![v] = 0]
  /\ redis' = IF redisUp THEN [redis EXCEPT ![u] = v] ELSE redis
  /\ UNCHANGED <<backend, redisUp, memory, op, url, item, got>>

MemoryLoadBlindly(c, u) ==           \* mutant: isFound is not looked at
  /\ backend = "memory" /\ op[c] = "idle"
  /\ op' = [op EXCEPT ![c] = "check"]
  /\ url' = [url EXCEPT ![c] = u]
  /\ item' = [item EXCEPT ![c] = memory[u]]
  /\ UNCHANGED <<backend, redisUp, redis, memory, age, got>>

\* In-memory Get: Load.
MemoryLoad(c, u) ==
  /\ backend = "memory" /\ op[c] = "idle"
  /\ IF memory[u] = Nil
     THEN /\ got' = [got EXCEPT ![c] = Nil]
          /\ UNCHANGED <<op, url, item>>
     ELSE /\ op' = [op EXCEPT ![c] = "check"]
          /\ url' = [url EXCEPT ![c] = u]
          /\ item' = [item EXCEPT ![c] = memory[u]]
          /\ UNCHANGED got
  /\ UNCHANGED <<backend, redisUp, redis, memory, age>>

MemoryChecked(c) ==
  /\ op[c] = "check"
  /\ op' = [op EXCEPT ![c] = "idle"]
  /\ url' = [url EXCEPT ![c] = Nil]
  /\ item' = [item EXCEPT ![c] = Nil]
  /\ UNCHANGED <<backend, redisUp, redis, age>>

MemoryDropAnyway(c) ==               \* mutant: the key is deleted whatever its age
  /\ MemoryChecked(c)
  /\ memory' = [memory EXCEPT ![url[c]] = Nil]
  /\ got' = [got EXCEPT ![c] = Nil]

\* The item has expired: Delete by key, whatever the map holds by now.
MemoryDrop(c) ==
  /\ MemoryChecked(c)
  /\ Expired(item[c])
  /\ memory' = [memory EXCEPT ![url[c]] = Nil]
  /\ got' = [got EXCEPT ![c] = Nil]

\* The item is returned, finalised.
MemoryReturn(c) ==
  /\ MemoryChecked(c)
  /\ ~Expired(item[c])
  /\ got' = [got EXCEPT ![c] = item[c]]
  /\ UNCHANGED memory

MemorySet(u, v) ==
  /\ backend = "memory" /\ age[v] = -1
  /\ age' = [age EXCEPT ![v] = 0]
  /\ memory' = [memory EXCEPT ![u] = v]
  /\ UNCHANGED <<backend, redisUp, redis, op, url, item, got>>

Tick ==
  /\ age' = [v \in Copies |-> IF age[v] \in 0 .. Ttl THEN age[v] + 1 ELSE age[v]]
  /\ UNCHANGED <<backend, redisUp, redis, memory, op, url, item, got>>

Next ==
  \/ Start \/ RedisFlips \/ Tick
  \/ \E c \in Callers, u \in Urls : RedisGet(c, u) \/ MemoryLoad(c, u)
  \/ \E u \in Urls, v \in Copies : RedisSet(u, v) \/ MemorySet(u, v)
  \/ \E c \in Callers : MemoryDrop(c) \/ MemoryReturn(c)

Spec == Init /\ [][Next]_vars
-----------------------------------------------------------------------------
\* The types; a Get between its two steps has an item to test.
TypeOK ==
  /\ backend \in {"none", "redis", "memory"} /\ redisUp \in BOOLEAN
  /\ redis \in [Urls -> Copies \cup {Nil}] /\ memory \in [Urls -> Copies \cup {Nil}]
  /\ age \in [Copies -> -1 .. Ttl + 1]
  /\ op \in [Callers -> {"idle", "check"}]
  /\ url \in [Callers -> Urls \cup {Nil}]
  /\ \A c \in Callers : op[c] = "check" <=> item[c] # Nil
  /\ item \in [Callers -> Copies \cup {Nil}] /\ got \in [Callers -> Copies \cup {Nil}]

\* A live preview leaves the in-memory cache by a newer Set or, the one other
\* way, by the Delete of a Get that had loaded an expired item of the same URL
\* before the preview was stored: no Get loses the item it found alive.
LiveLostOnlyToStaleGet ==
  [][\A u \in Urls :
       memory[u] # Nil /\ ~Expired(memory[u]) /\ memory'[u] = Nil
         => \E c \in Callers : url[c] = u /\ item[c] # memory[u] /\ Expired(item[c])]_vars

\* README.md:11: previews are cached in Redis, "失敗時はメモリにフォールバックします"
\* (on failure it falls back to memory): a preview given to Set ends up in Redis
\* or, when that fails, in memory.
SetIsKeptSomewhere ==
  [][\A v \in Copies :
       age[v] = -1 /\ age'[v] = 0 => \E u \in Urls : redis'[u] = v \/ memory'[u] = v]_vars
=============================================================================
