---------------------------- MODULE RequestLimiter ----------------------------
(***************************************************************************)
(* internal/interfaces/rate-limiter.go: a fixed window of requests per     *)
(* client in front of the summary handler.  Each action is one critical    *)
(* section of the mutex.  An entry's age is now - WindowStart in clock     *)
(* ticks, everything beyond the window counting as Window + 1.             *)
(***************************************************************************)
EXTENDS Integers

CONSTANTS
  Clients,       \* client identifiers
  MaxRequests,   \* maxRequestsPerWindow
  Window         \* windowDuration, in ticks

ASSUME WindowAssumption == MaxRequests \in Nat \ {0} /\ Window \in Nat \ {0}

VARIABLES
  entries,       \* the map: client -> [count, age], for the clients that have an entry
  verdict,       \* the last answer of IsAllowed to each client
  passed         \* history: how many of a client's requests passed in the last 0, 1, ... ticks

vars == <<entries, verdict, passed>>

Known(c) == c \in DOMAIN entries
Live(c) == Known(c) /\ entries[c].age <= Window

Init ==
  /\ entries = [c \in {} |-> {}]
  /\ verdict = [c \in Clients |-> "none"]
  /\ passed = [c \in Clients |-> [n \in 0 .. Window |-> 0]]

Put(c, e) ==
  entries' = [d \in DOMAIN entries \cup {c} |-> IF d = c THEN e ELSE entries[d]]

Pass(c) ==
  /\ verdict' = [verdict EXCEPT ![c] = "allowed"]
  /\ passed' = [passed EXCEPT ![c] = [n \in 0 .. Window |-> @[n] + 1]]
-----------------------------------------------------------------------------
\* IsAllowed, no entry or an old one.
OpenWindow(c) ==
  /\ ~Live(c)
  /\ Put(c, [count |-> 1, age |-> 0])
  /\ Pass(c)

CountOneTooMany(c) ==                \* mutant: > for >=
  /\ Live(c)
  /\ entries[c].count <= MaxRequests
  /\ Put(c, [entries[c] EXCEPT !.count = @ + 1])
  /\ Pass(c)

\* IsAllowed, inside the window and below the limit.
Count(c) ==
  /\ Live(c)
  /\ entries[c].count < MaxRequests
  /\ Put(c, [entries[c] EXCEPT !.count = @ + 1])
  /\ Pass(c)

RefuseOld(c) ==                      \* mutant: the age is looked at by the sweep only
  /\ Known(c)
  /\ entries[c].count >= MaxRequests
  /\ verdict' = [verdict EXCEPT ![c] = "refused"]
  /\ UNCHANGED <<entries, passed>>

RefuseExtending(c) ==                \* mutant: a refused request restarts the window
  /\ Live(c)
  /\ entries[c].count >= MaxRequests
  /\ verdict' = [verdict EXCEPT ![c] = "refused"]
  /\ Put(c, [entries[c] EXCEPT !.age = 0])
  /\ UNCHANGED passed

\* IsAllowed, limit reached: 429.
Refuse(c) ==
  /\ Live(c)
  /\ entries[c].count >= MaxRequests
  /\ verdict' = [verdict EXCEPT ![c] = "refused"]
  /\ UNCHANGED <<entries, passed>>

Request(c) == OpenWindow(c) \/ Count(c) \/ Refuse(c)

CleanupAll ==                        \* mutant: the sweep drops live windows
  /\ entries' = [c \in {} |-> {}]
  /\ UNCHANGED <<verdict, passed>>

\* One tick of cleanupExpiredEntries, which runs for ever.
Cleanup ==
  /\ entries' = [c \in {d \in DOMAIN entries : Live(d)} |-> entries[c]]
  /\ UNCHANGED <<verdict, passed>>

\* The clock advances.
Tick ==
  /\ entries' = [c \in DOMAIN entries |->
                   [entries[c] EXCEPT !.age = IF @ > Window THEN @ ELSE @ + 1]]
  /\ passed' = [c \in Clients |->
                  [n \in 0 .. Window |-> IF n = 0 THEN 0 ELSE passed[c][n - 1]]]
  /\ UNCHANGED verdict

Next == (\E c \in Clients : Request(c)) \/ Cleanup \/ Tick

Spec == Init /\ [][Next]_vars

\* The ticker fires, time passes; KeepAsking is for clients that retry for ever.
FairSpec == Spec /\ WF_vars(Cleanup) /\ WF_vars(Tick)
KeepAsking == \A c \in Clients : WF_vars(Request(c))
-----------------------------------------------------------------------------
\* The types; no window counts more requests than the limit.
TypeOK ==
  /\ DOMAIN entries \subseteq Clients
  /\ \A c \in DOMAIN entries :
       entries[c] \in [count : 1 .. MaxRequests, age : 0 .. Window + 1]
  /\ verdict \in [Clients -> {"none", "allowed", "refused"}]
  /\ passed \in [Clients -> [0 .. Window -> Nat]]

\* Seen through a window that slides, a client gets at most twice the limit,
\* when a burst at a window's end meets one at the next window's start.
BurstBounded == \A c \in Clients : passed[c][Window] <= 2 * MaxRequests

\* A request is refused only to a client whose quota of the last window is used
\* up: neither another client's requests nor an old entry cost anything.
RefusedOnlyOverQuota ==
  [][\A c \in Clients :
       verdict[c] # "refused" /\ verdict'[c] = "refused" => passed[c][Window] >= MaxRequests]_vars

\* A client that keeps asking is served again: refusals do not feed themselves.
RefusedClientRecovers ==
  KeepAsking => \A c \in Clients : verdict[c] = "refused" ~> verdict[c] = "allowed"
=============================================================================
