--------------------------- MODULE ScrapeChainProofs ---------------------------
(***************************************************************************)
(* What one scrape may cost, for any deadlines, pauses and redirect limit. *)
(* The argument is one of budgets: every point has a worst case still to   *)
(* come, in ticks and in requests, and no step makes what was spent and    *)
(* what is to come add up to more than before.                             *)
(***************************************************************************)
EXTENDS ScrapeChain, TLAPS

SinglePoints == {"single", "fx", "ogpFb", "ogpBot", "embed"}

\* The ticks still to come at most.  Nitori's sleep runs beside its deadline,
\* which may be over before the sleep is.
TimeToCome ==
  CASE at \in GeneralPoints \cup {"genDelay"} -> left
    [] at \in SinglePoints -> left + GeneralTimeout
    [] at = "html" -> left + GeneralTimeout
    [] at = "apiRetry" -> left + HtmlTimeout + GeneralTimeout
    [] at = "apiPause" -> left + pause + HtmlTimeout + GeneralTimeout
    [] at = "api" -> left + ApiPause + HtmlTimeout + GeneralTimeout
    [] OTHER -> 0

\* The fetches still to come at most, after the current one.
FetchesToCome ==
  [gen |-> 1, genDelay |-> 1, genBot |-> 0, single |-> 2, fx |-> 4, ogpFb |-> 3, ogpBot |-> 2,
   api |-> 4, apiPause |-> 4, apiRetry |-> 3, html |-> 2, embed |-> 2, done |-> 0]

TimeBudget == elapsed + TimeToCome <= TimeBound[kind]

RequestBudget ==
  sent + (MaxRedirectCount - 1 - hops) + FetchesToCome[at] * MaxRedirectCount
    <= FetchBound[kind] * MaxRedirectCount

\* Only a fallback that does not start a new context may hold two connections.
Connections ==
  /\ at \in {"single", "fx", "api", "apiPause", "gen", "genDelay", "html", "embed"} => open = 1
  /\ at \in {"ogpFb", "ogpBot", "apiRetry", "genBot"} => open \in 1 .. 2
  /\ at = "done" => open = 0

GeneralIsLast == at \in GeneralPoints \cup {"genDelay"} => general

IInv ==
  /\ TypeOK /\ TimeBudget /\ RequestBudget /\ Connections /\ GeneralIsLast
  /\ NilOnlyAfterGeneral

\* The fetches one step may start, with the context's ticks and the
\* connections kept.
Edge(p, d, o) ==
  \/ Fetching /\ ~general /\ p = "gen" /\ d = GeneralTimeout /\ o = 0
  \/ at = "fx" /\ p = "ogpFb" /\ d = left /\ o \in {open - 1, open}
  \/ at = "ogpFb" /\ p = "ogpBot" /\ d = left /\ o = open - 1
  \/ at \in {"api", "apiRetry"} /\ p = "html" /\ d = HtmlTimeout /\ o = 0
  \/ at = "apiPause" /\ pause = 0 /\ p = "apiRetry" /\ d = left /\ o = open
  \/ at = "genDelay" /\ p = "genBot" /\ d = left /\ o = open

Ends == at # "done" /\ \E r \in {"preview", "nil"} : Done(r) /\ (r = "nil" => general)

Moves == Ends \/ \E p, d, o : Fetch(p, d, o) /\ Edge(p, d, o)
-----------------------------------------------------------------------------
LEMMA Numbers ==
  /\ OwnTimeout \in Nat /\ ApiTimeout \in Nat /\ HtmlTimeout \in Nat /\ GeneralTimeout \in Nat
  /\ ApiPause \in Nat /\ MaxRedirectCount \in Nat /\ MaxRedirectCount > 0
  /\ \A d \in BotDelays : d \in Nat
  BY ChainAssumption

LEMMA Spending ==
  ASSUME NEW spent \in Nat, NEW come \in Nat, NEW later \in Nat, NEW bound \in Nat,
         later + 1 <= come, spent + come <= bound
  PROVE  (spent + 1) + later <= bound
  OBVIOUS

\* Every step that ends a fetch or a wait ends the scrape or takes an edge.
LEMMA Transitions ==
  ASSUME GeneralIsLast, FetchFails \/ NothingUseful \/ BlankEmbed \/ Panics \/ Preview \/ DelayOver \/ PauseOver
  PROVE  Moves
<1>1. ASSUME Fail, Fetching \/ at = "genDelay"
      PROVE  Moves
  <2>1. CASE general
    BY <1>1, <2>1 DEF Fail, Moves, Ends, Fetching, GeneralPoints
  <2>2. CASE ~general
    <3>1. Fetch("gen", GeneralTimeout, 0)
      BY <1>1, <2>2 DEF Fail
    <3>2. Edge("gen", GeneralTimeout, 0)
      BY <1>1, <2>2 DEF Edge, GeneralIsLast
    <3> QED
      BY <3>1, <3>2 DEF Moves
  <2> QED
    BY <2>1, <2>2
<1>2. ASSUME NEW o \in {open - 1, open}, NextSource(o),
             at = "ogpFb" => o = open - 1
      PROVE  Moves
  <2>1. CASE SingleNext
    BY <1>1, <2>1 DEF SingleNext, Fetching
  <2>2. CASE TwitterNext(o)
    <3>1. CASE at = "fx" /\ Fetch("ogpFb", left, o)
      BY <3>1 DEF Moves, Edge
    <3>2. CASE at = "ogpFb" /\ Fetch("ogpBot", left, o)
      BY <3>2, <1>2 DEF Moves, Edge
    <3>3. CASE at = "ogpBot" /\ Fail
      BY <3>3, <1>1 DEF Fetching
    <3> QED
      BY <2>2, <3>1, <3>2, <3>3 DEF TwitterNext
  <2>3. CASE NitoriNext
    <3>1. CASE at \in {"api", "apiRetry"} /\ Fetch("html", HtmlTimeout, 0)
      BY <3>1 DEF Moves, Edge
    <3>2. CASE at = "html" /\ Fail
      BY <3>2, <1>1 DEF Fetching
    <3> QED
      BY <2>3, <3>1, <3>2 DEF NitoriNext
  <2>4. CASE SpotifyNext
    BY <2>4 DEF SpotifyNext, Moves, Ends
  <2>5. CASE GeneralNext
    BY <1>1, <2>5 DEF GeneralNext, Fetching
  <2> QED
    BY <1>2, <2>1, <2>2, <2>3, <2>4, <2>5 DEF NextSource
<1>3. CASE FetchFails
  BY <1>2, <1>3 DEF FetchFails
<1>4. CASE NothingUseful
  <2>1. CASE at \in {"ogpFb", "ogpBot"}
    BY <1>1, <1>4, <2>1 DEF NothingUseful
  <2>2. CASE at \notin {"ogpFb", "ogpBot"}
    BY <1>2, <1>4, <2>2 DEF NothingUseful
  <2> QED
    BY <2>1, <2>2
<1>5. CASE Preview
  BY <1>5 DEF Preview, Fetching, GeneralPoints, Moves, Ends
<1>6. CASE DelayOver
  <2>1. CASE Fail
    BY <1>1, <1>6, <2>1 DEF DelayOver
  <2>2. CASE Fetch("genBot", left, open)
    BY <1>6, <2>2 DEF DelayOver, Moves, Edge
  <2> QED
    BY <1>6, <2>1, <2>2 DEF DelayOver
<1>7. CASE PauseOver
  BY <1>7 DEF PauseOver, Moves, Edge
<1>8. CASE BlankEmbed \/ Panics
  BY <1>1, <1>8 DEF BlankEmbed, Panics, Fetching
<1> QED
  BY <1>3, <1>4, <1>5, <1>6, <1>7, <1>8
-----------------------------------------------------------------------------
LEMMA InitIInv == Init => IInv
<1> SUFFICES ASSUME Init PROVE IInv
  OBVIOUS
<1>1. TypeOK
  <2>1. clientTimeout \in Nat /\ clientLeft \in 0 .. clientTimeout
    BY ChainAssumption DEF Init
  <2>2. Fetching
    BY DEF Init, Kinds, FirstPoint, Fetching, GeneralPoints
  <2>3. left \in Nat
    BY Numbers DEF Init, Timeout
  <2>4. hops \in 0 .. MaxRedirectCount - 1
    BY Numbers DEF Init
  <2>5. general \in BOOLEAN
    BY DEF Init
  <2> QED
    BY <2>1, <2>2, <2>3, <2>4, <2>5 DEF TypeOK, Init
<1> USE Numbers DEF Init, Kinds, FirstPoint, Timeout, GeneralPoints
<1>2. TimeBudget
  BY DEF TimeBudget, TimeToCome, SinglePoints, TimeBound
<1>3. RequestBudget
  BY DEF RequestBudget, FetchesToCome, FetchBound
<1>4. Connections /\ NilOnlyAfterGeneral
  BY DEF Connections, NilOnlyAfterGeneral
<1>5. GeneralIsLast
  <2>1. at # "genDelay"
    OBVIOUS
  <2> QED
    BY <2>1 DEF GeneralIsLast
<1> QED
  BY <1>1, <1>2, <1>3, <1>4, <1>5 DEF IInv

\* The scrape is over: nothing is to come.
LEMMA EndsKeeps == IInv /\ Ends => IInv'
<1> SUFFICES ASSUME IInv, Ends PROVE IInv'
  OBVIOUS
<1>1. PICK r \in {"preview", "nil"} : Done(r) /\ (r = "nil" => general)
  BY DEF Ends
<1> USE Numbers, <1>1 DEF Done, config
<1>2. TypeOK'
  BY DEF IInv, TypeOK, Fetching
<1>3. TimeBudget'
  <2>1. TimeToCome \in Nat
    BY DEF IInv, TypeOK, Fetching, GeneralPoints, SinglePoints, TimeToCome
  <2>2. TimeToCome' = 0
    BY DEF TimeToCome, GeneralPoints, SinglePoints
  <2>3. TimeBound[kind] \in Nat
    BY DEF IInv, TypeOK, TimeBound, Kinds, FirstPoint
  <2>4. elapsed <= TimeBound[kind]
    BY <2>1, <2>3 DEF IInv, TypeOK, TimeBudget
  <2> QED
    BY <2>2, <2>4 DEF IInv, TypeOK, TimeBudget, TimeBound
<1>4. RequestBudget'
  BY DEF IInv, TypeOK, Fetching, GeneralPoints, RequestBudget, FetchesToCome, FetchBound, Ends, Kinds, FirstPoint
<1>5. (Connections /\ GeneralIsLast /\ NilOnlyAfterGeneral)'
  BY DEF IInv, Connections, GeneralIsLast, NilOnlyAfterGeneral, GeneralPoints
<1> QED
  BY <1>2, <1>3, <1>4, <1>5 DEF IInv

LEMMA FetchKeeps ==
  ASSUME IInv, NEW p, NEW d, NEW o, Fetch(p, d, o), Edge(p, d, o)
  PROVE  IInv'
<1> USE Numbers DEF Fetch, Edge, config, SinglePoints, GeneralPoints
<1>1. TypeOK'
  <2>1. clientTimeout \in Nat
    BY ChainAssumption DEF IInv, TypeOK
  <2>2. o + 1 \in Nat
    BY DEF IInv, TypeOK, Connections
  <2> QED
    BY <2>1, <2>2 DEF IInv, TypeOK, Fetching
<1>2. TimeBudget'
  <2>1. TimeToCome \in Nat /\ TimeToCome' \in Nat
    BY <1>1 DEF IInv, TypeOK, Fetching, TimeToCome
  <2>2. TimeToCome' <= TimeToCome
    <3>1. CASE Fetching /\ ~general /\ p = "gen" /\ d = GeneralTimeout
      BY <3>1 DEF IInv, TypeOK, Fetching, GeneralIsLast, TimeToCome
    <3>2. CASE ~(Fetching /\ ~general /\ p = "gen" /\ d = GeneralTimeout)
      BY <3>2 DEF IInv, TypeOK, TimeToCome
    <3> QED
      BY <3>1, <3>2
  <2>3. TimeBound[kind] \in Nat
    BY DEF IInv, TypeOK, TimeBound, Kinds, FirstPoint
  <2> QED
    BY <2>1, <2>2, <2>3 DEF IInv, TypeOK, TimeBudget, TimeBound
<1>3. RequestBudget'
  <2>1. /\ FetchesToCome[at] \in Nat /\ FetchesToCome[p] \in Nat
        /\ FetchesToCome[p] + 1 <= FetchesToCome[at]
    <3>1. CASE Fetching /\ ~general /\ p = "gen"
      BY <3>1 DEF IInv, Fetching, GeneralIsLast, FetchesToCome
    <3>2. CASE ~(Fetching /\ ~general /\ p = "gen")
      BY <3>2 DEF FetchesToCome
    <3> QED
      BY <3>1, <3>2
  <2>2. (FetchesToCome[p] + 1) * MaxRedirectCount <= FetchesToCome[at] * MaxRedirectCount
    BY <2>1
  <2>3. FetchBound[kind] \in Nat
    BY DEF IInv, TypeOK, FetchBound, Kinds, FirstPoint
  <2>4. sent \in Nat /\ hops \in 0 .. MaxRedirectCount - 1
    BY DEF IInv, TypeOK
  <2> HIDE DEF FetchesToCome, FetchBound
  <2>5. sent + (MaxRedirectCount - 1 - hops) + FetchesToCome[at] * MaxRedirectCount
          <= FetchBound[kind] * MaxRedirectCount
    BY DEF IInv, RequestBudget
  <2>6. (sent + 1) + (MaxRedirectCount - 1) + FetchesToCome[p] * MaxRedirectCount
          <= FetchBound[kind] * MaxRedirectCount
    BY <2>1, <2>2, <2>3, <2>4, <2>5
  <2>7. FetchesToCome' = FetchesToCome /\ FetchBound' = FetchBound
    BY DEF FetchesToCome, FetchBound
  <2> QED
    BY <2>6, <2>7 DEF RequestBudget
<1>4. Connections'
  BY DEF IInv, Connections
<1>5. (GeneralIsLast /\ NilOnlyAfterGeneral)'
  BY DEF IInv, TypeOK, GeneralIsLast, NilOnlyAfterGeneral
<1> QED
  BY <1>1, <1>2, <1>3, <1>4, <1>5 DEF IInv

\* A redirect is one more request of the current fetch.
LEMMA FollowsRedirectKeeps == IInv /\ FollowsRedirect => IInv'
<1> SUFFICES ASSUME IInv, FollowsRedirect PROVE IInv'
  OBVIOUS
<1> USE Numbers DEF FollowsRedirect, config
<1>1. TypeOK'
  BY DEF IInv, TypeOK, Fetching
<1>2. RequestBudget'
  BY DEF IInv, TypeOK, Fetching, GeneralPoints, RequestBudget, FetchesToCome, FetchBound, Kinds, FirstPoint
<1>3. (TimeBudget /\ Connections /\ GeneralIsLast /\ NilOnlyAfterGeneral)'
  BY DEF IInv, TimeBudget, TimeToCome, TimeBound, Connections, GeneralIsLast, NilOnlyAfterGeneral
<1> QED
  BY <1>1, <1>2, <1>3 DEF IInv

\* A retry's wait was budgeted for where it starts.
LEMMA WaitKeeps == IInv /\ (GeneralDelays \/ NitoriPauses) => IInv'
<1> SUFFICES ASSUME IInv, NEW p, NEW ticks \in Nat, Wait(p, ticks),
                    \/ at = "gen" /\ p = "genDelay"
                    \/ at = "api" /\ p = "apiPause" /\ ticks = ApiPause
             PROVE  IInv'
  BY Numbers DEF GeneralDelays, NitoriPauses
<1> USE Numbers DEF Wait, config, GeneralPoints, SinglePoints
<1>1. TypeOK'
  BY DEF IInv, TypeOK
<1>2. TimeBudget'
  BY DEF IInv, TypeOK, TimeBudget, TimeToCome, TimeBound
<1>3. RequestBudget'
  BY DEF IInv, RequestBudget, FetchesToCome, FetchBound
<1>4. (Connections /\ GeneralIsLast /\ NilOnlyAfterGeneral)'
  BY DEF IInv, Connections, GeneralIsLast, NilOnlyAfterGeneral
<1> QED
  BY <1>1, <1>2, <1>3, <1>4 DEF IInv

\* A tick is taken off the deadline, or off the sleep once the deadline is over.
LEMMA TickKeeps == IInv /\ Tick => IInv'
<1> SUFFICES ASSUME IInv, Tick PROVE IInv'
  OBVIOUS
<1> USE Numbers DEF Tick, config
<1>1. TypeOK'
  <2>1. clientTimeout \in Nat
    BY ChainAssumption DEF IInv, TypeOK
  <2> QED
    BY <2>1 DEF IInv, TypeOK, Fetching
<1>2. TimeBudget'
  <2>1. at = "apiPause" \/ left > 0
    BY DEF IInv, TypeOK, TimeIsUp
  <2>2. TimeToCome \in Nat /\ TimeToCome' + 1 <= TimeToCome /\ TimeToCome' \in Nat
    BY <2>1 DEF IInv, TypeOK, Fetching, TimeToCome, GeneralPoints, SinglePoints
  <2>3. TimeBound[kind] \in Nat
    BY DEF IInv, TypeOK, TimeBound, Kinds, FirstPoint
  <2>4. elapsed \in Nat /\ elapsed' = elapsed + 1 /\ elapsed + TimeToCome <= TimeBound[kind]
    BY DEF IInv, TypeOK, TimeBudget
  <2>5. elapsed' + TimeToCome' <= TimeBound[kind]
    BY <2>2, <2>3, <2>4, Spending
  <2>6. kind' = kind
    BY DEF Tick
  <2> QED
    BY <2>5, <2>6 DEF TimeBudget, TimeBound
<1>3. (RequestBudget /\ Connections /\ GeneralIsLast /\ NilOnlyAfterGeneral)'
  BY DEF IInv, RequestBudget, FetchesToCome, FetchBound, Connections, GeneralIsLast, NilOnlyAfterGeneral
<1> QED
  BY <1>1, <1>2, <1>3 DEF IInv

\* The client's departure ends fetches early; it makes none longer.
LEMMA QuietKeeps == IInv /\ (ClientGone \/ UNCHANGED vars) => IInv'
  BY DEF ClientGone, vars, config, IInv, TypeOK, Fetching, TimeBudget, TimeToCome, RequestBudget,
     Connections, GeneralIsLast, NilOnlyAfterGeneral
-----------------------------------------------------------------------------
\* Time, requests and connections spent and to come stay within the budgets,
\* for all of fetchURL (summary-application-service.go) and any timeouts.
THEOREM InductiveInvariant == Spec => []IInv
<1>1. IInv /\ [Next]_vars => IInv'
  <2> SUFFICES ASSUME IInv, [Next]_vars PROVE IInv'
    OBVIOUS
  <2>1. CASE FetchFails \/ NothingUseful \/ BlankEmbed \/ Panics \/ Preview \/ DelayOver \/ PauseOver
    <3>1. Moves
      BY <2>1, Transitions DEF IInv
    <3> QED
      BY <3>1, EndsKeeps, FetchKeeps DEF Moves
  <2>2. CASE FollowsRedirect
    BY <2>2, FollowsRedirectKeeps
  <2>3. CASE GeneralDelays \/ NitoriPauses
    BY <2>3, WaitKeeps
  <2>4. CASE Tick
    BY <2>4, TickKeeps
  <2>5. CASE ClientGone \/ UNCHANGED vars
    BY <2>5, QuietKeeps
  <2> QED
    BY <2>1, <2>2, <2>3, <2>4, <2>5 DEF Next
<1> QED
  BY InitIInv, <1>1, PTL DEF Spec

\* No fetch follows as many redirects as the limit says.
THEOREM TypeCorrect == Spec => []TypeOK
<1>1. IInv => TypeOK
  BY DEF IInv
<1> QED
  BY <1>1, InductiveInvariant, PTL

\* fetchURL takes no longer than the deadlines of the scrapers it may try and
\* Nitori's sleep, whatever those are and whatever the hosts do.
THEOREM ScrapeTime == Spec => []ScrapeTimeBounded
<1>1. IInv => ScrapeTimeBounded
  <2> SUFFICES ASSUME IInv PROVE ScrapeTimeBounded
    OBVIOUS
  <2>1. TimeToCome \in Nat
    BY Numbers DEF IInv, TypeOK, Fetching, TimeToCome, GeneralPoints, SinglePoints
  <2>2. TimeBound[kind] \in Nat
    BY Numbers DEF IInv, TypeOK, TimeBound, Kinds, FirstPoint
  <2> QED
    BY <2>1, <2>2 DEF IInv, TypeOK, TimeBudget, ScrapeTimeBounded
<1> QED
  BY <1>1, InductiveInvariant, PTL

\* A slot stands for at most two connections, although no body that WebFetcher
\* returns is ever closed, and for none once the scrape is over.
THEOREM ConnectionsOfASlot == Spec => []ConnectionsBounded
<1>1. IInv => ConnectionsBounded
  BY DEF IInv, TypeOK, Fetching, GeneralPoints, Connections, ConnectionsBounded
<1> QED
  BY <1>1, InductiveInvariant, PTL

\* A preview costs at most the redirect limit times the fetches of its page's
\* scrapers, for any limit.
THEOREM RequestsOfAPreview == Spec => []RequestsBounded
<1>1. IInv => RequestsBounded
  BY Numbers DEF IInv, TypeOK, Fetching, GeneralPoints, RequestBudget, FetchesToCome, FetchBound,
     Kinds, FirstPoint, RequestsBounded
<1> QED
  BY <1>1, InductiveInvariant, PTL

\* "not found" means that the general scraper was tried as well.
THEOREM NotFoundIsGeneral == Spec => []NilOnlyAfterGeneral
<1>1. IInv => NilOnlyAfterGeneral
  BY DEF IInv
<1> QED
  BY <1>1, InductiveInvariant, PTL
=============================================================================
