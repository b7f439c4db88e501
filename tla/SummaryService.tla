---------------------------- MODULE SummaryService ----------------------------
(***************************************************************************)
(* internal/application/summary-application-service.go: GetSummary, called *)
(* by one goroutine per HTTP request.  A request looks in the cache, joins *)
(* the flight of its URL or leads a new one, and as leader passes the host *)
(* limiter, then the global semaphore, scrapes, publishes, stores, and     *)
(* unwinds its defers.                                                     *)
(*                                                                         *)
(* The host limiter is the abstract PerHostLimiter, which DomainRateLimiter*)
(* implements.  An inflightEntry is named by the request that created it,  *)
(* a preview by the request that scraped it, so that a property can tell   *)
(* where an answer comes from.  Every request is made once; Requests       *)
(* bounds how many there are.  A URL that reaches GetSummary was validated *)
(* by the handler, so it parses and has a host: the error returns for the  *)
(* opposite (extractHost, NewScrapeTarget) are out of reach.               *)
(***************************************************************************)
EXTENDS Integers, FiniteSets

CONSTANTS
  Requests,        \* HTTP requests
  Urls, Hosts,
  HostOf,          \* the host of a URL
  Handlers,        \* how many scrapers handle a URL: its own and the general one
  HealthyUrls,     \* pages that can be fetched and have a preview
  SlowHosts,       \* hosts whose scrapes need not end
  ThrottlingHosts, \* hosts that may answer 429
  MaxConcurrency,  \* capacity of the global semaphore
  MaxPerHost, Cooldown,  \* the host limiter's
  CacheMayFail,    \* Redis: a Get or a Set may fail; FALSE for the in-memory cache
  Nil              \* no request, no preview

ASSUME ServiceAssumption ==
  /\ IsFiniteSet(Requests) /\ Nil \notin Requests \cup Hosts \cup {"none", "error"}
  /\ {"none", "error"} \cap Requests = {}
  /\ HostOf \in [Urls -> Hosts]
  /\ Handlers \in [Urls -> {1, 2}]
  /\ HealthyUrls \subseteq Urls /\ SlowHosts \cup ThrottlingHosts \subseteq Hosts
  /\ MaxConcurrency \in Nat /\ MaxPerHost \in Nat \ {0} /\ Cooldown \in Nat \ {0}
  /\ CacheMayFail \in BOOLEAN

VARIABLES
  pc, target, ctxDone, answer,      \* per request: position, URL, context ended, return value
  flight, tried,                    \* per request: the entry it uses, scrapers that failed
  inflight,                         \* the sync.Map: URL -> entry
  done, result,                     \* entries whose channel is closed, their result fields
  cache,                            \* URL -> preview
  slots,                            \* fill of the global semaphore
  phase, host, remaining            \* the host limiter

Limiter == INSTANCE PerHostLimiter WITH Callers <- Requests

limiterVars == <<phase, host, remaining>>
entryVars == <<inflight, done, result>>
callVars == <<target, ctxDone, answer, flight, tried>>
vars == <<pc, callVars, entryVars, cache, slots, limiterVars>>

Init ==
  /\ pc = [r \in Requests |-> "new"]
  /\ target \in [Requests -> Urls]
  /\ ctxDone = [r \in Requests |-> FALSE]
  /\ answer = [r \in Requests |-> "none"]
  /\ flight = [r \in Requests |-> Nil]
  /\ tried = [r \in Requests |-> 0]
  /\ inflight = [u \in Urls |-> Nil]
  /\ done = {}
  /\ result = [r \in Requests |-> Nil]
  /\ cache = [u \in Urls |-> Nil]
  /\ slots = 0
  /\ Limiter!Init

Step(r, from, to) == pc[r] = from /\ pc' = [pc EXCEPT ![r] = to]
Return(r, v) == answer' = [answer EXCEPT ![r] = v]
-----------------------------------------------------------------------------
\* The handler calls GetSummary.
Arrive(r) ==
  /\ Step(r, "new", "get")
  /\ UNCHANGED <<callVars, entryVars, cache, slots, limiterVars>>

\* The client leaves or the connection's read deadline passes, and the server,
\* where it watches the connection, ends the context.
ClientGone(r) ==
  /\ pc[r] \notin {"new", "finished"} /\ ~ctxDone[r]
  /\ ctxDone' = [ctxDone EXCEPT ![r] = TRUE]
  /\ UNCHANGED <<pc, target, answer, flight, tried, entryVars, cache, slots, limiterVars>>

CacheHit(r) ==
  /\ Step(r, "get", "finished")
  /\ cache[target[r]] # Nil
  /\ Return(r, cache[target[r]])
  /\ UNCHANGED <<target, ctxDone, flight, tried, entryVars, cache, slots, limiterVars>>

\* No entry, or an error that counts as none.
CacheMiss(r) ==
  /\ Step(r, "get", "join")
  /\ cache[target[r]] = Nil \/ CacheMayFail
  /\ UNCHANGED <<callVars, entryVars, cache, slots, limiterVars>>

LeadAlways(r) ==                          \* mutant: Load, then Store, instead of LoadOrStore
  /\ Step(r, "join", "acquire")
  /\ inflight' = [inflight EXCEPT ![target[r]] = r]
  /\ flight' = [flight EXCEPT ![r] = r]
  /\ UNCHANGED <<target, ctxDone, answer, tried, done, result, cache, slots, limiterVars>>

\* LoadOrStore stores.
Lead(r) ==
  /\ Step(r, "join", "acquire")
  /\ inflight[target[r]] = Nil
  /\ inflight' = [inflight EXCEPT ![target[r]] = r]
  /\ flight' = [flight EXCEPT ![r] = r]
  /\ UNCHANGED <<target, ctxDone, answer, tried, done, result, cache, slots, limiterVars>>

\* LoadOrStore loads.
Follow(r) ==
  /\ Step(r, "join", "following")
  /\ inflight[target[r]] # Nil
  /\ flight' = [flight EXCEPT ![r] = inflight[target[r]]]
  /\ UNCHANGED <<target, ctxDone, answer, tried, entryVars, cache, slots, limiterVars>>

FollowerServedEarly(r) ==                 \* mutant: the result is read without waiting for done
  /\ Step(r, "following", "finished")
  /\ Return(r, result[flight[r]])
  /\ UNCHANGED <<target, ctxDone, flight, tried, entryVars, cache, slots, limiterVars>>

FollowerServed(r) ==
  /\ Step(r, "following", "finished")
  /\ flight[r] \in done
  /\ Return(r, result[flight[r]])
  /\ UNCHANGED <<target, ctxDone, flight, tried, entryVars, cache, slots, limiterVars>>

FollowerCancelledLate(r) ==               \* mutant: the context is looked at after <-done
  /\ Step(r, "following", "finished")
  /\ ctxDone[r] /\ flight[r] \in done
  /\ Return(r, "error")
  /\ UNCHANGED <<target, ctxDone, flight, tried, entryVars, cache, slots, limiterVars>>

FollowerCancelled(r) ==
  /\ Step(r, "following", "finished")
  /\ ctxDone[r]
  /\ Return(r, "error")
  /\ UNCHANGED <<target, ctxDone, flight, tried, entryVars, cache, slots, limiterVars>>
-----------------------------------------------------------------------------
(* The leader: Acquire, the global semaphore.  No error return closes done. *)

Refused(r) ==
  /\ Step(r, "acquire", "forget")
  /\ Limiter!Refuse(r, HostOf[target[r]])
  /\ Return(r, "error")
  /\ UNCHANGED <<target, ctxDone, flight, tried, entryVars, cache, slots>>

Admitted(r) ==
  /\ Step(r, "acquire", "waiting")
  /\ Limiter!Admit(r, HostOf[target[r]])
  /\ UNCHANGED <<callVars, entryVars, cache, slots>>

GrantedAlways(r) ==                       \* mutant: the host's slots are not counted
  /\ Step(r, "waiting", "slot")
  /\ phase' = [phase EXCEPT ![r] = "held"]
  /\ UNCHANGED <<callVars, entryVars, cache, slots, host, remaining>>

Granted(r) ==
  /\ Step(r, "waiting", "slot")
  /\ Limiter!Enter(r)
  /\ UNCHANGED <<callVars, entryVars, cache, slots>>

AcquireCancelled(r) ==
  /\ Step(r, "waiting", "forget")
  /\ ctxDone[r]
  /\ Limiter!GiveUp(r)
  /\ Return(r, "error")
  /\ UNCHANGED <<target, ctxDone, flight, tried, entryVars, cache, slots>>

TakeSlot(r) ==
  /\ Step(r, "slot", "scraping")
  /\ slots < MaxConcurrency
  /\ slots' = slots + 1
  /\ UNCHANGED <<callVars, entryVars, cache, limiterVars>>

SlotCancelledKeepsHost(r) ==              \* mutant: the deferred Release comes after the select
  /\ Step(r, "slot", "forget")
  /\ ctxDone[r]
  /\ Return(r, "error")
  /\ UNCHANGED <<target, ctxDone, flight, tried, entryVars, cache, slots, limiterVars>>

SlotCancelledGivesBack(r) ==              \* mutant: the slot's defer comes before the select
  /\ Step(r, "slot", "giveSlot")
  /\ ctxDone[r]
  /\ Return(r, "error")
  /\ UNCHANGED <<target, ctxDone, flight, tried, entryVars, cache, slots, limiterVars>>

SlotCancelled(r) ==
  /\ Step(r, "slot", "release")
  /\ ctxDone[r]
  /\ Return(r, "error")
  /\ UNCHANGED <<target, ctxDone, flight, tried, entryVars, cache, slots, limiterVars>>
-----------------------------------------------------------------------------
(* fetchURL and what follows it. *)

\* A request to h, the page's host or another, is answered 429 during the scrape.
Meets429(r, h) ==
  /\ pc[r] = "scraping"
  /\ Limiter!Report(r, h)
  /\ UNCHANGED <<pc, callVars, entryVars, cache, slots>>

ScraperSucceedsStoring(r) ==              \* mutant: the preview is cached before it is published
  /\ Step(r, "scraping", "publish")
  /\ target[r] \in HealthyUrls
  /\ result' = [result EXCEPT ![r] = r]
  /\ cache' = [cache EXCEPT ![target[r]] = r]
  /\ UNCHANGED <<callVars, inflight, done, slots, limiterVars>>

\* A scraper returns a preview, assigned to entry.result.
ScraperSucceeds(r) ==
  /\ Step(r, "scraping", "publish")
  /\ target[r] \in HealthyUrls
  /\ result' = [result EXCEPT ![r] = r]
  /\ UNCHANGED <<callVars, inflight, done, cache, slots, limiterVars>>

\* A scraper returns an error or nil, or panics: the next one is tried, and
\* after the last one nil is assigned to entry.result.  The general scraper
\* succeeds on a healthy page unless the context ended.
ScraperFails(r) ==
  /\ pc[r] = "scraping"
  /\ tried[r] + 1 = Handlers[target[r]] => target[r] \notin HealthyUrls \/ ctxDone[r]
  /\ tried' = [tried EXCEPT ![r] = @ + 1]
  /\ pc' = IF tried[r] + 1 < Handlers[target[r]] THEN pc ELSE [pc EXCEPT ![r] = "publish"]
  /\ UNCHANGED <<target, ctxDone, answer, flight, entryVars, cache, slots, limiterVars>>

PublishIfFound(r) ==                      \* mutant: done is closed with a preview only
  /\ Step(r, "publish", "store")
  /\ done' = IF result[r] = Nil THEN done ELSE done \cup {r}
  /\ UNCHANGED <<callVars, inflight, result, cache, slots, limiterVars>>

\* close(entry.done)
Publish(r) ==
  /\ Step(r, "publish", "store")
  /\ done' = done \cup {r}
  /\ UNCHANGED <<callVars, inflight, result, cache, slots, limiterVars>>

\* cache.Set, with an error ignored, when there is a preview; the return value is fixed.
Store(r) ==
  /\ Step(r, "store", "giveSlot")
  /\ \/ result[r] # Nil /\ cache' = [cache EXCEPT ![target[r]] = r]
     \/ (result[r] = Nil \/ CacheMayFail) /\ UNCHANGED cache
  /\ Return(r, result[r])
  /\ UNCHANGED <<target, ctxDone, flight, tried, entryVars, slots, limiterVars>>
-----------------------------------------------------------------------------
(* The defers, last first. *)

GiveSlot(r) ==
  /\ Step(r, "giveSlot", "release")
  /\ slots' = slots - 1
  /\ UNCHANGED <<callVars, entryVars, cache, limiterVars>>

ReleaseHost(r) ==
  /\ Step(r, "release", "forget")
  /\ Limiter!Leave(r)
  /\ UNCHANGED <<callVars, entryVars, cache, slots>>

ForgetRecycling(r) ==                     \* mutant: the entry is cleared for reuse
  /\ Step(r, "forget", "finished")
  /\ inflight' = [inflight EXCEPT ![target[r]] = Nil]
  /\ result' = [result EXCEPT ![r] = Nil]
  /\ UNCHANGED <<callVars, done, cache, slots, limiterVars>>

Forget(r) ==
  /\ Step(r, "forget", "finished")
  /\ inflight' = [inflight EXCEPT ![target[r]] = Nil]
  /\ UNCHANGED <<callVars, done, result, cache, slots, limiterVars>>

\* The cached preview's time is up.
Expire(u) ==
  /\ cache[u] # Nil
  /\ cache' = [cache EXCEPT ![u] = Nil]
  /\ UNCHANGED <<pc, callVars, entryVars, slots, limiterVars>>

Tick ==
  /\ Limiter!Tick
  /\ UNCHANGED <<pc, callVars, entryVars, cache, slots>>

Joining(r) ==
  \/ Arrive(r) \/ CacheHit(r) \/ CacheMiss(r) \/ Lead(r) \/ Follow(r)
  \/ FollowerServed(r) \/ FollowerCancelled(r)
Entering(r) ==
  \/ Refused(r) \/ Admitted(r) \/ AcquireCancelled(r) \/ SlotCancelled(r)
Scraping(r) == ScraperSucceeds(r) \/ ScraperFails(r)
Leaving(r) == Publish(r) \/ Store(r) \/ GiveSlot(r) \/ ReleaseHost(r) \/ Forget(r)

Next ==
  \/ \E r \in Requests :
       \/ Joining(r) \/ Entering(r) \/ Granted(r) \/ TakeSlot(r) \/ Scraping(r) \/ Leaving(r)
       \/ ClientGone(r)
       \/ \E h \in ThrottlingHosts : Meets429(r, h)
  \/ \E u \in Urls : Expire(u)
  \/ Tick

Spec == Init /\ [][Next]_vars

\* A goroutine that can go on does; the channels of both semaphores serve their
\* senders in FIFO order, and with finitely many requests weak fairness is
\* enough to say so.  Scrapes end by their timeouts, except those of SlowHosts,
\* which stand for scrapes longer than the caller cares to wait.
Proceeds(r) ==
  \/ pc[r] # "new" /\ Joining(r)
  \/ Entering(r) \/ Granted(r) \/ TakeSlot(r) \/ Leaving(r)
  \/ HostOf[target[r]] \notin SlowHosts /\ Scraping(r)

Fairness == \A r \in Requests : WF_vars(Proceeds(r))

\* Moreover every request's context ends.  This is an assumption: the server's
\* ReadTimeout sees to it while a connection is watched, but not when a body is
\* left unread or a byte of the next request has come (Hangs of OsamyServer).
Deadlines == \A r \in Requests : WF_vars(ClientGone(r))
-----------------------------------------------------------------------------
Leading(r) ==
  pc[r] \in {"acquire", "waiting", "slot", "scraping", "publish", "store", "giveSlot",
             "release", "forget"}
InSlot(r) == pc[r] \in {"scraping", "publish", "store", "giveSlot"}
HasHost(r) == InSlot(r) \/ pc[r] \in {"slot", "release"}

\* The types, the host limiter's included; the global semaphore is neither
\* overfilled nor given back by a request that has no slot.
TypeOK ==
  /\ pc \in [Requests -> {"new", "get", "join", "following", "acquire", "waiting", "slot",
                          "scraping", "publish", "store", "giveSlot", "release", "forget",
                          "finished"}]
  /\ target \in [Requests -> Urls]
  /\ ctxDone \in [Requests -> BOOLEAN]
  /\ answer \in [Requests -> Requests \cup {Nil, "none", "error"}]
  /\ flight \in [Requests -> Requests \cup {Nil}]
  /\ tried \in [Requests -> 0 .. 2]
  /\ inflight \in [Urls -> Requests \cup {Nil}]
  /\ done \subseteq Requests
  /\ result \in [Requests -> Requests \cup {Nil}]
  /\ cache \in [Urls -> Requests \cup {Nil}]
  /\ slots \in 0 .. MaxConcurrency
  /\ phase \in [Requests -> {"idle", "refused", "waiting", "cancelled", "held"}]
  /\ host \in [Requests -> Hosts \cup {Nil}]
  /\ remaining \in [Hosts -> 0 .. Cooldown]

\* From LoadOrStore to its last defer a leader owns its URL's entry, so at no
\* time do two requests scrape one URL, and inflight.Delete removes no entry
\* but the leader's own.
OneFlightPerUrl == \A r \in Requests : Leading(r) => inflight[target[r]] = r

\* On every return path the global slot and the host's slot are given back
\* exactly when the request has them: both semaphores count the requests
\* inside, and a finished request is in neither.
NoSlotLeaks ==
  /\ slots = Cardinality({r \in Requests : InSlot(r)})
  /\ \A r \in Requests : (phase[r] = "held" <=> HasHost(r)) /\ (phase[r] = "waiting" <=> pc[r] = "waiting")

\* Whatever is answered or cached for a URL was scraped for that URL, by a
\* flight that had published it before.
PreviewsBelongToTheirUrl ==
  /\ \A r \in Requests : answer[r] \in Requests =>
       target[answer[r]] = target[r] /\ answer[r] \in done
  /\ \A u \in Urls : cache[u] # Nil => target[cache[u]] = u /\ cache[u] \in done

\* What a caller sees of GetSummary is PreviewFlights: an entry flies until it is
\* published or its leader has an error to return.  A result that is out never
\* changes, and a request is answered once, from the flight it is on.
gone == {r \in Requests : ctxDone[r]}
found == {r \in done : result[r] # Nil}
Flying(r) == r # Nil /\ r \notin done /\ answer[r] = "none"
flying == [u \in Urls |-> IF Flying(inflight[u]) THEN inflight[u] ELSE Nil]

PF == INSTANCE PreviewFlights WITH seat <- flight, landed <- done
ImplementsPreviewFlights == PF!Spec

\* A healthy page is reported as not found only to the requests of a flight
\* whose leader's own client went away during the scrape, whether or not the
\* follower's client is still there.
NotFoundHasACause ==
  \A r \in Requests : answer[r] = Nil /\ target[r] \in HealthyUrls => ctxDone[flight[r]]

\* A follower can be left on an entry that nobody will close, but only by a
\* leader that returned an error: every flight that scraped is published.
StrandedOnlyByFailedLeader ==
  \A r \in Requests :
    pc[r] = "following" /\ pc[flight[r]] = "finished" /\ flight[r] \notin done
      => answer[flight[r]] = "error"

\* A follower of a flight that got as far as scraping is answered, without
\* any deadline of its own.
FollowersServed ==
  \A r \in Requests :
    (pc[r] = "following" /\ pc[flight[r]] = "scraping" /\ HostOf[target[r]] \notin SlowHosts)
      ~> pc[r] = "finished"

\* Scrapes that do not end, of hosts that together cannot fill the semaphore,
\* do not keep another host's leader from its global slot.
SlowHostsIsolated ==
  \A r \in Requests :
    (pc[r] = "slot" /\ HostOf[target[r]] \notin SlowHosts) ~> pc[r] # "slot"

\* If every context ends, every request to a host whose scrapes end is answered,
\* the stranded follower's too: no other wait is without an end.
EveryRequestEnds ==
  Deadlines =>
    \A r \in Requests :
      (pc[r] = "get" /\ HostOf[target[r]] \notin SlowHosts) ~> pc[r] = "finished"
=============================================================================
