------------------------------ MODULE ScrapeChain ------------------------------
(***************************************************************************)
(* One leader's fetchURL: the scrapers that handle a page tried one after  *)
(* the other, their requests through WebFetcher and http.Client, their     *)
(* retries and waits, and the deadlines nested around all of it.  What is  *)
(* extracted from a page is abstracted to whether it makes a preview.      *)
(*                                                                         *)
(* A point is a place where the goroutine waits:                           *)
(*   single            Amazon, Bluesky, NicoNico, Threads, Yodobashi, and  *)
(*                     YouTube's oEmbed: one request                       *)
(*   fx, ogpFb, ogpBot Twitter: fxtwitter's API, then the page as          *)
(*                     Facebook's bot, then as Discord's                   *)
(*   api, apiPause, apiRetry, html   Nitori: product API, its retry, page  *)
(*   embed             Spotify's embed page                                *)
(*   gen, genDelay, genBot           GeneralScraper: page, retry as a bot  *)
(* WebFetcher hides the body's Close behind io.NopCloser, so a response    *)
(* that is not read to its end keeps its connection until the scraper's    *)
(* context is cancelled; the model counts every response that way.         *)
(***************************************************************************)
EXTENDS Integers

CONSTANTS
  ClientTimeouts,   \* values of SCRAPE_TIMEOUT_MS to consider, in ticks; 0 is none
  OwnTimeout,       \* context.WithTimeout of the scrapers of single sites
  ApiTimeout, HtmlTimeout, ApiPause,     \* Nitori's
  GeneralTimeout, BotDelays,             \* GeneralScraper's
  MaxRedirectCount

ASSUME ChainAssumption ==
  /\ ClientTimeouts \subseteq Nat /\ BotDelays \subseteq Nat
  /\ {OwnTimeout, ApiTimeout, HtmlTimeout, GeneralTimeout} \subseteq Nat \ {0}
  /\ ApiPause \in Nat /\ MaxRedirectCount \in Nat \ {0}

VARIABLES
  kind,             \* which scrapers handle the page
  at,               \* the point
  left,             \* ticks before the scraper's own deadline
  clientTimeout, clientLeft,   \* http.Client.Timeout, and what is left of it
  pause,            \* ticks left of a wait
  gone,             \* the request's context has ended
  hops,             \* redirects followed by the current fetch
  open,             \* connections held
  sent,             \* requests sent, the redirected ones included
  general,          \* the general scraper was tried
  elapsed,          \* ticks since fetchURL was called
  result            \* "none" while running, then "preview" or "nil"

config == <<kind, clientTimeout>>
vars == <<config, at, left, clientLeft, pause, gone, hops, open, sent, general, elapsed, result>>

\* Where fetchURL starts: the page's own scraper, or the general one.  Spotify
\* pages without an embed are refused without a request and count as plain.
FirstPoint ==
  [plain |-> "gen", bot |-> "genBot", single |-> "single", twitter |-> "fx",
   nitori |-> "api", nitoriPage |-> "html", spotify |-> "embed"]
Kinds == DOMAIN FirstPoint
GeneralPoints == {"gen", "genBot"}
Fetching == at \in {"single", "fx", "ogpFb", "ogpBot", "api", "apiRetry", "html", "embed"} \cup GeneralPoints
Timeout(p) == CASE p = "api" -> ApiTimeout [] p = "html" -> HtmlTimeout
                [] p \in GeneralPoints -> GeneralTimeout [] OTHER -> OwnTimeout

Init ==
  /\ kind \in Kinds
  /\ at = FirstPoint[kind]
  /\ left = Timeout(at)
  /\ clientTimeout \in ClientTimeouts /\ clientLeft = clientTimeout
  /\ pause = 0
  /\ gone = FALSE
  /\ hops = 0
  /\ open = 1 /\ sent = 1
  /\ general = (at \in GeneralPoints)
  /\ elapsed = 0
  /\ result = "none"
-----------------------------------------------------------------------------
\* httpClient.Do at point p, on a scraper context that has d ticks left, with
\* o connections still held from before.
Fetch(p, d, o) ==
  /\ at' = p
  /\ left' = d
  /\ clientLeft' = clientTimeout
  /\ hops' = 0
  /\ open' = o + 1
  /\ sent' = sent + 1
  /\ general' = (general \/ p \in GeneralPoints)
  /\ UNCHANGED <<config, pause, gone, elapsed, result>>

\* Scrape returns: its defers cancel the context, which frees every connection.
Done(r) ==
  /\ at' = "done"
  /\ result' = r
  /\ open' = 0
  /\ UNCHANGED <<config, left, clientLeft, pause, gone, hops, sent, general, elapsed>>

FailWithoutFallback ==              \* mutant: fetchURL returns the first scraper's failure
  Done("nil")

FailWithoutCancel ==                \* mutant: no deferred cancel, the bodies stay open
  IF general THEN at' = "done" /\ result' = "nil"
                  /\ UNCHANGED <<config, left, clientLeft, pause, gone, hops, open, sent, general, elapsed>>
             ELSE Fetch("gen", GeneralTimeout, open)

\* The scraper returns an error or nil, or panics: fetchURL goes on with the
\* general scraper, which is the last.
Fail ==
  IF general THEN Done("nil") ELSE Fetch("gen", GeneralTimeout, 0)

\* A fetch gave nothing, and o connections are still held: what the scraper of
\* each kind of page does next.  Sites with one request give up ...
SingleNext == at = "single" /\ Fail
GeneralNext == at \in GeneralPoints /\ Fail

TwitterNextFresh(o) ==              \* mutant: the fallback to the page does not inherit the deadline
  \/ at = "fx" /\ Fetch("ogpFb", OwnTimeout, o)
  \/ at = "ogpFb" /\ Fetch("ogpBot", left, o)
  \/ at = "ogpBot" /\ Fail

\* ... Twitter asks its next source on the same context ...
TwitterNext(o) ==
  \/ at = "fx" /\ Fetch("ogpFb", left, o)
  \/ at = "ogpFb" /\ Fetch("ogpBot", left, o)
  \/ at = "ogpBot" /\ Fail

\* ... Nitori on a new one, the API's being cancelled ...
NitoriNext ==
  \/ at \in {"api", "apiRetry"} /\ Fetch("html", HtmlTimeout, 0)
  \/ at = "html" /\ Fail

\* ... and Spotify, without a page to read, returns its default preview.
SpotifyNext == at = "embed" /\ Done("preview")

NextSource(o) == SingleNext \/ TwitterNext(o) \/ NitoriNext \/ SpotifyNext \/ GeneralNext

TimeIsUp == left = 0 \/ gone \/ (clientTimeout > 0 /\ clientLeft = 0)

\* Do returns an error: network, deadline, context, a redirect too many.
FetchFails == Fetching /\ NextSource(open - 1)

\* A response of which no preview is made: its body cannot be read before the
\* deadline or parsed, an API reports an error, the preview would be empty.
\* Twitter's pages end the scraper then, and only when they are unreadable; for
\* Spotify such a page is as good as none.
NothingUseful ==
  /\ Fetching
  /\ IF at \in {"ogpFb", "ogpBot"} THEN Fail ELSE NextSource(open)

\* Spotify's page gives a blank name in place of the default title, no artists and
\* no image: the preview is empty after all, and Scrape returns nil.
BlankEmbed == at = "embed" /\ ~TimeIsUp /\ Fail

\* The scraper panics while it fetches or reads; safeScrape makes it an error.
Panics == Fetching /\ Fail

\* A response of which a preview is made; no status other than those below is
\* looked at.
Preview ==
  /\ Fetching /\ ~TimeIsUp
  /\ Done("preview")

FollowsRedirectOnceMore ==          \* mutant: > for >= in the redirect policy
  /\ Fetching /\ ~TimeIsUp
  /\ hops + 1 <= MaxRedirectCount
  /\ hops' = hops + 1
  /\ sent' = sent + 1
  /\ UNCHANGED <<config, at, left, clientLeft, pause, gone, open, general, elapsed, result>>

\* The redirect policy, called with the hops + 1 requests made so far.
FollowsRedirect ==
  /\ Fetching /\ ~TimeIsUp
  /\ hops + 1 < MaxRedirectCount
  /\ hops' = hops + 1
  /\ sent' = sent + 1
  /\ UNCHANGED <<config, at, left, clientLeft, pause, gone, open, general, elapsed, result>>

Wait(p, ticks) ==
  /\ at' = p
  /\ pause' = ticks
  /\ UNCHANGED <<config, left, clientLeft, gone, hops, open, sent, general, elapsed, result>>

\* 503 to the general scraper's first request: wait, then ask as a bot.
GeneralDelays == at = "gen" /\ ~TimeIsUp /\ \E d \in BotDelays : Wait("genDelay", d)

\* 429 or 503 from Nitori's API: sleep, then ask again.
NitoriPauses == at = "api" /\ ~TimeIsUp /\ Wait("apiPause", ApiPause)

DelayOverAsBefore ==                \* mutant: the retry is the first request again
  /\ at = "genDelay"
  /\ IF left = 0 \/ gone THEN Fail ELSE pause = 0 /\ Fetch("gen", left, open)

\* The select of the general scraper: the delay, or the end of its context.
DelayOver ==
  /\ at = "genDelay"
  /\ \/ (left = 0 \/ gone) /\ Fail
     \/ pause = 0 /\ Fetch("genBot", left, open)

\* time.Sleep, which no context interrupts.
PauseOver ==
  /\ at = "apiPause" /\ pause = 0
  /\ Fetch("apiRetry", left, open)

\* The client leaves.
ClientGone ==
  /\ at # "done" /\ ~gone
  /\ gone' = TRUE
  /\ UNCHANGED <<config, at, left, clientLeft, pause, hops, open, sent, general, elapsed, result>>

TickWithoutDeadline ==              \* mutant: no deadline on the scrape
  /\ at # "done" /\ elapsed < 40
  /\ Fetching => ~gone
  /\ elapsed' = elapsed + 1
  /\ UNCHANGED <<config, at, left, clientLeft, pause, gone, hops, open, sent, general, result>>

\* A tick of the clock.  A timer that is due fires before the next tick.
Tick ==
  /\ at # "done"
  /\ Fetching => ~TimeIsUp
  /\ at = "genDelay" => pause > 0 /\ left > 0 /\ ~gone
  /\ at = "apiPause" => pause > 0
  /\ elapsed' = elapsed + 1
  /\ left' = IF left = 0 THEN 0 ELSE left - 1
  /\ clientLeft' = IF clientLeft = 0 THEN 0 ELSE clientLeft - 1
  /\ pause' = IF pause = 0 THEN 0 ELSE pause - 1
  /\ UNCHANGED <<config, at, gone, hops, open, sent, general, result>>

Next ==
  \/ FetchFails \/ NothingUseful \/ BlankEmbed \/ Panics \/ Preview \/ FollowsRedirect
  \/ GeneralDelays \/ DelayOver \/ NitoriPauses \/ PauseOver
  \/ ClientGone \/ Tick

Spec == Init /\ [][Next]_vars

\* Time passes and due timers fire.  No host has to answer or to fail.
FairSpec ==
  /\ Spec
  /\ WF_vars(Tick) /\ WF_vars(TimeIsUp /\ FetchFails) /\ WF_vars(DelayOver) /\ WF_vars(PauseOver)
-----------------------------------------------------------------------------
\* The types; a fetch follows fewer redirects than MaxRedirectCount.
TypeOK ==
  /\ kind \in Kinds /\ clientTimeout \in ClientTimeouts
  /\ Fetching \/ at \in {"apiPause", "genDelay", "done"}
  /\ left \in Nat /\ clientLeft \in 0 .. clientTimeout
  /\ pause \in Nat /\ gone \in BOOLEAN
  /\ hops \in 0 .. MaxRedirectCount - 1
  /\ open \in Nat /\ sent \in Nat /\ elapsed \in Nat
  /\ general \in BOOLEAN /\ result \in {"none", "preview", "nil"}

TimeBound ==
  [plain |-> GeneralTimeout, bot |-> GeneralTimeout,
   single |-> OwnTimeout + GeneralTimeout, twitter |-> OwnTimeout + GeneralTimeout,
   nitori |-> ApiTimeout + ApiPause + HtmlTimeout + GeneralTimeout,
   nitoriPage |-> HtmlTimeout + GeneralTimeout, spotify |-> OwnTimeout + GeneralTimeout]

\* How long fetchURL can take, whatever the hosts do: the deadlines of the scrapers
\* it may try, added up.  Nitori's sleep does not look at its context and comes on
\* top.  (A leader's slots are held longer: its host's while it waits for the
\* global slot, both while the preview is stored.)
ScrapeTimeBounded == elapsed <= TimeBound[kind]

\* Connections a slot stands for: the unclosed body of a first response next
\* to the retry's, never more, and none once the scrape is over, although no
\* body that WebFetcher returns is ever really closed.
ConnectionsBounded == open <= 2 /\ (at = "done" => open = 0)

FetchBound ==
  [plain |-> 2, bot |-> 1, single |-> 3, twitter |-> 5, nitori |-> 5, nitoriPage |-> 3, spotify |-> 3]

\* How many requests one preview costs the hosts it asks: the retries and
\* fallbacks of all its scrapers, each with the redirects it may follow.
RequestsBounded == sent <= FetchBound[kind] * MaxRedirectCount

\* A page is reported as not found only after the general scraper tried it.
NilOnlyAfterGeneral == result = "nil" => general

\* A scrape ends even if no host ever answers: what SummaryService assumes of
\* the scrapes of all but the slow hosts.
ScrapeEnds == <>(at = "done")
=============================================================================
