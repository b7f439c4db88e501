--------------------------- MODULE DomainRateLimiter ---------------------------
(***************************************************************************)
(* internal/infrastructure/domain-rate-limiter.go: the limiter that keeps  *)
(* every scraped host to a few concurrent fetches and closes a host for a  *)
(* while after it answered 429.                                            *)
(*                                                                         *)
(* One action is one critical section of l.mu or one arm of the select of  *)
(* Acquire.  A domainState is a heap object named by a member of States: a *)
(* caller keeps the object it looked up, while the map may drop the object *)
(* and create another one for the same host in the meantime.               *)
(*                                                                         *)
(* Time is counted in ticks.  cooldown is cooldownUntil - now, so that     *)
(* now.Before(cooldownUntil) is cooldown > 0 and now.After(cooldownUntil)  *)
(* is cooldown < 0; every instant further in the past, the zero Time       *)
(* included, is -1.                                                        *)
(***************************************************************************)
EXTENDS Integers, FiniteSets

CONSTANTS
  Callers,           \* goroutines that may be inside the limiter
  Hosts,             \* hosts of the URLs they scrape
  States,            \* names of domainState objects
  Nil,               \* the nil pointer, and no host
  MaxPerDomainArg, CooldownArg,         \* arguments of NewDomainRateLimiter
  DefaultMaxPerDomain, DefaultCooldown  \* what it uses in place of arguments <= 0

ASSUME LimiterAssumption ==
  /\ IsFiniteSet(Callers)
  /\ Nil \notin Hosts \cup States
  /\ MaxPerDomainArg \in Int /\ CooldownArg \in Int
  /\ DefaultMaxPerDomain \in Nat \ {0} /\ DefaultCooldown \in Nat \ {0}

MaxPerDomain == IF MaxPerDomainArg <= 0 THEN DefaultMaxPerDomain ELSE MaxPerDomainArg
Cooldown == IF CooldownArg <= 0 THEN DefaultCooldown ELSE CooldownArg

VARIABLES
  domains,     \* the map: host -> object, Nil when there is no entry
  heap,        \* the domainState objects
  pc,          \* where each caller stands
  hostOf,      \* the host a caller is in a call or holds a slot for
  stateOf,     \* the object its Acquire looked up
  closed,      \* Stop was called
  loop         \* the clean-up goroutine

vars == <<domains, heap, pc, hostOf, stateOf, closed, loop>>

Phases == {"idle", "refused", "select", "leaving", "cancelled", "held"}

New == [sem |-> 0, cooldown |-> -1, refCount |-> 0]

InCall(c) == pc[c] \in {"select", "leaving", "held"}

\* An object nobody can reach: garbage, or not allocated yet.
Fresh == {s \in States : (\A h \in Hosts : domains[h] # s) /\ (\A c \in Callers : stateOf[c] # s)}

\* The lookup-or-create of Acquire and of ReportRateLimited: the object, its content.
Lookup(h) == IF domains[h] = Nil THEN Fresh ELSE {domains[h]}
Content(h) == IF domains[h] = Nil THEN New ELSE heap[domains[h]]

Init ==
  /\ domains = [h \in Hosts |-> Nil]
  /\ heap = [s \in States |-> New]
  /\ pc = [c \in Callers |-> "idle"]
  /\ hostOf = [c \in Callers |-> Nil]
  /\ stateOf = [c \in Callers |-> Nil]
  /\ closed = FALSE
  /\ loop = "running"
-----------------------------------------------------------------------------
\* Acquire up to its select: refused in cooldown, otherwise counted in.
Acquire(c, h) ==
  /\ pc[c] \in {"idle", "refused", "cancelled"}
  /\ \E s \in Lookup(h) :
       /\ domains' = [domains EXCEPT ![h] = s]
       /\ \/ /\ Content(h).cooldown > 0
             /\ heap' = [heap EXCEPT ![s] = Content(h)]
             /\ pc' = [pc EXCEPT ![c] = "refused"]
             /\ UNCHANGED <<hostOf, stateOf>>
          \/ /\ Content(h).cooldown <= 0
             /\ heap' = [heap EXCEPT ![s] = [Content(h) EXCEPT !.refCount = @ + 1]]
             /\ pc' = [pc EXCEPT ![c] = "select"]
             /\ hostOf' = [hostOf EXCEPT ![c] = h]
             /\ stateOf' = [stateOf EXCEPT ![c] = s]
  /\ UNCHANGED <<closed, loop>>

GrantUnbounded(c) ==                                   \* mutant: a semaphore without capacity
  /\ pc[c] = "select"
  /\ heap' = [heap EXCEPT ![stateOf[c]].sem = @ + 1]
  /\ pc' = [pc EXCEPT ![c] = "held"]
  /\ UNCHANGED <<domains, hostOf, stateOf, closed, loop>>

\* case state.sem <- struct{}{}: the buffer has room, Acquire returns nil.
Grant(c) ==
  /\ pc[c] = "select"
  /\ heap[stateOf[c]].sem < MaxPerDomain
  /\ heap' = [heap EXCEPT ![stateOf[c]].sem = @ + 1]
  /\ pc' = [pc EXCEPT ![c] = "held"]
  /\ UNCHANGED <<domains, hostOf, stateOf, closed, loop>>

\* case <-ctx.Done(): any caller's context may end; select picks this arm even
\* when there is room.
Abandon(c) ==
  /\ pc[c] = "select"
  /\ pc' = [pc EXCEPT ![c] = "leaving"]
  /\ UNCHANGED <<domains, heap, hostOf, stateOf, closed, loop>>

Away(c, phase) ==
  /\ pc' = [pc EXCEPT ![c] = phase]
  /\ hostOf' = [hostOf EXCEPT ![c] = Nil]
  /\ stateOf' = [stateOf EXCEPT ![c] = Nil]
  /\ UNCHANGED <<domains, closed, loop>>

LeaveWaitUncounted(c) ==                               \* mutant: no refCount-- on the way out
  /\ pc[c] = "leaving"
  /\ UNCHANGED heap
  /\ Away(c, "cancelled")

LeaveWaitReleasing(c) ==                               \* mutant: gives back a slot it never had
  /\ pc[c] = "leaving"
  /\ heap' = [heap EXCEPT ![stateOf[c]].refCount = @ - 1,
                          ![stateOf[c]].sem = IF @ = 0 THEN 0 ELSE @ - 1]
  /\ Away(c, "cancelled")

\* The critical section after ctx.Done; Acquire returns the context's error.
LeaveWait(c) ==
  /\ pc[c] = "leaving"
  /\ heap' = [heap EXCEPT ![stateOf[c]].refCount = @ - 1]
  /\ Away(c, "cancelled")

ReleaseCountOnly(c) ==                                 \* mutant: the slot is never given back
  LET s == domains[hostOf[c]] IN
  /\ pc[c] = "held"
  /\ heap' = [heap EXCEPT ![s].refCount = IF @ = 0 THEN 0 ELSE @ - 1]
  /\ Away(c, "idle")

\* Release: by host, through the map.  Without an entry it does nothing; a
\* receive from an empty sem would block with the mutex held.
Release(c) ==
  LET s == domains[hostOf[c]] IN
  /\ pc[c] = "held"
  /\ \/ s = Nil /\ UNCHANGED heap
     \/ /\ s # Nil
        /\ heap[s].sem > 0
        /\ heap' = [heap EXCEPT ![s].refCount = IF @ = 0 THEN 0 ELSE @ - 1, ![s].sem = @ - 1]
  /\ Away(c, "idle")

ReportKnownOnly(c, h) ==                               \* mutant: a host without an entry is ignored
  /\ pc[c] = "held"
  /\ domains[h] # Nil
  /\ heap' = [heap EXCEPT ![domains[h]].cooldown = Cooldown]
  /\ UNCHANGED <<domains, pc, hostOf, stateOf, closed, loop>>

\* ReportRateLimited, called by the transport while c fetches.  h need not be
\* the host c acquired: redirects and API hosts go through the same transport.
ReportRateLimited(c, h) ==
  /\ pc[c] = "held"
  /\ \E s \in Lookup(h) :
       /\ domains' = [domains EXCEPT ![h] = s]
       /\ heap' = [heap EXCEPT ![s] = [Content(h) EXCEPT !.cooldown = Cooldown]]
  /\ UNCHANGED <<pc, hostOf, stateOf, closed, loop>>
-----------------------------------------------------------------------------
IdleIgnoringRefs(h) == domains[h] # Nil /\ heap[domains[h]].cooldown < 0       \* mutant
IdleIgnoringCooldown(h) == domains[h] # Nil /\ heap[domains[h]].refCount = 0   \* mutant
IdleBefore(h) ==                                                               \* mutant
  domains[h] # Nil /\ heap[domains[h]].refCount = 0 /\ heap[domains[h]].cooldown > 0

Idle(h) == domains[h] # Nil /\ heap[domains[h]].refCount = 0 /\ heap[domains[h]].cooldown < 0

\* One tick of the clean-up goroutine: the whole map in one critical section.
Cleanup ==
  /\ loop = "running"
  /\ domains' = [h \in Hosts |-> IF Idle(h) THEN Nil ELSE domains[h]]
  /\ UNCHANGED <<heap, pc, hostOf, stateOf, closed, loop>>

\* The loop sees closed; until it does, a pending tick may still be served.
ExitLoop ==
  /\ loop = "running" /\ closed
  /\ loop' = "exited"
  /\ UNCHANGED <<domains, heap, pc, hostOf, stateOf, closed>>

\* Called once, by main's shutdown; callers may still be inside.
Stop ==
  /\ ~closed
  /\ closed' = TRUE
  /\ UNCHANGED <<domains, heap, pc, hostOf, stateOf, loop>>

\* The clock advances.
Tick ==
  /\ heap' = [s \in States |->
                [heap[s] EXCEPT !.cooldown = IF @ < 0 THEN @ ELSE @ - 1]]
  /\ UNCHANGED <<domains, pc, hostOf, stateOf, closed, loop>>

Next ==
  \/ \E c \in Callers, h \in Hosts : Acquire(c, h) \/ ReportRateLimited(c, h)
  \/ \E c \in Callers : Grant(c) \/ Abandon(c) \/ LeaveWait(c) \/ Release(c)
  \/ Cleanup \/ ExitLoop \/ Stop \/ Tick

Spec == Init /\ [][Next]_vars

\* A channel serves its parked senders in FIFO order, so one that keeps finding
\* room is served; a critical section that was entered is left; a scrape ends
\* because every fetch has a deadline, and its deferred Release runs; the ticker
\* keeps firing; time passes.  Nobody has to call, to cancel, to report, to stop.
Fairness ==
  /\ \A c \in Callers : SF_vars(Grant(c)) /\ WF_vars(LeaveWait(c)) /\ WF_vars(Release(c))
  /\ WF_vars(Cleanup) /\ WF_vars(ExitLoop) /\ WF_vars(Tick)

FairSpec == Spec /\ Fairness
-----------------------------------------------------------------------------
Object ==
  [sem : 0 .. MaxPerDomain, cooldown : -1 .. Cooldown, refCount : Nat]

\* The types: in particular no semaphore is fuller than its capacity and no
\* reference count is negative.
TypeOK ==
  /\ domains \in [Hosts -> States \cup {Nil}]
  /\ heap \in [States -> Object]
  /\ pc \in [Callers -> Phases]
  /\ hostOf \in [Callers -> Hosts \cup {Nil}]
  /\ stateOf \in [Callers -> States \cup {Nil}]
  /\ closed \in BOOLEAN
  /\ loop \in {"running", "exited"}

Users(s) == {c \in Callers : InCall(c) /\ stateOf[c] = s}
Holders(s) == {c \in Callers : pc[c] = "held" /\ stateOf[c] = s}
HoldersOf(h) == {c \in Callers : pc[c] = "held" /\ hostOf[c] = h}

\* The clean-up and the re-creation of an entry never put a second object
\* between a caller and its host: whoever is inside Acquire, or holds a slot,
\* holds the object the map has for its host.
CallersUseTheMappedState ==
  \A c \in Callers : InCall(c) =>
    /\ hostOf[c] \in Hosts
    /\ domains[hostOf[c]] # Nil
    /\ stateOf[c] = domains[hostOf[c]]

\* No object serves two hosts.
OneHostPerState ==
  \A g, h \in Hosts : domains[g] = domains[h] /\ domains[h] # Nil => g = h

\* refCount is the number of callers that may still touch the object, and the
\* semaphore's fill is the number of slots held, in every interleaving of
\* Acquire, its cancellation, Release and the clean-up.
CountsAreExact ==
  \A h \in Hosts : domains[h] # Nil =>
    /\ heap[domains[h]].refCount = Cardinality(Users(domains[h]))
    /\ heap[domains[h]].sem = Cardinality(Holders(domains[h]))

\* The inductive invariant behind the limiter's safety.
IInv == TypeOK /\ CallersUseTheMappedState /\ OneHostPerState /\ CountsAreExact

\* Never more than maxPerDomain callers hold a slot of one host, also across
\* the deletion and re-creation of the host's entry.
LimitHolds == \A h \in Hosts : Cardinality(HoldersOf(h)) <= MaxPerDomain

\* The receive in Release, done with the mutex held, finds a slot in the
\* buffer: it cannot block every other caller of the limiter.
ReleaseNeverBlocks ==
  \A c \in Callers : pc[c] = "held" =>
    /\ domains[hostOf[c]] # Nil
    /\ heap[domains[hostOf[c]]].sem > 0

\* The detailed limiter implements the abstract one: an entry's cooldown
\* outlives every clean-up, and a slot is a slot of the host.
remaining == [h \in Hosts |-> IF Content(h).cooldown > 0 THEN Content(h).cooldown ELSE 0]
phase ==
  [c \in Callers |-> CASE pc[c] = "select" -> "waiting"
                       [] pc[c] = "leaving" -> "cancelled"
                       [] OTHER -> pc[c]]
host == [c \in Callers |-> IF pc[c] \in {"select", "held"} THEN hostOf[c] ELSE Nil]

PHL == INSTANCE PerHostLimiter WITH MaxPerHost <- MaxPerDomain
ImplementsPerHostLimiter == PHL!Spec

\* A caller admitted to the select leaves it, with a slot or with its error:
\* slots keep coming back and nobody is starved of them.
EveryWaitEnds == \A c \in Callers : pc[c] = "select" ~> pc[c] # "select"

\* The map does not keep the entry of a host nobody uses: unless the host is
\* used or reported again, or the limiter stopped, the entry goes away.
UnusedEntryCollected ==
  \A h \in Hosts :
    (domains[h] # Nil /\ Content(h).refCount = 0 /\ Content(h).cooldown < Cooldown)
      ~> (domains[h] = Nil \/ Content(h).refCount > 0 \/ Content(h).cooldown = Cooldown \/ closed)

\* "expected Acquire to fail during cooldown" (domain-rate-limiter_test.go:40):
\* no Acquire returns a slot of a host that is in cooldown.
NoSlotDuringCooldown ==
  [][\A c \in Callers :
       pc[c] # "held" /\ pc'[c] = "held" => Content(hostOf[c]).cooldown <= 0]_vars
=============================================================================
