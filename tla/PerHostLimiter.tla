---------------------------- MODULE PerHostLimiter ----------------------------
(***************************************************************************)
(* What a domain limiter promises to the code that calls it: the Go        *)
(* interface DomainLimiter (Acquire, Release, ReportRateLimited) seen as a *)
(* counting semaphore per host with a cooldown per host.  No map, no       *)
(* domainState objects, no reference counts, no clean-up: those belong to  *)
(* DomainRateLimiter, which implements this module.                        *)
(*                                                                         *)
(* A call of Acquire goes                                                  *)
(*     "idle" -> "refused"                   host in cooldown, error       *)
(*     "idle" -> "waiting" -> "cancelled"    the caller's context ended    *)
(*     "idle" -> "waiting" -> "held"         nil error: a slot is held     *)
(* and Release takes "held" back to "idle".                                *)
(***************************************************************************)
EXTENDS Integers, FiniteSets

CONSTANTS
  Callers,        \* goroutines that may call the limiter, finitely many
  Hosts,          \* hosts a URL can name
  Nil,            \* no host
  MaxPerHost,     \* slots per host, at least one
  Cooldown        \* clock ticks a reported host stays closed, at least one

VARIABLES
  phase,          \* where each caller stands
  host,           \* the host it asked for, Nil outside a call
  remaining       \* ticks of cooldown left per host, 0 when open

vars == <<phase, host, remaining>>

HoldersOf(h) == {c \in Callers : phase[c] = "held" /\ host[c] = h}

Init ==
  /\ phase = [c \in Callers |-> "idle"]
  /\ host = [c \in Callers |-> Nil]
  /\ remaining = [h \in Hosts |-> 0]
-----------------------------------------------------------------------------
\* A new call may start once the previous one has returned.
Callable(c) == phase[c] \in {"idle", "refused", "cancelled"}

\* Acquire, host open: the caller queues for a slot.
Admit(c, h) ==
  /\ Callable(c)
  /\ remaining[h] = 0
  /\ phase' = [phase EXCEPT ![c] = "waiting"]
  /\ host' = [host EXCEPT ![c] = h]
  /\ UNCHANGED remaining

\* Acquire, host closed: an error and no slot.
Refuse(c, h) ==
  /\ Callable(c)
  /\ remaining[h] > 0
  /\ phase' = [phase EXCEPT ![c] = "refused"]
  /\ UNCHANGED <<host, remaining>>

\* Acquire returns nil.
Enter(c) ==
  /\ phase[c] = "waiting"
  /\ Cardinality(HoldersOf(host[c])) < MaxPerHost
  /\ phase' = [phase EXCEPT ![c] = "held"]
  /\ UNCHANGED <<host, remaining>>

\* Acquire returns the context's error.
GiveUp(c) ==
  /\ phase[c] = "waiting"
  /\ phase' = [phase EXCEPT ![c] = "cancelled"]
  /\ host' = [host EXCEPT ![c] = Nil]
  /\ UNCHANGED remaining

Leave(c) ==
  /\ phase[c] = "held"
  /\ phase' = [phase EXCEPT ![c] = "idle"]
  /\ host' = [host EXCEPT ![c] = Nil]
  /\ UNCHANGED remaining

\* A slot holder's scrape meets a 429 from h, its own host or another one.
Report(c, h) ==
  /\ phase[c] = "held"
  /\ remaining' = [remaining EXCEPT ![h] = Cooldown]
  /\ UNCHANGED <<phase, host>>

Tick ==
  /\ remaining' = [h \in Hosts |-> IF remaining[h] = 0 THEN 0 ELSE remaining[h] - 1]
  /\ UNCHANGED <<phase, host>>

Next ==
  \/ \E c \in Callers, h \in Hosts : Admit(c, h) \/ Refuse(c, h) \/ Report(c, h)
  \/ \E c \in Callers : Enter(c) \/ GiveUp(c) \/ Leave(c)
  \/ Tick

Spec == Init /\ [][Next]_vars
=============================================================================
