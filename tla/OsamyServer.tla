----------------------------- MODULE OsamyServer -----------------------------
(***************************************************************************)
(* The process: main after its set-up, the net/http server it starts and   *)
(* shuts down, and the handlers as the server sees them: by the time they  *)
(* take.  net/http is external: its listener, deadlines, keep-alive and    *)
(* Shutdown are modelled as far as main relies on them.                    *)
(*                                                                         *)
(* A handler learns of its client's departure, or of the read deadline,    *)
(* from a background read of its connection.  There is none while a body   *)
(* is unread (no handler reads bodies), nor once a byte of the client's    *)
(* next request has come.                                                  *)
(*                                                                         *)
(* Time is counted in ticks.  What is due happens before the next tick;    *)
(* the goroutine that listens may take any time.                           *)
(***************************************************************************)
EXTENDS Integers, FiniteSets

CONSTANTS
  Clients,   \* one connection each at a time
  Timeout,   \* ReadTimeout, WriteTimeout and IdleTimeout, all the same
  Drain,     \* the time server.Shutdown is given
  NewGrace,  \* how long Shutdown waits for the first header of a connection
  Holds,     \* how long a handler may take
  LongestHold, \* the longest of them but Stuck
  Lag        \* how long a handler may go on when its context is over: Nitori's
             \* sleep, the Set on context.Background(), a command to Redis

\* A hold beyond the longest is a handler that waits for its context.
Stuck == LongestHold + 1

ASSUME ServerAssumption ==
  /\ {Timeout, Drain, NewGrace} \subseteq Nat \ {0}
  /\ LongestHold \in Nat /\ Drain <= LongestHold /\ Lag \in 0 .. LongestHold
  /\ Holds \subseteq 0 .. Stuck

VARIABLES
  main,      \* "waiting" for the signal, in Shutdown "stopping" (it has said so, the
             \* listener is open) and then "draining", at last "exited"
  listener,  \* "off", "starting", "bound" (the port is open, Shutdown does not know
             \* of it), "serving", "failed", "closed"
  drained,   \* ticks spent in Shutdown
  conn,      \* per client: "none", "queued" by the kernel, "new" until its first header
             \* is read, "running", "abandoned" by its client while its handler runs,
             \* "idle", "reading" a later header
  age,       \* ticks since the read or idle deadline of the connection was set
  header,    \* of those, the ticks that the header of the request took to come
  ran,       \* ticks since then, which the write deadline counts
  left,      \* ticks the handler still takes
  watch,     \* the background read: "on", "body" while a body is unread, "off", or
             \* "fired" when it has cancelled the context
  outcome,   \* of the client's last request, unless it is answered: "lost", "killed"
  owed       \* the ticks its handler still had to take when the signal came, Stuck if
             \* none ran then

vars == <<main, listener, drained, conn, age, header, ran, left, watch, outcome, owed>>
processVars == <<main, listener, drained>>
clockVars == <<age, header, ran, left>>
connVars == <<conn, clockVars, watch, outcome, owed>>

ConnStates == {"none", "queued", "new", "running", "abandoned", "idle", "reading"}

\* What the server has accepted, and Shutdown waits for.
Open == {c \in Clients : conn[c] \notin {"none", "queued"}}

Init ==
  /\ main = "waiting" /\ listener = "off" /\ drained = 0
  /\ conn = [c \in Clients |-> "none"]
  /\ age = [c \in Clients |-> 0] /\ header = [c \in Clients |-> 0]
  /\ ran = [c \in Clients |-> 0] /\ left = [c \in Clients |-> 0]
  /\ watch = [c \in Clients |-> "off"]
  /\ outcome = [c \in Clients |-> "none"] /\ owed = [c \in Clients |-> Stuck]

\* Connection c goes into a state with its deadline set anew.
Enter(c, state) ==
  /\ conn' = [conn EXCEPT ![c] = state]
  /\ age' = [age EXCEPT ![c] = 0] /\ header' = [header EXCEPT ![c] = 0]
  /\ ran' = [ran EXCEPT ![c] = 0] /\ left' = [left EXCEPT ![c] = 0]
  /\ watch' = [watch EXCEPT ![c] = "off"]
-----------------------------------------------------------------------------
(* The goroutine that listens: ListenAndServe tests for Shutdown, binds the *)
(* port, and registers the listener.  A failure is logged; main goes on     *)
(* waiting.                                                                 *)

Test ==
  /\ listener = "off"
  /\ listener' = IF main = "waiting" THEN "starting" ELSE "closed"
  /\ UNCHANGED <<main, drained, connVars>>

Bind ==
  /\ listener = "starting" /\ listener' \in {"bound", "failed"}
  /\ UNCHANGED <<main, drained, connVars>>

\* The listener is closed, and the kernel resets who waits at it.
ClosePort ==
  /\ listener' = "closed"
  /\ conn' = [c \in Clients |-> IF conn[c] = "queued" THEN "none" ELSE conn[c]]

RegisterUntested ==                  \* mutant: no second test for Shutdown
  /\ listener = "bound" /\ listener' = "serving"
  /\ UNCHANGED <<main, drained, connVars>>

\* Under the server's mutex Shutdown is tested for once more.
Register ==
  /\ listener = "bound"
  /\ IF main = "waiting" THEN listener' = "serving" /\ UNCHANGED conn ELSE ClosePort
  /\ UNCHANGED <<main, drained, clockVars, watch, outcome, owed>>
-----------------------------------------------------------------------------
(* main. *)

\* SIGINT or SIGTERM: Shutdown is called, and from now on known to the server.
Shutdown ==
  /\ main = "waiting" /\ main' = "stopping"
  /\ owed' = [c \in Clients |-> IF conn[c] = "running" THEN left[c] ELSE Stuck]
  /\ UNCHANGED <<listener, drained, conn, clockVars, watch, outcome>>

\* Shutdown closes the registered listener and waits for Serve to return, so
\* whom Serve has accepted is known.
CloseListener ==
  /\ main = "stopping" /\ main' = "draining"
  /\ IF listener = "serving" THEN ClosePort ELSE UNCHANGED <<listener, conn>>
  /\ UNCHANGED <<drained, clockVars, watch, outcome, owed>>

\* Until a header is read, a connection counts as new or idle.
Idle(c) == conn[c] \in {"idle", "reading"} \/ (conn[c] = "new" /\ age[c] >= NewGrace)

DrainWithoutEnd == main = "draining" /\ Open = {}   \* mutant: Shutdown without a timeout
DrainAtOnce == main = "draining"                    \* mutant: Close instead of Shutdown
DrainAwaitingListener ==                            \* mutant: waits for the goroutine that listens
  main = "draining" /\ listener = "closed" /\ (Open = {} \/ drained = Drain)

DrainOver == main = "draining" /\ (Open = {} \/ drained = Drain)

\* main returns: what still runs is lost.
Exit ==
  /\ DrainOver
  /\ main' = "exited" /\ listener' = "closed"
  /\ outcome' = [c \in Clients |-> IF conn[c] = "running" THEN "killed" ELSE outcome[c]]
  /\ conn' = [c \in Clients |-> "none"]
  /\ UNCHANGED <<drained, clockVars, watch, owed>>
-----------------------------------------------------------------------------
(* Connections. *)

Connect(c) ==
  /\ listener \in {"bound", "serving"} /\ conn[c] = "none"
  /\ Enter(c, "queued") /\ outcome' = [outcome EXCEPT ![c] = "none"]
  /\ UNCHANGED <<processVars, owed>>

Accept(c) ==
  /\ listener = "serving" /\ conn[c] = "queued"
  /\ Enter(c, "new")
  /\ UNCHANGED <<processVars, outcome, owed>>

\* The read deadline of the first request runs from the connection's start,
\* that of a later one from its first byte.
FirstByte(c) ==
  /\ conn[c] = "idle"
  /\ Enter(c, "reading")
  /\ UNCHANGED <<processVars, outcome, owed>>

Drop(c) ==
  /\ Enter(c, "none") /\ outcome' = [outcome EXCEPT ![c] = "none"]
  /\ UNCHANGED <<processVars, owed>>

Leave(c) == conn[c] \in {"queued", "new", "idle", "reading"} /\ Drop(c)

OverdueInHeader(c) == conn[c] # "running" /\ age[c] >= Timeout
                                     \* mutant: ReadHeaderTimeout in place of ReadTimeout
Overdue(c) == age[c] >= Timeout

ReadExpires(c) == conn[c] \in {"new", "idle", "reading"} /\ Overdue(c) /\ Drop(c)

\* Shutdown closes connections that nobody uses.
CloseIdle(c) == main = "draining" /\ Idle(c) /\ Drop(c)
-----------------------------------------------------------------------------
(* Handlers. *)

\* A header is complete.  The health handler, refusals and previews from the
\* cache take no time; GetSummary scrapes, waits for a slot or follows a flight.
StartHandler(c) ==
  /\ conn[c] \in {"new", "reading"} /\ conn' = [conn EXCEPT ![c] = "running"]
  /\ header' = [header EXCEPT ![c] = age[c]]
  /\ \E hold \in Holds : left' = [left EXCEPT ![c] = hold]
  /\ \E w \in {"on", "body"} : watch' = [watch EXCEPT ![c] = w]
  /\ owed' = [owed EXCEPT ![c] = Stuck]
  /\ UNCHANGED <<processVars, age, ran, outcome>>

\* A byte of the next request ends the background read.
NextRequestComes(c) ==
  /\ conn[c] = "running" /\ watch[c] = "on"
  /\ watch' = [watch EXCEPT ![c] = "off"]
  /\ UNCHANGED <<processVars, conn, clockVars, outcome, owed>>

\* The context is cancelled, and the handler goes on for Lag ticks at most.
Cancel(c) ==
  /\ watch' = [watch EXCEPT ![c] = "fired"]
  /\ \E lag \in 0 .. Lag : lag <= left[c] /\ left' = [left EXCEPT ![c] = lag]

DeadlineCancels(c) == conn[c] = "running" /\ watch[c] = "on" /\ Overdue(c)

ReadDeadline(c) ==
  /\ DeadlineCancels(c) /\ Cancel(c)
  /\ UNCHANGED <<processVars, conn, age, header, ran, outcome, owed>>

\* The client leaves its handler, which is told if the connection is watched.
Abandon(c) ==
  /\ conn[c] = "running" /\ conn' = [conn EXCEPT ![c] = "abandoned"]
  /\ IF watch[c] = "on" THEN Cancel(c)
     ELSE watch' = [watch EXCEPT ![c] = IF @ = "fired" THEN @ ELSE "off"] /\ UNCHANGED left
  /\ UNCHANGED <<processVars, age, header, ran, outcome, owed>>

\* The answer is written; the connection is kept if the client wishes and
\* Shutdown has not begun.
Reply(c) ==
  /\ ran[c] <= Timeout
  /\ \E state \in {"none"} \cup (IF main = "waiting" THEN {"idle"} ELSE {}) : Enter(c, state)
  /\ outcome' = [outcome EXCEPT ![c] = "none"]

LostFromStart(c) == age[c] >= Timeout /\ Enter(c, "none") /\ outcome' = [outcome EXCEPT ![c] = "lost"]
                                     \* mutant: the write deadline runs from the read deadline's start

\* The write deadline runs from the end of the header.
Lost(c) ==
  /\ ran[c] >= Timeout
  /\ Enter(c, "none") /\ outcome' = [outcome EXCEPT ![c] = "lost"]

\* The handler returns.  The answer to a request whose body is unread waits for
\* the body or the read deadline.
EndHandler(c) ==
  /\ left[c] = 0
  /\ \/ conn[c] = "running" /\ (Reply(c) \/ Lost(c)) /\ UNCHANGED <<processVars, owed>>
     \/ conn[c] = "abandoned" /\ Drop(c)

EndDue(c) ==
  conn[c] \in {"running", "abandoned"} /\ left[c] = 0 /\ (watch[c] = "body" => Overdue(c))
-----------------------------------------------------------------------------
\* A clock of connection c goes on until its deadline is past.
Later(clock) == IF clock <= Timeout THEN clock + 1 ELSE clock

DuePassed(c) ==
  \/ EndDue(c) \/ DeadlineCancels(c)
  \/ conn[c] \in {"new", "idle", "reading"} /\ Overdue(c)
  \/ main = "draining" /\ Idle(c)

Tick ==
  /\ main \in {"waiting", "draining"} /\ ~DrainOver /\ \A c \in Clients : ~DuePassed(c)
  /\ age' = [c \in Clients |-> IF c \in Open THEN Later(age[c]) ELSE 0]
  /\ ran' = [c \in Clients |-> IF conn[c] \in {"running", "abandoned"} THEN Later(ran[c]) ELSE 0]
  /\ left' = [c \in Clients |-> IF left[c] \in {0, Stuck} THEN left[c] ELSE left[c] - 1]
  /\ drained' = IF main = "draining" /\ drained <= Drain THEN drained + 1 ELSE drained
  /\ UNCHANGED <<main, listener, conn, header, watch, outcome, owed>>

Next ==
  \/ Test \/ Bind \/ Register \/ Shutdown \/ CloseListener \/ Exit \/ Tick
  \/ \E c \in Clients :
       \/ Connect(c) \/ Accept(c) \/ FirstByte(c) \/ Leave(c) \/ ReadExpires(c) \/ CloseIdle(c)
       \/ StartHandler(c) \/ NextRequestComes(c) \/ ReadDeadline(c) \/ Abandon(c) \/ EndHandler(c)

Spec == Init /\ [][Next]_vars

\* Time passes, however many requests are answered in no time, and timers fire;
\* nothing is assumed of clients, of the signal or of the goroutine that listens.
Fairness ==
  /\ SF_vars(Tick) /\ WF_vars(CloseListener) /\ WF_vars(Exit)
  /\ \A c \in Clients :
       /\ WF_vars(ReadExpires(c)) /\ WF_vars(CloseIdle(c)) /\ WF_vars(ReadDeadline(c))
       /\ WF_vars(EndDue(c) /\ EndHandler(c))

FairSpec == Spec /\ Fairness
-----------------------------------------------------------------------------
(* Properties. *)

\* Types, and the process ends when Shutdown's time is over (main.go:138).
TypeOK ==
  /\ main \in {"waiting", "stopping", "draining", "exited"}
  /\ listener \in {"off", "starting", "bound", "serving", "failed", "closed"}
  /\ drained \in 0 .. Drain
  /\ conn \in [Clients -> ConnStates]
  /\ age \in [Clients -> 0 .. Timeout + 1] /\ ran \in [Clients -> 0 .. Timeout + 1]
  /\ header \in [Clients -> 0 .. Timeout] /\ left \in [Clients -> 0 .. Stuck]
  /\ watch \in [Clients -> {"on", "body", "off", "fired"}]
  /\ outcome \in [Clients -> {"none", "lost", "killed"}]
  /\ owed \in [Clients -> 0 .. Stuck]

\* A request is lost with the process only if, when the signal came, its handler
\* had at least Shutdown's ten seconds still to take or had not begun, or if its
\* own client keeps the answer waiting for a body.
GraceHonoured ==
  \A c \in Clients : outcome[c] = "killed" => owed[c] >= Drain \/ watch[c] = "body"

\* Once Shutdown waits, nobody joins those it waits for, wherever the signal met
\* the goroutine that listens: before its test, between test and bind, or between
\* bind and registration.  (In the last case the port is still open: who connects
\* then is reset, not served.)
NobodyJoinsTheDrain ==
  [][main = "draining" => \A c \in Clients : conn'[c] = "new" => conn[c] = "new"]_vars

\* The read deadline cancels a handler early enough for its answer to be written:
\* on a watched connection an answer is lost only if the header came faster than
\* the handler stops, so that the write deadline follows the read deadline by less
\* than that (main.go:119 and 121).
WatchedAnswersInTime ==
  [][\A c \in Clients :
       outcome[c] # "lost" /\ outcome'[c] = "lost" /\ watch[c] \in {"on", "fired"}
         => header[c] <= Lag]_vars

\* The process ends after the signal, whatever clients and handlers do and
\* wherever the goroutine that listens is.
StopsAfterSignal == main = "stopping" ~> main = "exited"

\* A handler that waits for a context nobody will cancel.
Hangs(c) ==
  conn[c] \in {"running", "abandoned"} /\ left[c] = Stuck /\ watch[c] \notin {"on", "fired"}

\* No connection occupies the server for ever, silent clients and handlers that
\* wait without end included, but one: such a handler on a connection that is not
\* watched, which not even its client's departure ends.
ConnectionsMakeWay ==
  \A c \in Clients :
    conn[c] \in {"new", "reading", "running", "abandoned"}
      ~> conn[c] \in {"none", "idle"} \/ Hangs(c)
=============================================================================
