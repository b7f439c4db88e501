--------------------------- MODULE OsamyServerProofs ---------------------------
(***************************************************************************)
(* What the process owes at its end, for any number of connections, any    *)
(* timeouts and any time the handlers take.  The argument: from the signal *)
(* on, what a handler still takes and what Shutdown has taken is at most   *)
(* what was owed; and a handler that is cancelled has, with what it still  *)
(* takes, not much more behind it than the read deadline allowed.          *)
(***************************************************************************)
EXTENDS OsamyServer, TLAPS

\* The debt to a client whose handler ran when the signal came.
DebtKept(c) ==
  main \in {"stopping", "draining"} /\ conn[c] = "running" /\ watch[c] # "body"
    => owed[c] = Stuck \/ left[c] + drained <= owed[c]

\* A header that is awaited is in time.
HeaderInTime(c) == conn[c] \in {"new", "reading"} => ran[c] = 0 /\ age[c] <= Timeout

\* A watched handler runs within the read deadline, and a cancelled one not much
\* longer.
StopsInTime(c) ==
  conn[c] = "running" =>
    /\ watch[c] = "on" => age[c] <= Timeout /\ ran[c] = age[c] - header[c]
    /\ watch[c] = "fired" => left[c] # Stuck /\ ran[c] + left[c] <= Timeout - header[c] + Lag

\* Nobody is killed before the end, and nothing is left of the connections then.
KilledLast(c) == IF main = "exited" THEN conn[c] = "none" ELSE outcome[c] # "killed"

\* From the drain on Serve is over, and with the process the port is gone.
ServeOver ==
  /\ main = "draining" => listener # "serving"
  /\ main = "exited" => listener = "closed"

Kept(c) == DebtKept(c) /\ HeaderInTime(c) /\ StopsInTime(c) /\ KilledLast(c)

IInv ==
  /\ TypeOK /\ GraceHonoured /\ ServeOver
  /\ main \in {"waiting", "stopping"} => drained = 0
  /\ \A c \in Clients : Kept(c)

LEMMA Numbers == /\ Timeout \in Nat /\ Drain \in Nat /\ Lag \in Nat /\ LongestHold \in Nat
                 /\ Timeout > 0 /\ Drain > 0 /\ Drain <= Stuck /\ Lag < Stuck
                 /\ Stuck \in Nat /\ Stuck = LongestHold + 1
  BY ServerAssumption DEF Stuck
-----------------------------------------------------------------------------
LEMMA InitIInv == Init => IInv
<1> SUFFICES ASSUME Init PROVE IInv
  OBVIOUS
<1>1. TypeOK /\ GraceHonoured /\ ServeOver
  BY Numbers DEF Init, TypeOK, GraceHonoured, ServeOver, ConnStates
<1>2. \A c \in Clients : Kept(c)
  BY DEF Init, Kept, DebtKept, HeaderInTime, StopsInTime, KilledLast
<1> QED
  BY <1>1, <1>2 DEF Init, IInv

\* A step of the goroutine that listens changes its own position only, or drops
\* those who wait at its port.
LEMMA ListenerKeeps == IInv /\ (Test \/ Bind \/ Register) => IInv'
<1> SUFFICES ASSUME IInv, Test \/ Bind \/ Register PROVE IInv'
  OBVIOUS
<1>1. UNCHANGED <<main, drained, clockVars, watch, outcome, owed>>
  BY DEF Test, Bind, Register, connVars
<1>2. /\ conn' \in [Clients -> ConnStates]
      /\ \A c \in Clients : conn'[c] = conn[c] \/ conn'[c] = "none"
  BY DEF Test, Bind, Register, ClosePort, connVars, IInv, TypeOK, ConnStates
<1>3. listener' \in {"starting", "closed", "bound", "failed", "serving"}
      /\ (listener' = "serving" => main = "waiting") /\ main # "exited"
  BY DEF Test, Bind, Register, ClosePort, IInv, ServeOver
<1>4. TypeOK' /\ GraceHonoured' /\ ServeOver'
  BY <1>1, <1>2, <1>3 DEF clockVars, IInv, TypeOK, GraceHonoured, ServeOver
<1>5. \A c \in Clients : Kept(c)'
  BY <1>1, <1>2 DEF clockVars, IInv, Kept, DebtKept, HeaderInTime, StopsInTime, KilledLast
<1> QED
  BY <1>1, <1>4, <1>5 DEF IInv

\* The debts are noted.
LEMMA ShutdownKeeps == IInv /\ Shutdown => IInv'
<1> SUFFICES ASSUME IInv, Shutdown PROVE IInv'
  OBVIOUS
<1> USE DEF Shutdown, clockVars
<1>1. TypeOK' /\ ServeOver' /\ drained' = 0
  BY Numbers DEF IInv, TypeOK, ServeOver
<1>2. GraceHonoured'
  BY DEF IInv, Kept, KilledLast, GraceHonoured
<1>3. ASSUME NEW c \in Clients PROVE Kept(c)'
  <2>1. left[c] \in 0 .. Stuck /\ drained = 0
    BY DEF IInv, TypeOK
  <2>2. DebtKept(c)'
    BY <2>1, Numbers DEF DebtKept
  <2> QED
    BY <2>2 DEF IInv, Kept, HeaderInTime, StopsInTime, KilledLast
<1> QED
  BY <1>1, <1>2, <1>3 DEF IInv

LEMMA CloseListenerKeeps == IInv /\ CloseListener => IInv'
<1> SUFFICES ASSUME IInv, CloseListener PROVE IInv'
  OBVIOUS
<1>1. /\ main = "stopping" /\ main' = "draining" /\ listener' # "serving"
      /\ listener' \in {listener, "closed"}
      /\ UNCHANGED <<drained, clockVars, watch, outcome, owed>>
  BY DEF CloseListener, ClosePort
<1>2. /\ conn' \in [Clients -> ConnStates]
      /\ \A c \in Clients : conn'[c] = conn[c] \/ conn'[c] = "none"
  BY DEF CloseListener, ClosePort, IInv, TypeOK, ConnStates
<1>3. TypeOK' /\ GraceHonoured' /\ ServeOver'
  BY <1>1, <1>2 DEF clockVars, IInv, TypeOK, GraceHonoured, ServeOver
<1>4. \A c \in Clients : Kept(c)'
  BY <1>1, <1>2 DEF clockVars, IInv, Kept, DebtKept, HeaderInTime, StopsInTime, KilledLast
<1> QED
  BY <1>1, <1>3, <1>4 DEF IInv

\* Who is killed had at least Drain ticks left when the signal came.
LEMMA ExitKeeps == IInv /\ Exit => IInv'
<1> SUFFICES ASSUME IInv, Exit PROVE IInv'
  OBVIOUS
<1>1. main = "draining" /\ (Open = {} \/ drained = Drain)
  BY DEF Exit, DrainOver
<1>2. GraceHonoured'
  <2> SUFFICES ASSUME NEW c \in Clients, outcome'[c] = "killed", watch[c] # "body"
               PROVE  owed[c] >= Drain
    BY DEF Exit, GraceHonoured
  <2>1. conn[c] = "running"
    BY <1>1 DEF Exit, IInv, Kept, KilledLast
  <2>2. drained = Drain
    BY <1>1, <2>1 DEF Open
  <2>3. owed[c] = Stuck \/ left[c] + drained <= owed[c]
    BY <1>1, <2>1 DEF IInv, Kept, DebtKept
  <2>4. left[c] \in 0 .. Stuck /\ owed[c] \in 0 .. Stuck
    BY DEF IInv, TypeOK
  <2> QED
    BY <2>2, <2>3, <2>4, Numbers
<1>3. TypeOK'
  BY DEF Exit, clockVars, IInv, TypeOK, ConnStates
<1>4. ServeOver' /\ main' = "exited"
  BY DEF Exit, ServeOver
<1>5. \A c \in Clients : Kept(c)'
  BY DEF Exit, Kept, DebtKept, HeaderInTime, StopsInTime, KilledLast
<1> QED
  BY <1>2, <1>3, <1>4, <1>5 DEF IInv
-----------------------------------------------------------------------------
(* The actions of a connection.  Each keeps the process and the accounts of *)
(* the other connections; what is left to show is the types and its own.    *)

LEMMA OneConnection ==
  ASSUME IInv, NEW c \in Clients, UNCHANGED processVars, TypeOK', Kept(c)',
         outcome'[c] = "killed" => outcome[c] = "killed" /\ main = "exited" /\ UNCHANGED <<owed, watch>>,
         \A d \in Clients \ {c} :
           UNCHANGED <<conn[d], age[d], header[d], ran[d], left[d], watch[d], outcome[d], owed[d]>>
  PROVE  IInv'
<1>1. \A d \in Clients \ {c} : Kept(d)'
  BY DEF processVars, IInv, Kept, DebtKept, HeaderInTime, StopsInTime, KilledLast
<1>2. GraceHonoured'
  BY DEF IInv, GraceHonoured
<1> QED
  BY <1>1, <1>2 DEF processVars, IInv, ServeOver

\* A connection that ends or begins anew.
LEMMA EnterKeeps ==
  ASSUME IInv, NEW c \in Clients, NEW state \in {"none", "queued", "new", "idle", "reading"},
         Enter(c, state), outcome' = [outcome EXCEPT ![c] = "none"]
                            \/ outcome' = [outcome EXCEPT ![c] = "lost"]
                            \/ (UNCHANGED outcome /\ conn[c] # "none"),
         state = "none" \/ main # "exited", UNCHANGED <<processVars, owed>>
  PROVE  IInv'
<1> USE DEF Enter, processVars
<1>1. TypeOK'
  BY Numbers DEF IInv, TypeOK, ConnStates
<1>2. main = "exited" => conn[c] = "none"
  BY DEF IInv, Kept, KilledLast
<1>3. outcome'[c] # "killed"
  BY <1>2 DEF IInv, TypeOK, Kept, KilledLast
<1>4. Kept(c)'
  BY <1>3, Numbers DEF IInv, TypeOK, Kept, DebtKept, HeaderInTime, StopsInTime, KilledLast
<1>5. \A d \in Clients \ {c} :
        UNCHANGED <<conn[d], age[d], header[d], ran[d], left[d], watch[d], outcome[d], owed[d]>>
  BY DEF IInv, TypeOK
<1> QED
  BY <1>1, <1>3, <1>4, <1>5, OneConnection

LEMMA PeerKeeps ==
  ASSUME IInv, NEW c \in Clients, Connect(c) \/ Accept(c) \/ FirstByte(c)
  PROVE  IInv'
<1>1. CASE Connect(c)
  <2>1. main # "exited"
    BY <1>1 DEF Connect, IInv, ServeOver
  <2>2. /\ Enter(c, "queued") /\ outcome' = [outcome EXCEPT ![c] = "none"]
        /\ UNCHANGED <<processVars, owed>>
    BY <1>1 DEF Connect
  <2> QED
    BY <2>1, <2>2, EnterKeeps
<1>2. CASE Accept(c)
  <2>1. main # "exited"
    BY <1>2 DEF Accept, IInv, Kept, KilledLast
  <2> QED
    BY <1>2, <2>1, EnterKeeps DEF Accept
<1>3. CASE FirstByte(c)
  <2>1. main # "exited"
    BY <1>3 DEF FirstByte, IInv, Kept, KilledLast
  <2> QED
    BY <1>3, <2>1, EnterKeeps DEF FirstByte
<1> QED
  BY <1>1, <1>2, <1>3

LEMMA DropKeeps ==
  ASSUME IInv, NEW c \in Clients, Drop(c)
  PROVE  IInv'
  BY EnterKeeps DEF Drop

LEMMA StartHandlerKeeps ==
  ASSUME IInv, NEW c \in Clients, StartHandler(c)
  PROVE  IInv'
<1> USE DEF StartHandler, processVars
<1>1. PICK hold \in Holds : left' = [left EXCEPT ![c] = hold]
  OBVIOUS
<1>2. PICK w \in {"on", "body"} : watch' = [watch EXCEPT ![c] = w]
  OBVIOUS
<1>3. hold \in 0 .. Stuck /\ age[c] \in 0 .. Timeout /\ ran[c] = 0
  BY ServerAssumption, Numbers DEF IInv, TypeOK, Kept, HeaderInTime
<1>4. TypeOK'
  BY <1>1, <1>2, <1>3, Numbers DEF IInv, TypeOK, ConnStates
<1>5. outcome'[c] # "killed" /\ main # "exited"
  BY DEF IInv, Kept, KilledLast
<1>6. /\ conn'[c] = "running" /\ owed'[c] = Stuck /\ header'[c] = age[c] /\ age'[c] = age[c]
      /\ ran'[c] = 0 /\ watch'[c] \in {"on", "body"}
  BY <1>2, <1>3 DEF IInv, TypeOK
<1>7. Kept(c)'
  BY <1>3, <1>5, <1>6 DEF Kept, DebtKept, HeaderInTime, StopsInTime, KilledLast
<1>8. \A d \in Clients \ {c} :
        UNCHANGED <<conn[d], age[d], header[d], ran[d], left[d], watch[d], outcome[d], owed[d]>>
  BY <1>1, <1>2 DEF IInv, TypeOK
<1> QED
  BY <1>4, <1>5, <1>7, <1>8, OneConnection

LEMMA NextRequestKeeps ==
  ASSUME IInv, NEW c \in Clients, NextRequestComes(c)
  PROVE  IInv'
<1> USE DEF NextRequestComes, processVars, clockVars
<1>1. TypeOK'
  BY DEF IInv, TypeOK
<1>2. outcome'[c] # "killed"
  BY DEF IInv, Kept, KilledLast
<1>3. Kept(c)'
  BY DEF IInv, TypeOK, Kept, DebtKept, HeaderInTime, StopsInTime, KilledLast
<1>4. \A d \in Clients \ {c} :
        UNCHANGED <<conn[d], age[d], header[d], ran[d], left[d], watch[d], outcome[d], owed[d]>>
  BY DEF IInv, TypeOK
<1> QED
  BY <1>1, <1>2, <1>3, <1>4, OneConnection

\* A cancelled handler has less to take than before, and no more than Lag.
LEMMA CancelKeeps ==
  ASSUME IInv, NEW c \in Clients, conn[c] = "running", watch[c] = "on", Cancel(c),
         NEW state \in {"running", "abandoned"}, conn' = [conn EXCEPT ![c] = state],
         UNCHANGED <<processVars, age, header, ran, outcome, owed>>
  PROVE  IInv'
<1> USE DEF processVars
<1>1. PICK lag \in 0 .. Lag : lag <= left[c] /\ left' = [left EXCEPT ![c] = lag]
  BY DEF Cancel
<1>2. watch' = [watch EXCEPT ![c] = "fired"]
  BY DEF Cancel
<1>3. /\ left[c] \in 0 .. Stuck /\ age[c] \in 0 .. Timeout + 1 /\ header[c] \in 0 .. Timeout
      /\ owed[c] \in 0 .. Stuck /\ drained \in 0 .. Drain
  BY DEF IInv, TypeOK
<1>4. TypeOK'
  BY <1>1, <1>2, <1>3, Numbers DEF IInv, TypeOK, ConnStates
<1>5. outcome'[c] # "killed" /\ main # "exited"
  BY DEF IInv, Kept, KilledLast
<1>6. left'[c] = lag /\ watch'[c] = "fired" /\ conn'[c] = state
  BY <1>1, <1>2 DEF IInv, TypeOK
<1>7. DebtKept(c)'
  BY <1>1, <1>3, <1>6, Numbers DEF IInv, Kept, DebtKept
<1>8. StopsInTime(c)'
  <2>1. age[c] <= Timeout /\ ran[c] = age[c] - header[c]
    BY DEF IInv, Kept, StopsInTime
  <2> QED
    BY <1>1, <1>3, <1>6, <2>1, Numbers DEF StopsInTime
<1>9. HeaderInTime(c)' /\ KilledLast(c)'
  BY <1>5, <1>6 DEF HeaderInTime, KilledLast
<1>10. \A d \in Clients \ {c} :
        UNCHANGED <<conn[d], age[d], header[d], ran[d], left[d], watch[d], outcome[d], owed[d]>>
  BY <1>1, <1>2 DEF IInv, TypeOK
<1> QED
  BY <1>4, <1>5, <1>7, <1>8, <1>9, <1>10, OneConnection DEF Kept

LEMMA ReadDeadlineKeeps ==
  ASSUME IInv, NEW c \in Clients, ReadDeadline(c)
  PROVE  IInv'
<1>1. conn' = [conn EXCEPT ![c] = "running"]
  BY DEF ReadDeadline, DeadlineCancels, IInv, TypeOK
<1> QED
  BY <1>1, CancelKeeps DEF ReadDeadline, DeadlineCancels

LEMMA AbandonKeeps ==
  ASSUME IInv, NEW c \in Clients, Abandon(c)
  PROVE  IInv'
<1>1. CASE watch[c] = "on"
  BY <1>1, CancelKeeps DEF Abandon
<1>2. CASE watch[c] # "on"
  <2> USE <1>2 DEF Abandon, processVars
  <2>1. watch' \in [Clients -> {"on", "body", "off", "fired"}]
        /\ \A d \in Clients \ {c} : watch'[d] = watch[d]
    BY DEF IInv, TypeOK
  <2>2. TypeOK'
    BY <2>1 DEF IInv, TypeOK, ConnStates
  <2>3. outcome'[c] # "killed" /\ main # "exited"
    BY DEF IInv, Kept, KilledLast
  <2>4. Kept(c)'
    BY <2>3 DEF IInv, TypeOK, Kept, DebtKept, HeaderInTime, StopsInTime, KilledLast
  <2>5. \A d \in Clients \ {c} :
          UNCHANGED <<conn[d], age[d], header[d], ran[d], left[d], watch[d], outcome[d], owed[d]>>
    BY <2>1 DEF IInv, TypeOK
  <2> QED
    BY <2>2, <2>3, <2>4, <2>5, OneConnection
<1> QED
  BY <1>1, <1>2

LEMMA EndHandlerKeeps ==
  ASSUME IInv, NEW c \in Clients, EndHandler(c)
  PROVE  IInv'
<1>1. CASE conn[c] = "running" /\ Reply(c) /\ UNCHANGED <<processVars, owed>>
  <2>1. PICK state \in {"none", "idle"} : Enter(c, state) /\ (state = "idle" => main = "waiting")
    BY <1>1 DEF Reply
  <2> QED
    BY <1>1, <2>1, EnterKeeps DEF Reply
<1>2. CASE conn[c] = "running" /\ Lost(c) /\ UNCHANGED <<processVars, owed>>
  BY <1>2, EnterKeeps DEF Lost
<1>3. CASE Drop(c)
  BY <1>3, DropKeeps
<1> QED
  BY <1>1, <1>2, <1>3 DEF EndHandler
-----------------------------------------------------------------------------
\* What a handler has less to take, Shutdown and the write deadline have more.
LEMMA TickKeeps == IInv /\ Tick => IInv'
<1> SUFFICES ASSUME IInv, Tick PROVE IInv'
  OBVIOUS
<1>1. /\ main \in {"waiting", "draining"}
      /\ UNCHANGED <<main, listener, conn, header, watch, outcome, owed>>
  BY DEF Tick
<1>2. drained' = (IF main = "draining" THEN drained + 1 ELSE drained) /\ drained' \in 0 .. Drain
  BY Numbers DEF Tick, DrainOver, IInv, TypeOK
<1>3. ASSUME NEW c \in Clients
      PROVE  /\ age'[c] \in 0 .. Timeout + 1 /\ ran'[c] \in 0 .. Timeout + 1 /\ left'[c] \in 0 .. Stuck
             /\ Kept(c)'
  <2>1. /\ age[c] \in 0 .. Timeout + 1 /\ ran[c] \in 0 .. Timeout + 1 /\ left[c] \in 0 .. Stuck
        /\ header[c] \in 0 .. Timeout /\ owed[c] \in 0 .. Stuck /\ drained \in 0 .. Drain
    BY DEF IInv, TypeOK
  <2>2. /\ Later(age[c]) \in 0 .. Timeout + 1 /\ (age[c] < Timeout => Later(age[c]) = age[c] + 1)
        /\ Later(ran[c]) \in 0 .. Timeout + 1 /\ Later(ran[c]) <= ran[c] + 1
        /\ (ran[c] < Timeout => Later(ran[c]) = ran[c] + 1)
    BY <2>1, Numbers DEF Later
  <2>3. /\ age'[c] = IF c \in Open THEN Later(age[c]) ELSE 0
        /\ ran'[c] = IF conn[c] \in {"running", "abandoned"} THEN Later(ran[c]) ELSE 0
        /\ left'[c] = IF left[c] \in {0, Stuck} THEN left[c] ELSE left[c] - 1
    BY DEF Tick
  <2>4. ~EndDue(c) /\ ~DeadlineCancels(c) /\ ~(conn[c] \in {"new", "idle", "reading"} /\ Overdue(c))
    BY DEF Tick, DuePassed
  <2>5. conn[c] \in {"new", "reading", "running"} => c \in Open
    BY DEF Open
  <2>6. Kept(c)
    BY DEF IInv
  <2>7. DebtKept(c)'
    <3> SUFFICES ASSUME main = "draining", conn[c] = "running", watch[c] # "body", owed[c] # Stuck
                 PROVE  left'[c] + drained' <= owed[c]
      BY <1>1 DEF DebtKept
    <3>1. left[c] + drained <= owed[c]
      BY <2>6 DEF Kept, DebtKept
    <3>2. left[c] # 0
      BY <2>4 DEF EndDue
    <3>3. left[c] # Stuck
      BY <2>1, <3>1, Numbers
    <3> QED
      BY <1>2, <2>1, <2>3, <3>1, <3>2, <3>3
  <2>8. HeaderInTime(c)'
    <3> SUFFICES ASSUME conn[c] \in {"new", "reading"} PROVE ran'[c] = 0 /\ age'[c] <= Timeout
      BY <1>1 DEF HeaderInTime
    <3>1. age[c] < Timeout
      BY <2>1, <2>4, Numbers DEF Overdue
    <3> QED
      BY <2>1, <2>2, <2>3, <2>5, <3>1, Numbers
  <2>9. StopsInTime(c)'
    <3> SUFFICES ASSUME conn[c] = "running"
                 PROVE  /\ watch[c] = "on" => age'[c] <= Timeout /\ ran'[c] = age'[c] - header[c]
                        /\ watch[c] = "fired" =>
                             left'[c] # Stuck /\ ran'[c] + left'[c] <= Timeout - header[c] + Lag
      BY <1>1 DEF StopsInTime
    <3>1. CASE watch[c] = "on"
      <4>1. age[c] < Timeout /\ ran[c] = age[c] - header[c]
        BY <2>1, <2>4, <2>6, <3>1, Numbers DEF DeadlineCancels, Overdue, Kept, StopsInTime
      <4>2. ran[c] < Timeout
        BY <2>1, <4>1, Numbers
      <4> QED
        BY <2>1, <2>2, <2>3, <2>5, <3>1, <4>1, <4>2, Numbers
    <3>2. CASE watch[c] = "fired"
      <4>1. left[c] # 0
        BY <2>4, <3>2 DEF EndDue
      <4>2. left[c] # Stuck /\ ran[c] + left[c] <= Timeout - header[c] + Lag
        BY <2>6, <3>2 DEF Kept, StopsInTime
      <4>3. left'[c] = left[c] - 1
        BY <2>3, <4>1, <4>2
      <4> QED
        BY <2>1, <2>2, <2>3, <3>2, <4>1, <4>2, <4>3, Numbers
    <3> QED
      BY <3>1, <3>2
  <2>10. KilledLast(c)'
    BY <1>1, <2>6 DEF Kept, KilledLast
  <2>11. /\ age'[c] \in 0 .. Timeout + 1 /\ ran'[c] \in 0 .. Timeout + 1 /\ left'[c] \in 0 .. Stuck
    BY <2>1, <2>2, <2>3, Numbers
  <2> QED
    BY <2>7, <2>8, <2>9, <2>10, <2>11 DEF Kept
<1>4. /\ age' = [c \in Clients |-> age'[c]] /\ ran' = [c \in Clients |-> ran'[c]]
      /\ left' = [c \in Clients |-> left'[c]]
  BY DEF Tick
<1>5. TypeOK'
  BY <1>1, <1>2, <1>3, <1>4 DEF IInv, TypeOK
<1>6. GraceHonoured' /\ ServeOver'
  BY <1>1 DEF IInv, GraceHonoured, ServeOver
<1> QED
  BY <1>1, <1>2, <1>3, <1>5, <1>6 DEF IInv
-----------------------------------------------------------------------------
LEMMA NextKeeps == IInv /\ [Next]_vars => IInv'
<1> SUFFICES ASSUME IInv, [Next]_vars PROVE IInv'
  OBVIOUS
<1>1. CASE Test \/ Bind \/ Register
  BY <1>1, ListenerKeeps
<1>2. CASE Shutdown \/ CloseListener \/ Exit
  BY <1>2, ShutdownKeeps, CloseListenerKeeps, ExitKeeps
<1>3. CASE Tick
  BY <1>3, TickKeeps
<1>4. ASSUME NEW c \in Clients, Connect(c) \/ Accept(c) \/ FirstByte(c) PROVE IInv'
  BY <1>4, PeerKeeps
<1>5. ASSUME NEW c \in Clients, Leave(c) \/ ReadExpires(c) \/ CloseIdle(c) PROVE IInv'
  BY <1>5, DropKeeps DEF Leave, ReadExpires, CloseIdle
<1>6. ASSUME NEW c \in Clients, StartHandler(c) \/ NextRequestComes(c) PROVE IInv'
  BY <1>6, StartHandlerKeeps, NextRequestKeeps
<1>7. ASSUME NEW c \in Clients, ReadDeadline(c) \/ Abandon(c) \/ EndHandler(c) PROVE IInv'
  BY <1>7, ReadDeadlineKeeps, AbandonKeeps, EndHandlerKeeps
<1>8. CASE UNCHANGED vars
  <2> USE <1>8 DEF vars
  <2>1. \A c \in Clients : Kept(c)'
    BY DEF IInv, Kept, DebtKept, HeaderInTime, StopsInTime, KilledLast
  <2>2. TypeOK' /\ GraceHonoured' /\ ServeOver'
    BY DEF IInv, TypeOK, GraceHonoured, ServeOver
  <2> QED
    BY <2>1, <2>2 DEF IInv
<1> QED
  BY <1>1, <1>2, <1>3, <1>4, <1>5, <1>6, <1>7, <1>8 DEF Next

\* The process's accounts of its requests always add up: IInv is inductive.
THEOREM InductiveInvariant == Spec => []IInv
<1>1. Init => IInv
  BY InitIInv
<1>2. IInv /\ [Next]_vars => IInv'
  BY NextKeeps
<1> QED
  BY <1>1, <1>2, PTL DEF Spec

\* Types, clocks and Shutdown's end, whatever the numbers.
THEOREM TypeCorrect == Spec => []TypeOK
<1>1. IInv => TypeOK
  BY DEF IInv
<1> QED
  BY <1>1, InductiveInvariant, PTL

\* Shutdown's grace (main.go:138): a request is lost with the process only if,
\* when the signal came, its handler had at least Drain ticks still to take or had
\* not begun, or if its own client keeps the answer waiting for a body.
THEOREM GraceKept == Spec => []GraceHonoured
<1>1. IInv => GraceHonoured
  BY DEF IInv
<1> QED
  BY <1>1, InductiveInvariant, PTL

\* Nobody joins those Shutdown waits for, though ListenAndServe (main.go:130) may
\* be anywhere between its test, the bound port and the registered listener when
\* the signal comes.
THEOREM NobodyJoins == Spec => NobodyJoinsTheDrain
<1>1. ASSUME IInv, [Next]_vars, main = "draining", NEW c \in Clients, conn'[c] = "new",
             conn[c] # "new"
      PROVE  FALSE
  <2>1. listener # "serving"
    BY <1>1 DEF IInv, ServeOver
  <2>2. conn \in [Clients -> ConnStates]
    BY <1>1 DEF IInv, TypeOK
  <2>3. PICK d \in Clients :
          \/ Connect(d) \/ Accept(d) \/ FirstByte(d) \/ Leave(d) \/ ReadExpires(d) \/ CloseIdle(d)
          \/ StartHandler(d) \/ NextRequestComes(d) \/ ReadDeadline(d) \/ Abandon(d) \/ EndHandler(d)
    <3>1. ~(UNCHANGED conn)
      BY <1>1
    <3>2. ~(Test \/ Bind \/ Register \/ Shutdown \/ CloseListener \/ Exit \/ Tick)
      BY <1>1, <2>2 DEF Test, Bind, Register, Shutdown, CloseListener, Exit, Tick, ClosePort, connVars
    <3> QED
      BY <1>1, <3>1, <3>2 DEF Next, vars
  <2>4. ~Accept(d)
    BY <2>1 DEF Accept
  <2>5. \E state \in ConnStates \ {"new"} : conn' = [conn EXCEPT ![d] = state]
    <3>1. CASE Connect(d) \/ FirstByte(d)
      BY <3>1 DEF Connect, FirstByte, Enter, ConnStates
    <3>2. CASE Leave(d) \/ ReadExpires(d) \/ CloseIdle(d)
      BY <3>2 DEF Leave, ReadExpires, CloseIdle, Drop, Enter, ConnStates
    <3>3. CASE StartHandler(d) \/ Abandon(d)
      BY <3>3 DEF StartHandler, Abandon, ConnStates
    <3>4. CASE NextRequestComes(d) \/ ReadDeadline(d)
      BY <1>1, <3>4 DEF NextRequestComes, ReadDeadline
    <3>5. CASE EndHandler(d)
      BY <3>5 DEF EndHandler, Reply, Lost, Drop, Enter, ConnStates
    <3> QED
      BY <2>3, <2>4, <3>1, <3>2, <3>3, <3>4, <3>5
  <2> QED
    BY <1>1, <2>2, <2>5
<1>2. IInv /\ [Next]_vars =>
        [main = "draining" => \A c \in Clients : conn'[c] = "new" => conn[c] = "new"]_vars
  BY <1>1
<1> QED
  BY <1>2, InductiveInvariant, PTL DEF Spec, NobodyJoinsTheDrain

\* The read deadline (main.go:119) ends a watched handler before the write deadline
\* (main.go:121) does, unless the header came faster than the handler stops.
THEOREM AnswersInTime == Spec => WatchedAnswersInTime
<1>1. ASSUME IInv, [Next]_vars, NEW c \in Clients, outcome[c] # "lost", outcome'[c] = "lost",
             watch[c] \in {"on", "fired"}
      PROVE  header[c] <= Lag
  <2>1. outcome \in [Clients -> {"none", "lost", "killed"}]
    BY <1>1 DEF IInv, TypeOK
  <2>2. conn[c] = "running" /\ Lost(c) /\ left[c] = 0
    <3>1. ~(UNCHANGED outcome)
      BY <1>1
    <3>2. ~(Test \/ Bind \/ Register \/ Shutdown \/ CloseListener \/ Exit \/ Tick)
      BY <1>1, <2>1 DEF Test, Bind, Register, Shutdown, CloseListener, Exit, Tick, connVars
    <3>3. PICK d \in Clients :
            \/ Connect(d) \/ Accept(d) \/ FirstByte(d) \/ Leave(d) \/ ReadExpires(d) \/ CloseIdle(d)
            \/ StartHandler(d) \/ NextRequestComes(d) \/ ReadDeadline(d) \/ Abandon(d) \/ EndHandler(d)
      BY <1>1, <3>1, <3>2 DEF Next, vars
    <3>4. ~(outcome' = [outcome EXCEPT ![d] = "none"])
      BY <1>1, <2>1
    <3>5. EndHandler(d)
      BY <3>1, <3>3, <3>4 DEF Connect, Accept, FirstByte, Leave, ReadExpires, CloseIdle, Drop,
           StartHandler, NextRequestComes, ReadDeadline, Abandon
    <3>6. conn[d] = "running" /\ Lost(d) /\ left[d] = 0
      BY <3>4, <3>5 DEF EndHandler, Reply, Drop
    <3>7. d = c
      BY <1>1, <2>1, <3>6 DEF Lost
    <3> QED
      BY <3>6, <3>7
  <2>3. ran[c] >= Timeout
    BY <2>2 DEF Lost
  <2>4. /\ age[c] \in 0 .. Timeout + 1 /\ ran[c] \in 0 .. Timeout + 1 /\ header[c] \in 0 .. Timeout
        /\ left[c] = 0
    BY <1>1, <2>2 DEF IInv, TypeOK
  <2>5. StopsInTime(c)
    BY <1>1 DEF IInv, Kept
  <2> QED
    BY <1>1, <2>2, <2>3, <2>4, <2>5, Numbers DEF StopsInTime
<1>2. IInv /\ [Next]_vars =>
        [\A c \in Clients :
           outcome[c] # "lost" /\ outcome'[c] = "lost" /\ watch[c] \in {"on", "fired"}
             => header[c] <= Lag]_vars
  BY <1>1
<1> QED
  BY <1>2, InductiveInvariant, PTL DEF Spec, WatchedAnswersInTime
=============================================================================
