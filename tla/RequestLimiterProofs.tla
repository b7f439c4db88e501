------------------------- MODULE RequestLimiterProofs -------------------------
(***************************************************************************)
(* What the fixed window of IsAllowed gives a client and takes from it,    *)
(* for any clients, any limit and any length of the window.  The argument: *)
(* an entry counts exactly what passed since it was opened, and before     *)
(* that, as far back as a window reaches, only one other entry was open.   *)
(***************************************************************************)
EXTENDS RequestLimiter, TLAPS

Ages == 0 .. Window

\* A longer look back sees no less.
Monotone(c) == \A m, n \in Ages : m <= n => passed[c][m] <= passed[c][n]

\* The entry counts what passed since it was opened.
CountsItsWindow(c) == Live(c) => entries[c].count = passed[c][entries[c].age]

\* What passed before the entry was opened fills at most one more window.
OneWindowBefore(c) ==
  Live(c) => \A n \in Ages : n >= entries[c].age => passed[c][n] <= entries[c].count + MaxRequests

\* Without a live entry nothing has passed since the last tick, and no more than
\* one window's requests since the last Window ticks.
AtRest(c) == ~Live(c) => passed[c][0] = 0 /\ passed[c][Window] <= MaxRequests

Accounts(c) == Monotone(c) /\ CountsItsWindow(c) /\ OneWindowBefore(c) /\ AtRest(c)

IInv == TypeOK /\ \A c \in Clients : Accounts(c)

LEMMA Numbers == /\ MaxRequests \in Nat /\ MaxRequests > 0 /\ Window \in Nat /\ Window > 0
                 /\ 0 \in Ages /\ Window \in Ages
  BY WindowAssumption DEF Ages
-----------------------------------------------------------------------------
(* What a request and the clock do to one client's entry and history. *)

\* The types in the form the steps below need.
LEMMA Entry ==
  ASSUME TypeOK, NEW c \in Clients
  PROVE  /\ \A n \in Ages : passed[c][n] \in Nat
         /\ Known(c) => /\ entries[c].count \in 1 .. MaxRequests
                        /\ entries[c].age \in 0 .. Window + 1
                        /\ entries[c] = [count |-> entries[c].count, age |-> entries[c].age]
         /\ Live(c) => entries[c].age \in Ages
  BY Numbers DEF TypeOK, Known, Live, Ages

LEMMA PutKeepsTypes ==
  ASSUME TypeOK, NEW c \in Clients, NEW e \in [count : 1 .. MaxRequests, age : 0 .. Window + 1],
         Put(c, e), Pass(c)
  PROVE  /\ TypeOK'
         /\ Known(c)' /\ entries'[c] = e
         /\ passed'[c] = [n \in Ages |-> passed[c][n] + 1]
         /\ \A d \in Clients \ {c} :
              (Known(d)' <=> Known(d)) /\ (Known(d) => entries'[d] = entries[d]) /\ passed'[d] = passed[d]
<1>1. DOMAIN entries' = DOMAIN entries \cup {c}
  BY DEF Put
<1>2. \A d \in DOMAIN entries' : entries'[d] = IF d = c THEN e ELSE entries[d]
  BY <1>1 DEF Put
<1>3. passed'[c] = [n \in Ages |-> passed[c][n] + 1]
  BY DEF Pass, TypeOK, Ages
<1>4. passed'[c] \in [Ages -> Nat]
  <2>1. \A n \in Ages : passed[c][n] \in Nat
    BY Entry
  <2> QED
    BY <1>3, <2>1
<1>5. passed' \in [Clients -> [0 .. Window -> Nat]] /\ \A d \in Clients \ {c} : passed'[d] = passed[d]
  BY <1>4 DEF Pass, TypeOK, Ages
<1>6. verdict' \in [Clients -> {"none", "allowed", "refused"}]
  BY DEF Pass, TypeOK
<1>7. TypeOK'
  BY <1>1, <1>2, <1>5, <1>6 DEF TypeOK
<1> QED
  BY <1>1, <1>2, <1>3, <1>5, <1>7 DEF Known

\* A client's accounts depend on its own entry and history only.
LEMMA OthersUntouched ==
  ASSUME NEW d, Accounts(d), Known(d)' <=> Known(d), Known(d) => entries'[d] = entries[d],
         passed'[d] = passed[d]
  PROVE  Accounts(d)'
  BY DEF Accounts, Monotone, CountsItsWindow, OneWindowBefore, AtRest, Live

LEMMA OpenWindowKeeps ==
  ASSUME IInv, NEW c \in Clients, OpenWindow(c)
  PROVE  IInv'
<1> DEFINE e == [count |-> 1, age |-> 0]
<1>1. e \in [count : 1 .. MaxRequests, age : 0 .. Window + 1]
  BY Numbers
<1>2. TypeOK /\ Put(c, e) /\ Pass(c) /\ ~Live(c) /\ Accounts(c)
  BY DEF IInv, OpenWindow
<1>3. /\ TypeOK' /\ Known(c)' /\ entries'[c] = e
      /\ passed'[c] = [n \in Ages |-> passed[c][n] + 1]
      /\ \A d \in Clients \ {c} :
           (Known(d)' <=> Known(d)) /\ (Known(d) => entries'[d] = entries[d]) /\ passed'[d] = passed[d]
  BY <1>1, <1>2, PutKeepsTypes
<1>4. \A n \in Ages : passed[c][n] \in Nat
  BY <1>2, Entry
<1>5. Monotone(c)'
  BY <1>2, <1>3, <1>4 DEF Accounts, Monotone
<1>6. CountsItsWindow(c)'
  BY <1>2, <1>3, Numbers DEF Accounts, AtRest, CountsItsWindow
<1>7. OneWindowBefore(c)'
  <2>1. \A n \in Ages : passed[c][n] <= passed[c][Window] /\ passed[c][Window] <= MaxRequests
    BY <1>2, Numbers DEF Accounts, AtRest, Monotone, Ages
  <2>2. ASSUME NEW n \in Ages PROVE passed'[c][n] <= 1 + MaxRequests
    <3>1. passed'[c][n] = passed[c][n] + 1
      BY <1>3
    <3>2. passed[c][n] \in Nat /\ passed[c][Window] \in Nat /\ MaxRequests \in Nat
      BY <1>4, Numbers
    <3> QED
      BY <2>1, <3>1, <3>2
  <2> QED
    BY <1>3, <2>2 DEF OneWindowBefore
<1>8. AtRest(c)'
  BY <1>3, Numbers DEF AtRest, Live
<1>9. \A d \in Clients \ {c} : Accounts(d)'
  BY <1>3, OthersUntouched DEF IInv
<1> QED
  BY <1>3, <1>5, <1>6, <1>7, <1>8, <1>9 DEF IInv, Accounts

LEMMA CountKeeps ==
  ASSUME IInv, NEW c \in Clients, Count(c)
  PROVE  IInv'
<1> DEFINE e == [entries[c] EXCEPT !.count = @ + 1]
<1>1. TypeOK /\ Put(c, e) /\ Pass(c) /\ Live(c) /\ entries[c].count < MaxRequests /\ Accounts(c)
  BY DEF IInv, Count
<1>2. /\ \A n \in Ages : passed[c][n] \in Nat
      /\ entries[c].count \in 1 .. MaxRequests /\ entries[c].age \in Ages
      /\ e = [count |-> entries[c].count + 1, age |-> entries[c].age]
  <2>1. /\ \A n \in Ages : passed[c][n] \in Nat
        /\ entries[c].count \in 1 .. MaxRequests /\ entries[c].age \in Ages
        /\ entries[c] = [count |-> entries[c].count, age |-> entries[c].age]
    BY <1>1, Entry DEF Live
  <2> QED
    BY <2>1
<1>3. e \in [count : 1 .. MaxRequests, age : 0 .. Window + 1]
  BY <1>1, <1>2, Numbers DEF Ages
<1> HIDE DEF e
<1>4. /\ TypeOK' /\ Known(c)' /\ entries'[c] = e
      /\ passed'[c] = [n \in Ages |-> passed[c][n] + 1]
      /\ \A d \in Clients \ {c} :
           (Known(d)' <=> Known(d)) /\ (Known(d) => entries'[d] = entries[d]) /\ passed'[d] = passed[d]
  BY <1>1, <1>3, PutKeepsTypes
<1>5. e.age = entries[c].age /\ e.count = entries[c].count + 1
  BY <1>2
<1>6. Monotone(c)'
  BY <1>1, <1>2, <1>4 DEF Accounts, Monotone
<1>7. CountsItsWindow(c)'
  BY <1>1, <1>2, <1>4, <1>5 DEF Accounts, CountsItsWindow
<1>8. OneWindowBefore(c)'
  <2>1. \A n \in Ages : n >= e.age => passed[c][n] <= entries[c].count + MaxRequests
    BY <1>1, <1>5 DEF Accounts, OneWindowBefore
  <2>2. \A n \in Ages : n >= e.age => passed'[c][n] <= e.count + MaxRequests
    BY <1>2, <1>4, <1>5, <2>1, Numbers
  <2> QED
    BY <1>4, <2>2 DEF OneWindowBefore
<1>9. AtRest(c)'
  BY <1>1, <1>4, <1>5 DEF AtRest, Live
<1>10. \A d \in Clients \ {c} : Accounts(d)'
  BY <1>4, OthersUntouched DEF IInv
<1> QED
  BY <1>4, <1>6, <1>7, <1>8, <1>9, <1>10 DEF IInv, Accounts

\* The sweep deletes no entry that is live.
LEMMA CleanupKeeps ==
  ASSUME IInv, Cleanup
  PROVE  IInv'
<1>1. DOMAIN entries' = {d \in DOMAIN entries : Live(d)}
  BY DEF Cleanup
<1>2. \A d \in DOMAIN entries' : entries'[d] = entries[d] /\ Live(d)
  BY <1>1 DEF Cleanup
<1>3. TypeOK'
  BY <1>1, <1>2 DEF IInv, TypeOK, Cleanup
<1>4. ASSUME NEW c \in Clients PROVE Accounts(c)'
  <2>1. Live(c)' <=> Live(c)
    BY <1>1, <1>2 DEF Live, Known
  <2>2. Live(c) => entries'[c] = entries[c]
    BY <1>1, <1>2 DEF Live, Known
  <2>3. Accounts(c) /\ passed' = passed
    BY DEF IInv, Cleanup
  <2> QED
    BY <2>1, <2>2, <2>3 DEF Accounts, Monotone, CountsItsWindow, OneWindowBefore, AtRest
<1> QED
  BY <1>3, <1>4 DEF IInv

\* The clock: every age moves one on, and with it the history.
LEMMA TickKeeps ==
  ASSUME IInv, Tick
  PROVE  IInv'
<1>1. DOMAIN entries' = DOMAIN entries
  BY DEF Tick
<1>2. \A c \in DOMAIN entries :
        entries'[c] = [count |-> entries[c].count,
                       age |-> IF entries[c].age > Window THEN entries[c].age ELSE entries[c].age + 1]
  <2> TAKE c \in DOMAIN entries
  <2>1. c \in Clients
    BY DEF IInv, TypeOK
  <2>2. entries[c] = [count |-> entries[c].count, age |-> entries[c].age]
    BY <2>1, Entry DEF IInv, Known
  <2>3. entries'[c] = [entries[c] EXCEPT !.age = IF @ > Window THEN @ ELSE @ + 1]
    BY DEF Tick
  <2> QED
    BY <2>2, <2>3
<1>3. \A c \in Clients :
        passed'[c] = [n \in Ages |-> IF n = 0 THEN 0 ELSE passed[c][n - 1]]
  BY DEF Tick, Ages
<1>4. TypeOK'
  <2>1. \A c \in DOMAIN entries' : entries'[c] \in [count : 1 .. MaxRequests, age : 0 .. Window + 1]
    BY <1>1, <1>2, Entry, Numbers DEF IInv, TypeOK, Known
  <2>2. \A c \in Clients : passed'[c] \in [Ages -> Nat]
    <3> TAKE c \in Clients
    <3>1. \A n \in Ages : n # 0 => n - 1 \in Ages
      BY Numbers DEF Ages
    <3>2. \A n \in Ages : (IF n = 0 THEN 0 ELSE passed[c][n - 1]) \in Nat
      BY <3>1, Entry DEF IInv
    <3>3. [n \in Ages |-> IF n = 0 THEN 0 ELSE passed[c][n - 1]] \in [Ages -> Nat]
      BY <3>2
    <3> QED
      BY <1>3, <3>3, Zenon
  <2>3. passed' \in [Clients -> [0 .. Window -> Nat]]
    BY <2>2 DEF Tick, Ages
  <2> QED
    BY <1>1, <2>1, <2>3 DEF IInv, TypeOK, Tick
<1>5. ASSUME NEW c \in Clients PROVE Accounts(c)'
  <2>1. /\ \A n \in Ages : passed[c][n] \in Nat
        /\ \A n \in Ages : passed'[c][n] = IF n = 0 THEN 0 ELSE passed[c][n - 1]
        /\ Accounts(c) /\ TypeOK
    <3>1. \A n \in Ages : passed[c][n] \in Nat
      BY Entry DEF IInv
    <3>2. \A n \in Ages : passed'[c][n] = IF n = 0 THEN 0 ELSE passed[c][n - 1]
      <4>1. passed'[c] = [n \in Ages |-> IF n = 0 THEN 0 ELSE passed[c][n - 1]]
        BY <1>3
      <4> QED
        BY <4>1
    <3> QED
      BY <3>1, <3>2 DEF IInv
  <2>2. Monotone(c)'
    <3> SUFFICES ASSUME NEW m \in Ages, NEW n \in Ages, m <= n
                 PROVE  passed'[c][m] <= passed'[c][n]
      BY DEF Monotone
    <3>1. CASE m = 0
      <4>1. passed'[c][m] = 0
        BY <2>1, <3>1
      <4>2. n # 0 => n - 1 \in Ages
        BY Numbers DEF Ages
      <4>3. passed'[c][n] \in Nat
        BY <2>1, <4>2
      <4> QED
        BY <4>1, <4>3
    <3>2. CASE m > 0
      <4>1. m - 1 \in Ages /\ n - 1 \in Ages /\ m - 1 <= n - 1 /\ m # 0 /\ n # 0
        BY <3>2, Numbers DEF Ages
      <4> QED
        BY <2>1, <4>1 DEF Accounts, Monotone
    <3> QED
      BY <3>1, <3>2 DEF Ages
  <2>3. \A n \in Ages : passed'[c][n] <= passed[c][Window]
    <3> TAKE n \in Ages
    <3>1. CASE n = 0
      BY <2>1, <3>1, Numbers
    <3>2. CASE n > 0
      <4>1. n - 1 \in Ages /\ n - 1 <= Window /\ n # 0
        BY <3>2, Numbers DEF Ages
      <4> QED
        BY <2>1, <4>1, Numbers DEF Accounts, Monotone
    <3> QED
      BY <3>1, <3>2 DEF Ages
  <2>4. CASE Live(c)'
    <3>1. /\ Live(c) /\ entries'[c].count = entries[c].count
          /\ entries'[c].age = entries[c].age + 1 /\ entries[c].age + 1 \in Ages
          /\ entries[c].age \in Ages /\ entries[c].count \in Nat
      <4>1. /\ Known(c) /\ entries'[c].count = entries[c].count
            /\ entries'[c].age = (IF entries[c].age > Window THEN entries[c].age ELSE entries[c].age + 1)
            /\ entries'[c].age <= Window
        BY <1>1, <1>2, <2>4 DEF Live, Known
      <4>2. entries[c].age \in 0 .. Window + 1 /\ entries[c].count \in 1 .. MaxRequests
        BY <2>1, <4>1, Entry
      <4> QED
        BY <4>1, <4>2, Numbers DEF Live, Ages
    <3> DEFINE k == entries[c].age
    <3>2. CountsItsWindow(c)'
      <4>1. passed'[c][k + 1] = passed[c][k]
        BY <2>1, <3>1 DEF Ages
      <4> QED
        BY <2>1, <3>1, <4>1 DEF Accounts, CountsItsWindow
    <3>3. OneWindowBefore(c)'
      <4> SUFFICES ASSUME NEW n \in Ages, n >= k + 1
                   PROVE  passed'[c][n] <= entries[c].count + MaxRequests
        BY <3>1 DEF OneWindowBefore
      <4>1. n # 0 /\ n - 1 \in Ages /\ n - 1 >= k
        BY <3>1, Numbers DEF Ages
      <4> QED
        BY <2>1, <3>1, <4>1 DEF Accounts, OneWindowBefore
    <3> QED
      BY <2>2, <2>4, <3>2, <3>3 DEF Accounts, AtRest
  <2>5. CASE ~Live(c)'
    <3>1. passed'[c][0] = 0
      BY <2>1, Numbers
    <3>2. passed[c][Window - 1] <= MaxRequests
      <4>1. Window - 1 \in Ages /\ Window - 1 <= Window
        BY Numbers DEF Ages
      <4>2. CASE Live(c)
        <5>1. entries[c].age = Window /\ entries[c].count \in 1 .. MaxRequests
          <6>1. /\ Known(c) /\ Known(c)' /\ entries[c].age <= Window
                /\ entries'[c].age = (IF entries[c].age > Window THEN entries[c].age ELSE entries[c].age + 1)
            BY <1>1, <1>2, <4>2 DEF Live, Known
          <6>2. entries[c].age \in 0 .. Window + 1 /\ entries[c].count \in 1 .. MaxRequests
            BY <2>1, <6>1, Entry
          <6>3. ~(entries'[c].age <= Window)
            BY <2>5, <6>1 DEF Live
          <6> QED
            BY <6>1, <6>2, <6>3, Numbers
        <5>2. passed[c][Window] <= MaxRequests
          BY <2>1, <4>2, <5>1, Numbers DEF Accounts, CountsItsWindow
        <5> QED
          BY <2>1, <4>1, <5>2, Numbers DEF Accounts, Monotone
      <4>3. CASE ~Live(c)
        BY <2>1, <4>1, <4>3, Numbers DEF Accounts, AtRest, Monotone
      <4> QED
        BY <4>2, <4>3
    <3>3. passed'[c][Window] <= MaxRequests
      BY <2>1, <3>2, Numbers
    <3> QED
      BY <2>2, <2>5, <3>1, <3>3 DEF Accounts, CountsItsWindow, OneWindowBefore, AtRest
  <2> QED
    BY <2>4, <2>5
<1> QED
  BY <1>4, <1>5 DEF IInv
-----------------------------------------------------------------------------
LEMMA InitIInv == Init => IInv
<1> SUFFICES ASSUME Init PROVE IInv
  OBVIOUS
<1>1. TypeOK
  BY DEF Init, TypeOK
<1>2. \A c \in Clients : ~Live(c) /\ \A n \in Ages : passed[c][n] = 0
  BY DEF Init, Live, Known, Ages
<1> QED
  BY <1>1, <1>2, Numbers DEF IInv, Accounts, Monotone, CountsItsWindow, OneWindowBefore, AtRest

LEMMA NextKeeps == IInv /\ [Next]_vars => IInv'
<1> SUFFICES ASSUME IInv, [Next]_vars PROVE IInv'
  OBVIOUS
<1>1. ASSUME NEW c \in Clients, Request(c) PROVE IInv'
  <2>1. CASE Refuse(c)
    <3>1. TypeOK'
      BY <2>1 DEF Refuse, IInv, TypeOK
    <3> QED
      BY <2>1, <3>1 DEF Refuse, IInv, Accounts, Monotone, CountsItsWindow, OneWindowBefore,
         AtRest, Live, Known
  <2> QED
    BY <1>1, <2>1, OpenWindowKeeps, CountKeeps DEF Request
<1>2. CASE UNCHANGED vars
  BY <1>2 DEF vars, IInv, TypeOK, Accounts, Monotone, CountsItsWindow, OneWindowBefore,
     AtRest, Live, Known
<1> QED
  BY <1>1, <1>2, CleanupKeeps, TickKeeps DEF Next

\* The accounts of all clients are kept through every order of requests, sweeps
\* and ticks of the clock (rate-limiter.go, IsAllowed and cleanupExpiredEntries).
THEOREM InductiveInvariant == Spec => []IInv
  BY InitIInv, NextKeeps, PTL DEF Spec

\* No window counts more requests than the limit.
THEOREM TypeCorrect == Spec => []TypeOK
<1>1. IInv => TypeOK
  BY DEF IInv
<1> QED
  BY <1>1, InductiveInvariant, PTL

\* However a client times its requests, and whenever the sweep runs, at most twice
\* the limit passes in any stretch of time as long as the window.
THEOREM TwiceTheLimit == Spec => []BurstBounded
<1>1. IInv => BurstBounded
  <2> SUFFICES ASSUME IInv, NEW c \in Clients PROVE passed[c][Window] <= 2 * MaxRequests
    BY DEF BurstBounded
  <2>1. passed[c][Window] \in Nat
    BY Entry, Numbers DEF IInv
  <2>2. CASE Live(c)
    <3>1. entries[c].count \in 1 .. MaxRequests /\ Window >= entries[c].age
      BY <2>2, Entry, Numbers DEF IInv, Live, Ages
    <3>2. passed[c][Window] <= entries[c].count + MaxRequests
      BY <2>2, <3>1, Numbers DEF IInv, Accounts, OneWindowBefore
    <3> QED
      BY <2>1, <3>1, <3>2, Numbers
  <2>3. CASE ~Live(c)
    BY <2>1, <2>3, Numbers DEF IInv, Accounts, AtRest
  <2> QED
    BY <2>2, <2>3
<1> QED
  BY <1>1, InductiveInvariant, PTL

\* Who is refused has had the whole limit within the last window: other clients,
\* refused requests and old entries cost nothing.
THEOREM RefusalJustified == Spec => RefusedOnlyOverQuota
<1>1. IInv /\ [Next]_vars =>
        [\A c \in Clients :
           verdict[c] # "refused" /\ verdict'[c] = "refused" => passed[c][Window] >= MaxRequests]_vars
  <2> SUFFICES ASSUME IInv, Next, NEW c \in Clients, verdict[c] # "refused", verdict'[c] = "refused"
               PROVE  passed[c][Window] >= MaxRequests
    OBVIOUS
  <2>1. ~Cleanup /\ ~Tick
    BY DEF Cleanup, Tick
  <2>2. PICK d \in Clients : Request(d)
    BY <2>1 DEF Next
  <2>3. Refuse(d) /\ d = c
    BY <2>2 DEF Request, OpenWindow, Count, Refuse, Pass, IInv, TypeOK
  <2>4. /\ entries[c].count >= MaxRequests /\ entries[c].count \in 1 .. MaxRequests
        /\ entries[c].age \in Ages /\ \A n \in Ages : passed[c][n] \in Nat
        /\ entries[c].count = passed[c][entries[c].age]
    BY <2>3, Entry DEF Refuse, Live, IInv, Accounts, CountsItsWindow
  <2>5. passed[c][entries[c].age] <= passed[c][Window]
    BY <2>4, Numbers DEF IInv, Accounts, Monotone, Ages
  <2> QED
    BY <2>4, <2>5, Numbers
<1> QED
  BY <1>1, InductiveInvariant, PTL DEF Spec, RefusedOnlyOverQuota
=============================================================================
