-------------------------- MODULE SummaryServiceProofs --------------------------
(***************************************************************************)
(* The flights, the answers and the slots of GetSummary, for any finite    *)
(* number of requests, pages and hosts.  The invariant has a part for each *)
(* of the three, and the parts are shown to survive every action one after *)
(* the other.                                                              *)
(***************************************************************************)
EXTENDS SummaryService, FiniteSetTheorems, TLAPS

\* An entry belongs to the leader that put it there and is in the map for as
\* long as that leader leads; whoever refers to it asks for the same page.
Flights ==
  /\ OneFlightPerUrl
  /\ \A u \in Urls : inflight[u] # Nil => target[inflight[u]] = u /\ Leading(inflight[u])
  /\ \A r \in Requests :
       /\ pc[r] \in {"new", "get", "join"} => flight[r] = Nil
       /\ Leading(r) => flight[r] = r
       /\ pc[r] = "following" => flight[r] # Nil
       /\ flight[r] # Nil =>
            /\ flight[flight[r]] = flight[r] /\ target[flight[r]] = target[r]
            /\ Leading(flight[r]) \/ pc[flight[r]] = "finished"

BeforePublish ==
  {"new", "get", "join", "following", "acquire", "waiting", "slot", "scraping"}

\* What a request answers is an error, or what its flight has published, or a
\* cached preview.
Answered(r) ==
  /\ pc[r] \in BeforePublish \cup {"publish", "store"} => answer[r] = "none"
  /\ pc[r] = "giveSlot" => answer[r] = result[r]
  /\ pc[r] \in {"release", "forget", "finished"} /\ flight[r] # Nil =>
       answer[r] = "error" \/ (flight[r] \in done /\ answer[r] = result[flight[r]])
  /\ pc[r] = "finished" /\ flight[r] = Nil =>
       answer[r] \in done /\ target[answer[r]] = target[r]

\* What a leader has made of its entry.
Filled(r) ==
  /\ result[r] \in {Nil, r}
  /\ r \in done => flight[r] = r /\ pc[r] \in {"store", "giveSlot", "release", "forget", "finished"}
  /\ pc[r] \in {"store", "giveSlot"} => r \in done
  /\ pc[r] \in BeforePublish => tried[r] < Handlers[target[r]]
  /\ (pc[r] = "publish" \/ r \in done) /\ result[r] = Nil /\ target[r] \in HealthyUrls => ctxDone[r]

Answers ==
  /\ \A r \in Requests : Filled(r) /\ Answered(r)
  /\ \A u \in Urls : cache[u] # Nil => cache[u] \in done /\ target[cache[u]] = u

IInv == TypeOK /\ Flights /\ Answers /\ NoSlotLeaks

\* The disjuncts of Next.
LEMMA NextSteps ==
  ASSUME Next
  PROVE  \/ \E r \in Requests :
              \/ Arrive(r) \/ ClientGone(r) \/ CacheHit(r) \/ CacheMiss(r) \/ Lead(r) \/ Follow(r)
              \/ FollowerServed(r) \/ FollowerCancelled(r)
              \/ Refused(r) \/ Admitted(r) \/ Granted(r) \/ AcquireCancelled(r) \/ TakeSlot(r)
              \/ SlotCancelled(r) \/ ScraperSucceeds(r) \/ ScraperFails(r)
              \/ Publish(r) \/ Store(r) \/ GiveSlot(r) \/ ReleaseHost(r) \/ Forget(r)
              \/ \E h \in Hosts : Meets429(r, h)
         \/ \E u \in Urls : Expire(u)
         \/ Tick
  BY ServiceAssumption DEF Next, Joining, Entering, Scraping, Leaving

\* Who is in the global semaphore is counted, so giving back does not underflow.
LEMMA SlotsPositive ==
  ASSUME TypeOK, NoSlotLeaks, NEW r \in Requests, InSlot(r)
  PROVE  slots - 1 \in 0 .. MaxConcurrency
<1> DEFINE inside == {q \in Requests : InSlot(q)}
<1>1. IsFiniteSet(inside)
  BY ServiceAssumption, FS_Subset
<1>2. Cardinality(inside) # 0
  BY <1>1, FS_EmptySet
<1>3. slots = Cardinality(inside)
  BY DEF NoSlotLeaks
<1>4. slots \in Nat /\ slots <= MaxConcurrency /\ slots # 0 /\ MaxConcurrency \in Nat
  BY <1>2, <1>3, ServiceAssumption DEF TypeOK
<1> QED
  BY <1>4

LEMMA InitIInv == Init => IInv
<1> SUFFICES ASSUME Init PROVE IInv
  OBVIOUS
<1> USE DEF Init, Limiter!Init
<1>1. TypeOK
  BY ServiceAssumption DEF TypeOK
<1>2. Flights
  BY DEF Flights, OneFlightPerUrl, Leading
<1>3. Answers
  BY ServiceAssumption DEF Answers, Filled, Answered, BeforePublish
<1>4. NoSlotLeaks
  <2>1. {r \in Requests : InSlot(r)} = {}
    BY DEF InSlot
  <2> QED
    BY <2>1, FS_EmptySet DEF NoSlotLeaks, HasHost, InSlot
<1> QED
  BY <1>1, <1>2, <1>3, <1>4 DEF IInv
-----------------------------------------------------------------------------
\* Types.
LEMMA TypeKept == IInv /\ [Next]_vars => TypeOK'
<1> SUFFICES ASSUME IInv, [Next]_vars PROVE TypeOK'
  OBVIOUS
<1>1. ASSUME NEW r \in Requests, Arrive(r) \/ ClientGone(r) \/ CacheHit(r) \/ CacheMiss(r)
      PROVE  TypeOK'
  BY <1>1 DEF Arrive, ClientGone, CacheHit, CacheMiss, Step, Return, callVars, entryVars,
     limiterVars, IInv, TypeOK
<1>2. ASSUME NEW r \in Requests, Lead(r) \/ Follow(r) \/ FollowerServed(r) \/ FollowerCancelled(r)
      PROVE  TypeOK'
  BY <1>2 DEF Lead, Follow, FollowerServed, FollowerCancelled, Step, Return, callVars, entryVars,
     limiterVars, IInv, TypeOK, Flights
<1>3. ASSUME NEW r \in Requests,
             \/ Refused(r) \/ Admitted(r) \/ Granted(r) \/ AcquireCancelled(r) \/ SlotCancelled(r)
      PROVE  TypeOK'
  BY <1>3, ServiceAssumption DEF Refused, Admitted, Granted, AcquireCancelled, SlotCancelled, Step,
     Return, callVars, entryVars, limiterVars, IInv, TypeOK, Limiter!Refuse, Limiter!Admit,
     Limiter!Enter, Limiter!GiveUp
<1>4. ASSUME NEW r \in Requests, TakeSlot(r)
      PROVE  TypeOK'
  BY <1>4, ServiceAssumption DEF TakeSlot, Step, Return, callVars, entryVars, limiterVars, IInv,
     TypeOK
<1>5. ASSUME NEW r \in Requests, ScraperSucceeds(r) \/ Publish(r) \/ Store(r)
      PROVE  TypeOK'
  BY <1>5 DEF ScraperSucceeds, Publish, Store, Step, Return, callVars, entryVars, limiterVars,
     IInv, TypeOK
<1>6. ASSUME NEW r \in Requests, ScraperFails(r)
      PROVE  TypeOK'
  BY <1>6, ServiceAssumption DEF ScraperFails, Step, Return, callVars, entryVars, limiterVars,
     IInv, TypeOK, Answers, Filled, BeforePublish
<1>7. ASSUME NEW r \in Requests, GiveSlot(r)
      PROVE  TypeOK'
  BY <1>7, SlotsPositive, ServiceAssumption DEF GiveSlot, InSlot, Step, Return, callVars,
     entryVars, limiterVars, IInv, TypeOK
<1>8. ASSUME NEW r \in Requests, ReleaseHost(r) \/ Forget(r)
      PROVE  TypeOK'
  BY <1>8 DEF ReleaseHost, Forget, Step, Return, callVars, entryVars, limiterVars, IInv, TypeOK,
     Limiter!Leave
<1>9. ASSUME NEW r \in Requests, NEW h \in Hosts, Meets429(r, h) PROVE TypeOK'
  BY <1>9, ServiceAssumption DEF Meets429, Step, Return, callVars, entryVars, limiterVars, IInv,
     TypeOK, Limiter!Report
<1>10. ASSUME NEW u \in Urls, Expire(u) PROVE TypeOK'
  BY <1>10 DEF Expire, Step, Return, callVars, entryVars, limiterVars, IInv, TypeOK
<1>11. CASE Tick
  <2>1. \A h \in Hosts : remaining'[h] \in 0 .. Cooldown
    <3> SUFFICES ASSUME NEW h \in Hosts PROVE remaining'[h] \in 0 .. Cooldown
      OBVIOUS
    <3>1. remaining[h] \in 0 .. Cooldown /\ Cooldown \in Nat
      BY ServiceAssumption DEF IInv, TypeOK
    <3>2. remaining'[h] = IF remaining[h] = 0 THEN 0 ELSE remaining[h] - 1
      BY <1>11 DEF Tick, Limiter!Tick
    <3> QED
      BY <3>1, <3>2
  <2>2. remaining' \in [Hosts -> 0 .. Cooldown]
    BY <1>11, <2>1 DEF Tick, Limiter!Tick
  <2> QED
    BY <1>11, <2>2 DEF Tick, callVars, entryVars, IInv, TypeOK, Limiter!Tick
<1>12. CASE UNCHANGED vars
  BY <1>12 DEF vars, callVars, entryVars, limiterVars, IInv, TypeOK
<1> QED
  BY <1>1, <1>2, <1>3, <1>4, <1>5, <1>6, <1>7, <1>8, <1>9, <1>10, <1>11, <1>12, NextSteps

-----------------------------------------------------------------------------
\* Entries are made when there is none and removed by who made them.
LEMMA FlightsKept == IInv /\ [Next]_vars => Flights'
<1> SUFFICES ASSUME IInv, [Next]_vars PROVE Flights'
  OBVIOUS
<1>1. ASSUME NEW r \in Requests, Arrive(r) \/ ClientGone(r) \/ CacheHit(r) \/ CacheMiss(r)
      PROVE  Flights'
  BY <1>1 DEF Arrive, ClientGone, CacheHit, CacheMiss, Step, Return, callVars, entryVars,
     limiterVars, IInv, TypeOK, Flights, OneFlightPerUrl, Leading
<1>2. ASSUME NEW r \in Requests, Lead(r)
      PROVE  Flights'
  BY <1>2, ServiceAssumption DEF Lead, Step, Return, callVars, entryVars, limiterVars, IInv,
     TypeOK, Flights, OneFlightPerUrl, Leading
<1>3. ASSUME NEW r \in Requests, Follow(r)
      PROVE  Flights'
  BY <1>3 DEF Follow, Step, Return, callVars, entryVars, limiterVars, IInv, TypeOK, Flights,
     OneFlightPerUrl, Leading
<1>4. ASSUME NEW r \in Requests, FollowerServed(r) \/ FollowerCancelled(r)
      PROVE  Flights'
  BY <1>4 DEF FollowerServed, FollowerCancelled, Step, Return, callVars, entryVars, limiterVars,
     IInv, TypeOK, Flights, OneFlightPerUrl, Leading
<1>5. ASSUME NEW r \in Requests, Refused(r) \/ Admitted(r) \/ Granted(r) \/ AcquireCancelled(r)
      PROVE  Flights'
  BY <1>5 DEF Refused, Admitted, Granted, AcquireCancelled, Step, Return, callVars, entryVars,
     limiterVars, IInv, TypeOK, Flights, OneFlightPerUrl, Leading
<1>6. ASSUME NEW r \in Requests, TakeSlot(r) \/ SlotCancelled(r)
      PROVE  Flights'
  BY <1>6 DEF TakeSlot, SlotCancelled, Step, Return, callVars, entryVars, limiterVars, IInv,
     TypeOK, Flights, OneFlightPerUrl, Leading
<1>7. ASSUME NEW r \in Requests, ScraperSucceeds(r) \/ ScraperFails(r)
      PROVE  Flights'
  BY <1>7 DEF ScraperSucceeds, ScraperFails, Step, Return, callVars, entryVars, limiterVars, IInv,
     TypeOK, Flights, OneFlightPerUrl, Leading
<1>8. ASSUME NEW r \in Requests, Publish(r) \/ Store(r) \/ GiveSlot(r) \/ ReleaseHost(r)
      PROVE  Flights'
  BY <1>8 DEF Publish, Store, GiveSlot, ReleaseHost, Step, Return, callVars, entryVars,
     limiterVars, IInv, TypeOK, Flights, OneFlightPerUrl, Leading
<1>9. ASSUME NEW r \in Requests, Forget(r)
      PROVE  Flights'
  BY <1>9 DEF Forget, Step, Return, callVars, entryVars, limiterVars, IInv, TypeOK, Flights,
     OneFlightPerUrl, Leading
<1>10. ASSUME NEW r \in Requests, NEW h \in Hosts, Meets429(r, h) PROVE Flights'
  BY <1>10 DEF Meets429, Step, Return, callVars, entryVars, limiterVars, IInv, TypeOK, Flights,
     OneFlightPerUrl, Leading
<1>11. ASSUME NEW u \in Urls, Expire(u) PROVE Flights'
  BY <1>11 DEF Expire, Step, Return, callVars, entryVars, limiterVars, IInv, TypeOK, Flights,
     OneFlightPerUrl, Leading
<1>12. CASE Tick
  BY <1>12 DEF Tick, Step, Return, callVars, entryVars, limiterVars, IInv, TypeOK, Flights,
     OneFlightPerUrl, Leading
<1>13. CASE UNCHANGED vars
  BY <1>13 DEF vars, callVars, entryVars, limiterVars, IInv, Flights, OneFlightPerUrl, Leading
<1> QED
  BY <1>1, <1>2, <1>3, <1>4, <1>5, <1>6, <1>7, <1>8, <1>9, <1>10, <1>11, <1>12, <1>13, NextSteps

-----------------------------------------------------------------------------
\* An entry is filled before it is published and never afterwards.
LEMMA AnswersKept == IInv /\ [Next]_vars => Answers'
<1> SUFFICES ASSUME IInv, [Next]_vars PROVE Answers'
  OBVIOUS
<1>1. ASSUME NEW r \in Requests, Arrive(r) \/ ClientGone(r) \/ CacheMiss(r)
      PROVE  Answers'
  BY <1>1 DEF Arrive, ClientGone, CacheMiss, Step, Return, callVars, entryVars, limiterVars, IInv,
     TypeOK, Flights, Leading, Answers, Filled, Answered, BeforePublish
<1>2. ASSUME NEW r \in Requests, CacheHit(r)
      PROVE  Answers'
  BY <1>2 DEF CacheHit, Step, Return, callVars, entryVars, limiterVars, IInv, TypeOK, Flights,
     Leading, Answers, Filled, Answered, BeforePublish
<1>3. ASSUME NEW r \in Requests, Lead(r)
      PROVE  Answers'
  BY <1>3 DEF Lead, Step, Return, callVars, entryVars, limiterVars, IInv, TypeOK, Flights, Leading,
     Answers, Filled, Answered, BeforePublish
<1>4. ASSUME NEW r \in Requests, Follow(r)
      PROVE  Answers'
  BY <1>4 DEF Follow, Step, Return, callVars, entryVars, limiterVars, IInv, TypeOK, Flights,
     Leading, Answers, Filled, Answered, BeforePublish
<1>5. ASSUME NEW r \in Requests, FollowerServed(r)
      PROVE  Answers'
  BY <1>5 DEF FollowerServed, Step, Return, callVars, entryVars, limiterVars, IInv, TypeOK,
     Flights, Leading, Answers, Filled, Answered, BeforePublish
<1>6. ASSUME NEW r \in Requests, FollowerCancelled(r)
      PROVE  Answers'
  BY <1>6 DEF FollowerCancelled, Step, Return, callVars, entryVars, limiterVars, IInv, TypeOK,
     Flights, Leading, Answers, Filled, Answered, BeforePublish
<1>7. ASSUME NEW r \in Requests, Refused(r)
      PROVE  Answers'
  BY <1>7 DEF Refused, Step, Return, callVars, entryVars, limiterVars, IInv, TypeOK, Flights,
     Leading, Answers, Filled, Answered, BeforePublish
<1>8. ASSUME NEW r \in Requests, Admitted(r) \/ Granted(r)
      PROVE  Answers'
  BY <1>8 DEF Admitted, Granted, Step, Return, callVars, entryVars, limiterVars, IInv, TypeOK,
     Flights, Leading, Answers, Filled, Answered, BeforePublish
<1>9. ASSUME NEW r \in Requests, AcquireCancelled(r)
      PROVE  Answers'
  BY <1>9 DEF AcquireCancelled, Step, Return, callVars, entryVars, limiterVars, IInv, TypeOK,
     Flights, Leading, Answers, Filled, Answered, BeforePublish
<1>10. ASSUME NEW r \in Requests, TakeSlot(r)
      PROVE  Answers'
  BY <1>10 DEF TakeSlot, Step, Return, callVars, entryVars, limiterVars, IInv, TypeOK, Flights,
     Leading, Answers, Filled, Answered, BeforePublish
<1>11. ASSUME NEW r \in Requests, SlotCancelled(r)
      PROVE  Answers'
  BY <1>11 DEF SlotCancelled, Step, Return, callVars, entryVars, limiterVars, IInv, TypeOK,
     Flights, Leading, Answers, Filled, Answered, BeforePublish
<1>12. ASSUME NEW r \in Requests, ScraperSucceeds(r)
      PROVE  Answers'
  <2> USE <1>12 DEF ScraperSucceeds, Step, Return, callVars, entryVars, limiterVars
  <2>1. \A q \in Requests : Filled(q)'
    BY ServiceAssumption DEF IInv, TypeOK, Flights, Leading, Answers, Filled, BeforePublish
  <2>2. \A q \in Requests : Answered(q)'
    BY DEF IInv, TypeOK, Flights, Leading, Answers, Filled, Answered, BeforePublish
  <2>3. \A u \in Urls : cache'[u] # Nil => cache'[u] \in done' /\ target'[cache'[u]] = u
    BY DEF IInv, Answers
  <2> QED
    BY <2>1, <2>2, <2>3 DEF Answers
<1>13. ASSUME NEW r \in Requests, ScraperFails(r)
      PROVE  Answers'
  <2> USE <1>13 DEF ScraperFails, Step, Return, callVars, entryVars, limiterVars
  <2>1. \A q \in Requests : Filled(q)'
    BY ServiceAssumption DEF IInv, TypeOK, Flights, Leading, Answers, Filled, BeforePublish
  <2>2. \A q \in Requests : Answered(q)'
    BY DEF IInv, TypeOK, Flights, Leading, Answers, Filled, Answered, BeforePublish
  <2>3. \A u \in Urls : cache'[u] # Nil => cache'[u] \in done' /\ target'[cache'[u]] = u
    BY DEF IInv, Answers
  <2> QED
    BY <2>1, <2>2, <2>3 DEF Answers
<1>14. ASSUME NEW r \in Requests, Publish(r)
      PROVE  Answers'
  BY <1>14 DEF Publish, Step, Return, callVars, entryVars, limiterVars, IInv, TypeOK, Flights,
     Leading, Answers, Filled, Answered, BeforePublish
<1>15. ASSUME NEW r \in Requests, Store(r)
      PROVE  Answers'
  BY <1>15 DEF Store, Step, Return, callVars, entryVars, limiterVars, IInv, TypeOK, Flights,
     Leading, Answers, Filled, Answered, BeforePublish
<1>16. ASSUME NEW r \in Requests, GiveSlot(r)
      PROVE  Answers'
  BY <1>16 DEF GiveSlot, Step, Return, callVars, entryVars, limiterVars, IInv, TypeOK, Flights,
     Leading, Answers, Filled, Answered, BeforePublish
<1>17. ASSUME NEW r \in Requests, ReleaseHost(r)
      PROVE  Answers'
  BY <1>17 DEF ReleaseHost, Step, Return, callVars, entryVars, limiterVars, IInv, TypeOK, Flights,
     Leading, Answers, Filled, Answered, BeforePublish
<1>18. ASSUME NEW r \in Requests, Forget(r)
      PROVE  Answers'
  <2> USE <1>18 DEF Forget, Step, callVars
  <2>1. flight[r] = r
    BY DEF IInv, Flights, Leading
  <2>2. \A q \in Requests : Filled(q)'
    BY DEF IInv, TypeOK, Answers, Filled, BeforePublish
  <2>3. Answered(r)'
    BY <2>1, ServiceAssumption DEF IInv, TypeOK, Answers, Answered, BeforePublish
  <2>4. \A q \in Requests \ {r} : Answered(q)'
    BY DEF IInv, TypeOK, Answers, Answered
  <2> QED
    BY <2>2, <2>3, <2>4 DEF IInv, Answers
<1>19. ASSUME NEW r \in Requests, NEW h \in Hosts, Meets429(r, h) PROVE Answers'
  BY <1>19 DEF Meets429, Step, Return, callVars, entryVars, limiterVars, IInv, TypeOK, Flights,
     Leading, Answers, Filled, Answered, BeforePublish
<1>20. ASSUME NEW u \in Urls, Expire(u) PROVE Answers'
  BY <1>20 DEF Expire, Step, Return, callVars, entryVars, limiterVars, IInv, TypeOK, Flights,
     Leading, Answers, Filled, Answered, BeforePublish
<1>21. CASE Tick
  BY <1>21 DEF Tick, Step, Return, callVars, entryVars, limiterVars, IInv, TypeOK, Flights,
     Leading, Answers, Filled, Answered, BeforePublish
<1>22. CASE UNCHANGED vars
  BY <1>22 DEF vars, callVars, entryVars, limiterVars, IInv, Answers, Filled, Answered
<1> QED
  BY <1>1, <1>2, <1>3, <1>4, <1>5, <1>6, <1>7, <1>8, <1>9, <1>10, <1>11, <1>12, <1>13, <1>14,
     <1>15, <1>16, <1>17, <1>18, <1>19, <1>20, <1>21, <1>22, NextSteps

-----------------------------------------------------------------------------
\* The second half of NoSlotLeaks, of one request.
HostHeld(r) == (phase[r] = "held" <=> HasHost(r)) /\ (phase[r] = "waiting" <=> pc[r] = "waiting")

\* Nobody enters or leaves the global semaphore.
LEMMA SlotsSame ==
  ASSUME NoSlotLeaks, \A q \in Requests : InSlot(q)' <=> InSlot(q), slots' = slots,
         \A q \in Requests : HostHeld(q)'
  PROVE  NoSlotLeaks'
<1>1. {q \in Requests : InSlot(q)}' = {q \in Requests : InSlot(q)}
  OBVIOUS
<1> QED
  BY <1>1 DEF NoSlotLeaks, HostHeld

\* A slot is counted from where it is taken to where it is given back.
LEMMA SlotsKept == IInv /\ [Next]_vars => NoSlotLeaks'
<1> SUFFICES ASSUME IInv, [Next]_vars PROVE NoSlotLeaks'
  OBVIOUS
<1>1. ASSUME NEW r \in Requests,
             \/ Arrive(r) \/ ClientGone(r) \/ CacheHit(r) \/ CacheMiss(r) \/ Lead(r) \/ Follow(r)
             \/ FollowerServed(r) \/ FollowerCancelled(r)
      PROVE  NoSlotLeaks'
  <2>1. \A q \in Requests : InSlot(q)' <=> InSlot(q)
    BY <1>1 DEF Arrive, ClientGone, CacheHit, CacheMiss, Lead, Follow, FollowerServed,
       FollowerCancelled, Step, Return, callVars, entryVars, limiterVars, IInv, TypeOK, InSlot
  <2>2. slots' = slots /\ \A q \in Requests : HostHeld(q)'
    BY <1>1 DEF Arrive, ClientGone, CacheHit, CacheMiss, Lead, Follow, FollowerServed,
       FollowerCancelled, Step, Return, callVars, entryVars, limiterVars, IInv, TypeOK,
       NoSlotLeaks, HostHeld, HasHost, InSlot
  <2> QED
    BY <2>1, <2>2, SlotsSame DEF IInv
<1>2. ASSUME NEW r \in Requests,
             \/ Refused(r) \/ Admitted(r) \/ Granted(r) \/ AcquireCancelled(r) \/ SlotCancelled(r)
      PROVE  NoSlotLeaks'
  <2>1. \A q \in Requests : InSlot(q)' <=> InSlot(q)
    BY <1>2 DEF Refused, Admitted, Granted, AcquireCancelled, SlotCancelled, Step, Return,
       callVars, entryVars, limiterVars, IInv, TypeOK, InSlot
  <2>2. slots' = slots /\ \A q \in Requests : HostHeld(q)'
    BY <1>2 DEF Refused, Admitted, Granted, AcquireCancelled, SlotCancelled, Step, Return,
       callVars, entryVars, limiterVars, IInv, TypeOK, NoSlotLeaks, HostHeld, HasHost, InSlot,
       Limiter!Refuse, Limiter!Admit, Limiter!Enter, Limiter!GiveUp, Limiter!Callable
  <2> QED
    BY <2>1, <2>2, SlotsSame DEF IInv
<1>3. ASSUME NEW r \in Requests, TakeSlot(r)
      PROVE  NoSlotLeaks'
  <2> DEFINE inside == {q \in Requests : InSlot(q)}
  <2>1. IsFiniteSet(inside)
    BY ServiceAssumption, FS_Subset
  <2>2. r \notin inside /\ inside' = inside \cup {r}
    BY <1>3 DEF TakeSlot, Step, IInv, TypeOK, InSlot
  <2>3. Cardinality(inside') = Cardinality(inside) + 1
    BY <2>1, <2>2, FS_AddElement
  <2>4. \A q \in Requests : HostHeld(q)'
    BY <1>3 DEF TakeSlot, Step, limiterVars, IInv, TypeOK, NoSlotLeaks, HostHeld, HasHost, InSlot
  <2>5. slots' = Cardinality(inside')
    BY <1>3, <2>3 DEF TakeSlot, IInv, NoSlotLeaks
  <2> QED
    BY <2>4, <2>5 DEF NoSlotLeaks, HostHeld
<1>4. ASSUME NEW r \in Requests, ScraperSucceeds(r) \/ ScraperFails(r) \/ Publish(r) \/ Store(r)
      PROVE  NoSlotLeaks'
  <2>1. \A q \in Requests : InSlot(q)' <=> InSlot(q)
    BY <1>4 DEF ScraperSucceeds, ScraperFails, Publish, Store, Step, Return, callVars, entryVars,
       limiterVars, IInv, TypeOK, InSlot
  <2>2. slots' = slots /\ \A q \in Requests : HostHeld(q)'
    BY <1>4 DEF ScraperSucceeds, ScraperFails, Publish, Store, Step, Return, callVars, entryVars,
       limiterVars, IInv, TypeOK, NoSlotLeaks, HostHeld, HasHost, InSlot
  <2> QED
    BY <2>1, <2>2, SlotsSame DEF IInv
<1>5. ASSUME NEW r \in Requests, GiveSlot(r)
      PROVE  NoSlotLeaks'
  <2> DEFINE inside == {q \in Requests : InSlot(q)}
  <2>1. IsFiniteSet(inside)
    BY ServiceAssumption, FS_Subset
  <2>2. r \in inside /\ inside' = inside \ {r}
    BY <1>5 DEF GiveSlot, Step, IInv, TypeOK, InSlot
  <2>3. Cardinality(inside') = Cardinality(inside) - 1
    BY <2>1, <2>2, FS_RemoveElement
  <2>4. \A q \in Requests : HostHeld(q)'
    BY <1>5 DEF GiveSlot, Step, limiterVars, IInv, TypeOK, NoSlotLeaks, HostHeld, HasHost, InSlot
  <2>5. slots' = Cardinality(inside')
    BY <1>5, <2>3 DEF GiveSlot, IInv, NoSlotLeaks
  <2> QED
    BY <2>4, <2>5 DEF NoSlotLeaks, HostHeld
<1>6. ASSUME NEW r \in Requests, ReleaseHost(r)
      PROVE  NoSlotLeaks'
  <2>1. \A q \in Requests : InSlot(q)' <=> InSlot(q)
    BY <1>6 DEF ReleaseHost, Step, Return, callVars, entryVars, limiterVars, IInv, TypeOK, InSlot
  <2>2. slots' = slots /\ \A q \in Requests : HostHeld(q)'
    BY <1>6 DEF ReleaseHost, Step, Return, callVars, entryVars, limiterVars, IInv, TypeOK,
       NoSlotLeaks, HostHeld, HasHost, InSlot, Limiter!Leave
  <2> QED
    BY <2>1, <2>2, SlotsSame DEF IInv
<1>7. ASSUME NEW r \in Requests, Forget(r)
      PROVE  NoSlotLeaks'
  <2>1. \A q \in Requests : InSlot(q)' <=> InSlot(q)
    BY <1>7 DEF Forget, Step, Return, callVars, entryVars, limiterVars, IInv, TypeOK, InSlot
  <2>2. slots' = slots /\ \A q \in Requests : HostHeld(q)'
    BY <1>7 DEF Forget, Step, Return, callVars, entryVars, limiterVars, IInv, TypeOK, NoSlotLeaks,
       HostHeld, HasHost, InSlot
  <2> QED
    BY <2>1, <2>2, SlotsSame DEF IInv
<1>8. ASSUME NEW r \in Requests, NEW h \in Hosts, Meets429(r, h) PROVE NoSlotLeaks'
  <2>1. \A q \in Requests : InSlot(q)' <=> InSlot(q)
    BY <1>8 DEF Meets429, Step, Return, callVars, entryVars, limiterVars, IInv, TypeOK, InSlot
  <2>2. slots' = slots /\ \A q \in Requests : HostHeld(q)'
    BY <1>8 DEF Meets429, Step, Return, callVars, entryVars, limiterVars, IInv, TypeOK,
       NoSlotLeaks, HostHeld, HasHost, InSlot, Limiter!Report
  <2> QED
    BY <2>1, <2>2, SlotsSame DEF IInv
<1>9. ASSUME NEW u \in Urls, Expire(u) PROVE NoSlotLeaks'
  <2>1. \A q \in Requests : InSlot(q)' <=> InSlot(q)
    BY <1>9 DEF Expire, Step, Return, callVars, entryVars, limiterVars, IInv, TypeOK, InSlot
  <2>2. slots' = slots /\ \A q \in Requests : HostHeld(q)'
    BY <1>9 DEF Expire, Step, Return, callVars, entryVars, limiterVars, IInv, TypeOK, NoSlotLeaks,
       HostHeld, HasHost, InSlot
  <2> QED
    BY <2>1, <2>2, SlotsSame DEF IInv
<1>10. CASE Tick
  <2>1. \A q \in Requests : InSlot(q)' <=> InSlot(q)
    BY <1>10 DEF Tick, Step, Return, callVars, entryVars, limiterVars, IInv, TypeOK, InSlot
  <2>2. slots' = slots /\ \A q \in Requests : HostHeld(q)'
    BY <1>10 DEF Tick, Step, Return, callVars, entryVars, limiterVars, IInv, TypeOK, NoSlotLeaks,
       HostHeld, HasHost, InSlot, Limiter!Tick
  <2> QED
    BY <2>1, <2>2, SlotsSame DEF IInv
<1>11. CASE UNCHANGED vars
  BY <1>11 DEF vars, callVars, entryVars, limiterVars, IInv, NoSlotLeaks, HasHost, InSlot
<1> QED
  BY <1>1, <1>2, <1>3, <1>4, <1>5, <1>6, <1>7, <1>8, <1>9, <1>10, <1>11, NextSteps

-----------------------------------------------------------------------------
\* Types, flights, answers and slots at once.
THEOREM InductiveInvariant == Spec => []IInv
<1>1. IInv /\ [Next]_vars => IInv'
  BY TypeKept, FlightsKept, AnswersKept, SlotsKept DEF IInv
<1> QED
  BY <1>1, InitIInv, PTL DEF Spec

\* The global semaphore is never overfilled nor drained below nothing.
THEOREM TypeCorrect == Spec => []TypeOK
<1>1. IInv => TypeOK
  BY DEF IInv
<1> QED
  BY <1>1, InductiveInvariant, PTL

\* At no time do two requests scrape one page.
THEOREM SingleFlight == Spec => []OneFlightPerUrl
<1>1. IInv => OneFlightPerUrl
  BY DEF IInv, Flights
<1> QED
  BY <1>1, InductiveInvariant, PTL

\* Every return path of GetSummary gives back the slots it has, and no others.
THEOREM SlotsGivenBack == Spec => []NoSlotLeaks
<1>1. IInv => NoSlotLeaks
  BY DEF IInv
<1> QED
  BY <1>1, InductiveInvariant, PTL

\* All requests of a flight that return without an error return the same.
FlightAgrees ==
  \A r \in Requests : pc[r] = "finished" /\ flight[r] # Nil /\ answer[r] # "error" =>
    flight[r] \in done /\ answer[r] = result[flight[r]]

\* Leader and followers of a flight return what it has published.
THEOREM FlightsAgree == Spec => []FlightAgrees
<1>1. IInv => FlightAgrees
  BY DEF IInv, Answers, Answered, FlightAgrees
<1> QED
  BY <1>1, InductiveInvariant, PTL

\* No answer and no cached preview is another page's.
THEOREM NoForeignPreview == Spec => []PreviewsBelongToTheirUrl
<1>1. IInv => PreviewsBelongToTheirUrl
  <2> SUFFICES ASSUME IInv, NEW r \in Requests, answer[r] \in Requests
               PROVE  target[answer[r]] = target[r] /\ answer[r] \in done
    BY DEF IInv, TypeOK, Answers, PreviewsBelongToTheirUrl
  <2>1. answer[r] \notin {"none", "error", Nil}
    BY ServiceAssumption
  <2>2. pc[r] \in {"giveSlot", "release", "forget", "finished"}
    BY <2>1 DEF IInv, TypeOK, Answers, Answered, BeforePublish
  <2>3. CASE flight[r] = Nil
    BY <2>2, <2>3, ServiceAssumption DEF IInv, Flights, Leading, Answers, Answered
  <2>4. CASE flight[r] # Nil
    <3>1. flight[r] \in Requests /\ target[flight[r]] = target[r]
      BY <2>4 DEF IInv, TypeOK, Flights
    <3>2. pc[r] = "giveSlot" => flight[r] = r /\ r \in done /\ answer[r] = result[r]
      BY DEF IInv, Flights, Leading, Answers, Filled, Answered
    <3>3. flight[r] \in done /\ answer[r] = result[flight[r]]
      BY <2>1, <2>2, <2>4, <3>2 DEF IInv, Answers, Answered
    <3>4. result[flight[r]] = flight[r]
      BY <2>1, <3>1, <3>3 DEF IInv, Answers, Filled
    <3> QED
      BY <3>1, <3>3, <3>4
  <2> QED
    BY <2>3, <2>4
<1> QED
  BY <1>1, InductiveInvariant, PTL

\* A healthy page is "not found" only where a leader's own client went away.
THEOREM NotFoundCaused == Spec => []NotFoundHasACause
<1>1. IInv => NotFoundHasACause
  <2> SUFFICES ASSUME IInv, NEW r \in Requests, answer[r] = Nil, target[r] \in HealthyUrls
               PROVE  ctxDone[flight[r]]
    BY DEF NotFoundHasACause
  <2>1. answer[r] \notin {"none", "error"} /\ answer[r] \notin done
    BY ServiceAssumption DEF IInv, TypeOK
  <2>2. pc[r] \in {"giveSlot", "release", "forget", "finished"}
    BY <2>1 DEF IInv, TypeOK, Answers, Answered, BeforePublish
  <2>3. flight[r] # Nil
    BY <2>1, <2>2, ServiceAssumption DEF IInv, Flights, Leading, Answers, Answered
  <2>4. flight[r] \in Requests /\ target[flight[r]] = target[r]
    BY <2>3 DEF IInv, TypeOK, Flights
  <2>5. pc[r] = "giveSlot" => flight[r] = r /\ r \in done /\ answer[r] = result[r]
    BY DEF IInv, Flights, Leading, Answers, Filled, Answered
  <2>6. flight[r] \in done /\ result[flight[r]] = Nil
    BY <2>1, <2>2, <2>3, <2>5 DEF IInv, Answers, Answered
  <2> QED
    BY <2>4, <2>6 DEF IInv, Answers, Filled
<1> QED
  BY <1>1, InductiveInvariant, PTL

\* A follower is left without an answer only by a leader that got an error.
THEOREM StrandedByError == Spec => []StrandedOnlyByFailedLeader
<1>1. IInv => StrandedOnlyByFailedLeader
  <2> SUFFICES ASSUME IInv, NEW r \in Requests,
                      pc[r] = "following", pc[flight[r]] = "finished", flight[r] \notin done
               PROVE  answer[flight[r]] = "error"
    BY DEF StrandedOnlyByFailedLeader
  <2>1. flight[r] \in Requests /\ flight[flight[r]] = flight[r] /\ flight[r] # Nil
    BY DEF IInv, TypeOK, Flights
  <2> QED
    BY <2>1 DEF IInv, Answers, Answered
<1> QED
  BY <1>1, InductiveInvariant, PTL
-----------------------------------------------------------------------------
(* What callers see is PreviewFlights. *)

\* What is cached was found.
CachedFound == \A u \in Urls : cache[u] # Nil => result[cache[u]] # Nil

LEMMA CachedFoundKept == IInv /\ CachedFound /\ [Next]_vars => CachedFound'
<1> SUFFICES ASSUME IInv, CachedFound, [Next]_vars PROVE CachedFound'
  OBVIOUS
<1>1. ASSUME NEW r \in Requests, ScraperSucceeds(r) PROVE CachedFound'
  BY <1>1, ServiceAssumption DEF ScraperSucceeds, CachedFound, IInv, TypeOK
<1>2. ASSUME NEW r \in Requests, Store(r) PROVE CachedFound'
  BY <1>2, ServiceAssumption DEF Store, entryVars, CachedFound, IInv, TypeOK
<1>3. ASSUME NEW u \in Urls, Expire(u) PROVE CachedFound'
  BY <1>3 DEF Expire, entryVars, CachedFound, IInv, TypeOK
<1>4. CASE UNCHANGED <<cache, result>>
  BY <1>4 DEF CachedFound
<1>5. \/ \E r \in Requests : ScraperSucceeds(r) \/ Store(r)
      \/ \E u \in Urls : Expire(u)
      \/ UNCHANGED <<cache, result>>
  BY NextSteps DEF vars, callVars, entryVars, Arrive, ClientGone, CacheHit, CacheMiss, Lead, Follow,
     FollowerServed, FollowerCancelled, Refused, Admitted, Granted, AcquireCancelled, TakeSlot,
     SlotCancelled, ScraperFails, Publish, GiveSlot, ReleaseHost, Forget, Meets429, Tick
<1> QED
  BY <1>1, <1>2, <1>3, <1>4, <1>5

\* The entry that flies for a page is the one of its leader before it publishes
\* or fails.
LEMMA LeaderFlies ==
  ASSUME IInv, NEW r \in Requests,
         pc[r] \in {"acquire", "waiting", "slot", "scraping", "publish"}
  PROVE  /\ inflight[target[r]] = r /\ flying[target[r]] = r
         /\ flight[r] = r /\ r \notin done /\ answer[r] = "none"
         /\ target[r] \in Urls /\ r # Nil
<1>1. Leading(r) /\ target[r] \in Urls /\ r # Nil
  BY ServiceAssumption DEF Leading, IInv, TypeOK
<1>2. inflight[target[r]] = r /\ flight[r] = r
  BY <1>1 DEF IInv, Flights, OneFlightPerUrl
<1>3. r \notin done /\ answer[r] = "none"
  BY DEF IInv, Answers, Filled, Answered, BeforePublish
<1> QED
  BY <1>1, <1>2, <1>3 DEF flying, Flying

\* When only the answer of a request without an entry in flight changes, the
\* same entries fly.
LEMMA FlyingSame ==
  ASSUME IInv, UNCHANGED <<inflight, done>>, NEW r \in Requests,
         \A q \in Requests \ {r} : answer'[q] = answer[q],
         ~Leading(r) \/ r \in done
  PROVE  flying' = flying
<1> SUFFICES ASSUME NEW u \in Urls PROVE Flying(inflight[u])' <=> Flying(inflight[u])
  BY DEF flying
<1>1. inflight[u] \in Requests \cup {Nil}
  BY DEF IInv, TypeOK
<1>2. inflight[u] = r /\ r # Nil => Leading(r)
  BY DEF IInv, Flights
<1> QED
  BY <1>1, <1>2 DEF Flying

\* Once its leader has published or failed, nothing flies for the page.
LEMMA FlightEnds ==
  ASSUME IInv, NEW r \in Requests,
         pc[r] \in {"acquire", "waiting", "slot", "scraping", "publish"},
         UNCHANGED <<target, inflight>>,
         \A q \in Requests \ {r} : answer'[q] = answer[q] /\ (q \in done' <=> q \in done),
         answer'[r] # "none" \/ r \in done'
  PROVE  flying' = [flying EXCEPT ![target[r]] = Nil]
<1>1. inflight[target[r]] = r /\ target[r] \in Urls
  BY LeaderFlies
<1>2. ~Flying(inflight[target[r]])'
  BY <1>1 DEF Flying
<1>3. ASSUME NEW u \in Urls, u # target[r]
      PROVE  Flying(inflight[u])' <=> Flying(inflight[u])
  <2>1. inflight[u] \in Requests \cup {Nil} /\ inflight[u] # r
    BY <1>3, ServiceAssumption DEF IInv, TypeOK, Flights
  <2> QED
    BY <2>1 DEF Flying
<1> QED
  BY <1>1, <1>2, <1>3 DEF flying

LEMMA InitFlies == Init => PF!Init
<1> SUFFICES ASSUME Init PROVE PF!Init
  OBVIOUS
<1>1. gone = {} /\ found = {}
  BY DEF Init, gone, found
<1>2. flying = [u \in Urls |-> Nil]
  BY DEF Init, flying, Flying
<1> QED
  BY <1>1, <1>2 DEF Init, PF!Init

LEMMA CacheHitAnswers ==
  ASSUME IInv, CachedFound, NEW r \in Requests, CacheHit(r)
  PROVE  PF!AnswerCached(r)
<1>1. /\ pc[r] = "get" /\ cache[target[r]] # Nil
      /\ answer' = [answer EXCEPT ![r] = cache[target[r]]]
      /\ UNCHANGED <<target, ctxDone, flight, inflight, done, result>>
  BY DEF CacheHit, Step, Return, entryVars
<1>2. flight[r] = Nil /\ answer[r] = "none" /\ target[r] \in Urls
  BY <1>1 DEF IInv, TypeOK, Flights, Answers, Answered, BeforePublish
<1>3. cache[target[r]] \in found /\ target[cache[target[r]]] = target[r]
  BY <1>1, <1>2 DEF IInv, Answers, CachedFound, found
<1>4. flying' = flying
  BY <1>1, FlyingSame DEF IInv, TypeOK, Leading
<1>5. gone' = gone /\ found' = found
  BY <1>1 DEF gone, found
<1> QED
  BY <1>1, <1>2, <1>3, <1>4, <1>5 DEF PF!AnswerCached, PF!Return, PF!Unanswered

LEMMA LeadTakesOff ==
  ASSUME IInv, NEW r \in Requests, Lead(r)
  PROVE  PF!TakeOff(r)
<1>1. /\ pc[r] = "join" /\ inflight[target[r]] = Nil
      /\ inflight' = [inflight EXCEPT ![target[r]] = r]
      /\ flight' = [flight EXCEPT ![r] = r]
      /\ UNCHANGED <<target, ctxDone, answer, done, result>>
  BY DEF Lead, Step
<1>2. flight[r] = Nil /\ answer[r] = "none" /\ target[r] \in Urls /\ r \notin done /\ r # Nil
  BY <1>1, ServiceAssumption DEF IInv, TypeOK, Flights, Answers, Answered, Filled, BeforePublish
<1>3. flying[target[r]] = Nil
  BY <1>1, <1>2 DEF flying, Flying
<1>4. flying' = [flying EXCEPT ![target[r]] = r]
  BY <1>1, <1>2 DEF IInv, TypeOK, flying, Flying
<1>5. gone' = gone /\ found' = found
  BY <1>1 DEF gone, found
<1> QED
  BY <1>1, <1>2, <1>3, <1>4, <1>5 DEF PF!TakeOff, PF!Unanswered

LEMMA FollowBoards ==
  ASSUME IInv, NEW r \in Requests, Follow(r)
  PROVE  \E f \in Requests : PF!Board(r, f)
<1> DEFINE f == inflight[target[r]]
<1>1. /\ pc[r] = "join" /\ f # Nil /\ flight' = [flight EXCEPT ![r] = f]
      /\ UNCHANGED <<target, ctxDone, answer, inflight, done, result>>
  BY DEF Follow, Step, entryVars
<1>2. flight[r] = Nil /\ answer[r] = "none"
  BY <1>1 DEF IInv, Flights, Answers, Answered, BeforePublish
<1>3. f \in Requests /\ target[f] = target[r] /\ flight[f] = f
  BY <1>1 DEF IInv, TypeOK, Flights
<1>4. gone' = gone /\ found' = found /\ flying' = flying
  BY <1>1 DEF gone, found, flying, Flying
<1> QED
  BY <1>1, <1>2, <1>3, <1>4 DEF PF!Board, PF!Unanswered

\* A flight's result, to a follower or to its leader.
LEMMA ResultAnswers ==
  ASSUME IInv, NEW r \in Requests, flight[r] \in done, answer[r] = "none",
         answer' = [answer EXCEPT ![r] = result[flight[r]]],
         UNCHANGED <<target, ctxDone, flight, inflight, done, result>>,
         ~Leading(r) \/ r \in done
  PROVE  PF!AnswerLanded(r)
<1>1. result[flight[r]] = IF flight[r] \in found THEN flight[r] ELSE Nil
  BY DEF IInv, TypeOK, Answers, Filled, found
<1>2. flying' = flying
  BY FlyingSame DEF IInv, TypeOK
<1>3. gone' = gone /\ found' = found
  BY DEF gone, found
<1> QED
  BY <1>1, <1>2, <1>3 DEF PF!AnswerLanded, PF!Return, PF!Unanswered

LEMMA FollowerServedAnswers ==
  ASSUME IInv, NEW r \in Requests, FollowerServed(r)
  PROVE  PF!AnswerLanded(r)
<1>1. pc[r] = "following" /\ flight[r] \in done /\ ~Leading(r)
  BY DEF FollowerServed, Step, Leading
<1>2. answer[r] = "none"
  BY <1>1 DEF IInv, Answers, Answered, BeforePublish
<1>3. /\ answer' = [answer EXCEPT ![r] = result[flight[r]]]
      /\ UNCHANGED <<target, ctxDone, flight, inflight, done, result>>
  BY DEF FollowerServed, Return, entryVars
<1> QED
  BY <1>1, <1>2, <1>3, ResultAnswers

LEMMA StoreAnswers ==
  ASSUME IInv, NEW r \in Requests, Store(r)
  PROVE  PF!AnswerLanded(r)
<1>1. pc[r] = "store"
  BY DEF Store, Step
<1>2. flight[r] = r /\ r \in done /\ answer[r] = "none"
  BY <1>1 DEF IInv, Flights, Leading, Answers, Filled, Answered
<1>3. /\ answer' = [answer EXCEPT ![r] = result[flight[r]]]
      /\ UNCHANGED <<target, ctxDone, flight, inflight, done, result>>
  BY <1>2 DEF Store, Return, entryVars
<1> QED
  BY <1>2, <1>3, ResultAnswers

LEMMA FollowerCancelledGivesUp ==
  ASSUME IInv, NEW r \in Requests, FollowerCancelled(r)
  PROVE  PF!GiveUp(r)
<1>1. /\ pc[r] = "following" /\ ctxDone[r] /\ answer' = [answer EXCEPT ![r] = "error"]
      /\ UNCHANGED <<target, ctxDone, flight, inflight, done, result>>
  BY DEF FollowerCancelled, Step, Return, entryVars
<1>2. flight[r] \notin {Nil, r} /\ answer[r] = "none" /\ r \in gone
  BY <1>1 DEF IInv, Flights, Leading, Answers, Answered, BeforePublish, gone
<1>3. flying' = flying
  BY <1>1, FlyingSame DEF IInv, TypeOK, Leading
<1>4. gone' = gone /\ found' = found
  BY <1>1 DEF gone, found
<1> QED
  BY <1>1, <1>2, <1>3, <1>4 DEF PF!GiveUp, PF!Return, PF!Unanswered

\* Every error return of a leader ends its flight.
LEMMA ErrorAborts ==
  ASSUME IInv, NEW r \in Requests, Refused(r) \/ AcquireCancelled(r) \/ SlotCancelled(r)
  PROVE  PF!Abort(r)
<1>1. /\ pc[r] \in {"acquire", "waiting", "slot"} /\ answer' = [answer EXCEPT ![r] = "error"]
      /\ UNCHANGED <<target, ctxDone, flight, inflight, done, result>>
  BY DEF Refused, AcquireCancelled, SlotCancelled, Step, Return, entryVars
<1>2. flying[target[r]] = r /\ answer[r] = "none"
  BY <1>1, LeaderFlies
<1>3. flying' = [flying EXCEPT ![target[r]] = Nil]
  BY <1>1, FlightEnds DEF IInv, TypeOK
<1>4. gone' = gone /\ found' = found
  BY <1>1 DEF gone, found
<1> QED
  BY <1>1, <1>2, <1>3, <1>4 DEF PF!Abort, PF!Return, PF!Unanswered

LEMMA PublishLands ==
  ASSUME IInv, NEW r \in Requests, Publish(r)
  PROVE  PF!Land(r)
<1>1. /\ pc[r] = "publish" /\ done' = done \cup {r}
      /\ UNCHANGED <<target, ctxDone, answer, flight, inflight, result>>
  BY DEF Publish, Step, callVars
<1>2. flying[target[r]] = r
  BY <1>1, LeaderFlies
<1>3. flying' = [flying EXCEPT ![target[r]] = Nil]
  BY <1>1, FlightEnds
<1>4. found' = IF result[r] = Nil THEN found ELSE found \cup {r}
  BY <1>1 DEF found
<1>5. gone' = gone
  BY <1>1 DEF gone
<1> QED
  BY <1>1, <1>2, <1>3, <1>4, <1>5 DEF PF!Land

LEMMA ClientGoneLeaves ==
  ASSUME IInv, NEW r \in Requests, ClientGone(r)
  PROVE  PF!ClientGone(r)
<1>1. /\ ctxDone' = [ctxDone EXCEPT ![r] = TRUE]
      /\ UNCHANGED <<target, answer, flight, inflight, done, result>>
  BY DEF ClientGone, entryVars
<1>2. gone' = gone \cup {r}
  BY <1>1 DEF gone, IInv, TypeOK
<1>3. found' = found /\ flying' = flying
  BY <1>1 DEF found, flying, Flying
<1> QED
  BY <1>1, <1>2, <1>3 DEF PF!ClientGone

\* The result is written before anybody sees it.
LEMMA ScraperSucceedsUnseen ==
  ASSUME IInv, NEW r \in Requests, ScraperSucceeds(r)
  PROVE  UNCHANGED PF!vars
<1>1. /\ pc[r] = "scraping" /\ result' = [result EXCEPT ![r] = r]
      /\ UNCHANGED <<target, ctxDone, answer, flight, inflight, done>>
  BY DEF ScraperSucceeds, Step, callVars
<1>2. r \notin done
  BY <1>1, LeaderFlies
<1>3. found' = found
  BY <1>1, <1>2 DEF found, IInv, TypeOK
<1>4. gone' = gone /\ flying' = flying
  BY <1>1 DEF gone, flying, Flying
<1> QED
  BY <1>1, <1>3, <1>4 DEF PF!vars

\* By the time the entry leaves the map it does not fly any more.
LEMMA ForgetUnseen ==
  ASSUME IInv, NEW r \in Requests, Forget(r)
  PROVE  UNCHANGED PF!vars
<1>1. /\ pc[r] = "forget" /\ inflight' = [inflight EXCEPT ![target[r]] = Nil]
      /\ UNCHANGED <<target, ctxDone, answer, flight, done, result>>
  BY DEF Forget, Step, callVars
<1>2. inflight[target[r]] = r /\ flight[r] = r /\ r # Nil
  BY <1>1, ServiceAssumption DEF IInv, Flights, OneFlightPerUrl, Leading
<1>3. answer[r] = "error" \/ r \in done
  BY <1>1, <1>2 DEF IInv, Answers, Answered
<1>4. flying' = flying
  BY <1>1, <1>2, <1>3 DEF IInv, TypeOK, flying, Flying
<1>5. gone' = gone /\ found' = found
  BY <1>1 DEF gone, found
<1> QED
  BY <1>1, <1>4, <1>5 DEF PF!vars

LEMMA NothingSeen ==
  ASSUME UNCHANGED <<target, ctxDone, answer, flight, inflight, done, result>>
  PROVE  UNCHANGED PF!vars
  BY DEF PF!vars, gone, found, flying, Flying

\* To its callers the service is PreviewFlights: one flight per page, its result
\* fixed when it is published, one answer to each request and from its own
\* flight (summary-application-service.go:51).
THEOREM Refinement == Spec => ImplementsPreviewFlights
<1>1. Init => PF!Init
  BY InitFlies
<1>2. Init => CachedFound
  BY DEF Init, CachedFound
<1>3. IInv /\ CachedFound /\ [Next]_vars => CachedFound'
  BY CachedFoundKept
<1>4. IInv /\ CachedFound /\ [Next]_vars => [PF!Next]_(PF!vars)
  <2> SUFFICES ASSUME IInv, CachedFound, [Next]_vars
               PROVE  PF!Next \/ UNCHANGED PF!vars
    OBVIOUS
  <2>1. ASSUME NEW r \in Requests,
               \/ ClientGone(r) \/ CacheHit(r) \/ Lead(r) \/ Follow(r)
               \/ FollowerServed(r) \/ FollowerCancelled(r)
        PROVE  PF!Next
    BY <2>1, ClientGoneLeaves, CacheHitAnswers, LeadTakesOff, FollowBoards, FollowerServedAnswers,
       FollowerCancelledGivesUp DEF PF!Next
  <2>2. ASSUME NEW r \in Requests,
               Refused(r) \/ AcquireCancelled(r) \/ SlotCancelled(r) \/ Publish(r) \/ Store(r)
        PROVE  PF!Next
    BY <2>2, ErrorAborts, PublishLands, StoreAnswers DEF PF!Next
  <2>3. ASSUME NEW r \in Requests, ScraperSucceeds(r) \/ Forget(r)
        PROVE  UNCHANGED PF!vars
    BY <2>3, ScraperSucceedsUnseen, ForgetUnseen
  <2>4. ASSUME NEW r \in Requests,
               \/ Arrive(r) \/ CacheMiss(r) \/ Admitted(r) \/ Granted(r) \/ TakeSlot(r)
               \/ ScraperFails(r) \/ GiveSlot(r) \/ ReleaseHost(r)
               \/ \E h \in Hosts : Meets429(r, h)
        PROVE  UNCHANGED PF!vars
    <3>1. UNCHANGED <<target, ctxDone, answer, flight, inflight, done, result>>
      BY <2>4 DEF Arrive, CacheMiss, Admitted, Granted, TakeSlot, ScraperFails, GiveSlot,
         ReleaseHost, Meets429, callVars, entryVars
    <3> QED
      BY <3>1, NothingSeen
  <2>5. CASE (\E u \in Urls : Expire(u)) \/ Tick \/ UNCHANGED vars
    <3>1. UNCHANGED <<target, ctxDone, answer, flight, inflight, done, result>>
      BY <2>5 DEF Expire, Tick, vars, callVars, entryVars
    <3> QED
      BY <3>1, NothingSeen
  <2> QED
    BY <2>1, <2>2, <2>3, <2>4, <2>5, NextSteps
<1> QED
  BY <1>1, <1>2, <1>3, <1>4, InductiveInvariant, PTL
     DEF Spec, ImplementsPreviewFlights, PF!Spec
-----------------------------------------------------------------------------
(* The share of a host. *)

\* The slots that scrapes of one host's pages hold, from the return of Acquire to
\* the deferred Release.
ScrapesOf(h) == {r \in Requests : HasHost(r) /\ HostOf[target[r]] = h}
HostShareKept == \A h \in Hosts : Cardinality(ScrapesOf(h)) <= MaxPerHost

\* The limiter counts a request for the host of its own page, and admits only so
\* many.
Shares ==
  /\ \A r \in Requests : phase[r] \in {"waiting", "held"} => host[r] = HostOf[target[r]]
  /\ \A h \in Hosts : Cardinality(Limiter!HoldersOf(h)) <= MaxPerHost

\* The instance brings its own copy of Cardinality, with the same definition.
LEMMA SameCardinality == \A S : Limiter!Cardinality(S) = Cardinality(S)
  BY DEF Limiter!Cardinality, Cardinality

LEMMA HoldersFinite ==
  ASSUME NEW h
  PROVE  IsFiniteSet(Limiter!HoldersOf(h)) /\ Cardinality(Limiter!HoldersOf(h)) \in Nat
<1>1. IsFiniteSet(Limiter!HoldersOf(h))
  BY ServiceAssumption, FS_Subset DEF Limiter!HoldersOf
<1> QED
  BY <1>1, FS_CardinalityType

LEMMA SharesStart == Init => Shares
<1> SUFFICES ASSUME Init PROVE Shares
  OBVIOUS
<1>1. \A r \in Requests : phase[r] = "idle"
  BY DEF Init, Limiter!Init
<1>2. \A h \in Hosts : Limiter!HoldersOf(h) = {}
  BY <1>1 DEF Limiter!HoldersOf
<1> QED
  BY <1>1, <1>2, FS_EmptySet, ServiceAssumption DEF Shares

LEMMA SharesKept == IInv /\ Shares /\ [Next]_vars => Shares'
<1> SUFFICES ASSUME IInv, Shares, [Next]_vars PROVE Shares'
  OBVIOUS
<1>1. ASSUME NEW r \in Requests, Granted(r) PROVE Shares'
  <2> PICK g : g = host[r]
    OBVIOUS
  <2>1. /\ phase[r] = "waiting" /\ Cardinality(Limiter!HoldersOf(g)) < MaxPerHost
        /\ phase' = [phase EXCEPT ![r] = "held"] /\ UNCHANGED <<host, target>>
    BY <1>1, SameCardinality DEF Granted, Limiter!Enter, callVars
  <2>2. r \notin Limiter!HoldersOf(g)
    BY <2>1 DEF Limiter!HoldersOf
  <2>3. /\ Limiter!HoldersOf(g)' = Limiter!HoldersOf(g) \cup {r}
        /\ \A h \in Hosts \ {g} : Limiter!HoldersOf(h)' = Limiter!HoldersOf(h)
    BY <2>1 DEF Limiter!HoldersOf, IInv, TypeOK
  <2>4. Cardinality(Limiter!HoldersOf(g) \cup {r}) = Cardinality(Limiter!HoldersOf(g)) + 1
    BY <2>2, HoldersFinite, FS_AddElement
  <2>5. Cardinality(Limiter!HoldersOf(g))' <= MaxPerHost
    BY <2>1, <2>3, <2>4, HoldersFinite, ServiceAssumption
  <2>6. \A q \in Requests : phase'[q] \in {"waiting", "held"} => host'[q] = HostOf[target'[q]]
    BY <2>1 DEF Shares, IInv, TypeOK
  <2>7. ASSUME NEW h \in Hosts PROVE Cardinality(Limiter!HoldersOf(h))' <= MaxPerHost
    BY <2>3, <2>5 DEF Shares
  <2> QED
    BY <2>6, <2>7 DEF Shares
<1>2. ASSUME NEW r \in Requests, ReleaseHost(r) PROVE Shares'
  <2>1. /\ phase' = [phase EXCEPT ![r] = "idle"] /\ host' = [host EXCEPT ![r] = Nil]
        /\ UNCHANGED target
    BY <1>2 DEF ReleaseHost, Limiter!Leave, callVars
  <2>2. \A q \in Requests : phase'[q] \in {"waiting", "held"} => host'[q] = HostOf[target'[q]]
    BY <2>1 DEF Shares, IInv, TypeOK
  <2>3. ASSUME NEW h \in Hosts PROVE Cardinality(Limiter!HoldersOf(h))' <= MaxPerHost
    <3>1. Limiter!HoldersOf(h)' \in SUBSET Limiter!HoldersOf(h)
      BY <2>1 DEF Limiter!HoldersOf, IInv, TypeOK
    <3>2. /\ Cardinality(Limiter!HoldersOf(h)') <= Cardinality(Limiter!HoldersOf(h))
          /\ IsFiniteSet(Limiter!HoldersOf(h)')
      BY <3>1, HoldersFinite, FS_Subset
    <3>3. Cardinality(Limiter!HoldersOf(h)') \in Nat
      BY <3>2, FS_CardinalityType
    <3> QED
      BY <3>2, <3>3, HoldersFinite, ServiceAssumption DEF Shares
  <2> QED
    BY <2>2, <2>3 DEF Shares
<1>3. ASSUME NEW r \in Requests, Refused(r) \/ Admitted(r) \/ AcquireCancelled(r) PROVE Shares'
  <2>1. /\ UNCHANGED target /\ phase[r] # "held"
        /\ \/ phase' = [phase EXCEPT ![r] = "refused"] /\ host' = host
           \/ phase' = [phase EXCEPT ![r] = "waiting"] /\ host' = [host EXCEPT ![r] = HostOf[target[r]]]
           \/ phase' = [phase EXCEPT ![r] = "cancelled"] /\ host' = [host EXCEPT ![r] = Nil]
    BY <1>3 DEF Refused, Admitted, AcquireCancelled, Limiter!Refuse, Limiter!Admit,
       Limiter!GiveUp, Limiter!Callable, callVars
  <2>2. \A h \in Hosts : Limiter!HoldersOf(h)' = Limiter!HoldersOf(h)
    BY <2>1 DEF Limiter!HoldersOf, IInv, TypeOK
  <2>3. \A q \in Requests : phase'[q] \in {"waiting", "held"} => host'[q] = HostOf[target'[q]]
    BY <2>1 DEF Shares, IInv, TypeOK
  <2> QED
    BY <2>2, <2>3 DEF Shares
<1>4. CASE UNCHANGED <<phase, host, target>>
  BY <1>4 DEF Shares, Limiter!HoldersOf
<1>5. \/ \E r \in Requests :
            Granted(r) \/ ReleaseHost(r) \/ Refused(r) \/ Admitted(r) \/ AcquireCancelled(r)
      \/ UNCHANGED <<phase, host, target>>
  BY NextSteps DEF vars, callVars, limiterVars, Arrive, ClientGone, CacheHit, CacheMiss, Lead,
     Follow, FollowerServed, FollowerCancelled, TakeSlot, SlotCancelled, ScraperSucceeds,
     ScraperFails, Publish, Store, GiveSlot, Forget, Meets429, Expire, Tick, Limiter!Report,
     Limiter!Tick
<1> QED
  BY <1>1, <1>2, <1>3, <1>4, <1>5

\* At most maxPerDomain scrapes of one host's pages are under way, counted over
\* all of GetSummary, its waits for the global semaphore included: the
\* composition of the service with the limiter it is given.
THEOREM HostShare == Spec => []HostShareKept
<1>1. IInv /\ Shares => HostShareKept
  <2> SUFFICES ASSUME IInv, Shares, NEW h \in Hosts
               PROVE  Cardinality(ScrapesOf(h)) <= MaxPerHost
    BY DEF HostShareKept
  <2>1. ScrapesOf(h) = Limiter!HoldersOf(h)
    BY DEF ScrapesOf, Limiter!HoldersOf, Shares, IInv, NoSlotLeaks
  <2> QED
    BY <2>1 DEF Shares
<1> QED
  BY <1>1, SharesStart, SharesKept, InductiveInvariant, PTL DEF Spec
=============================================================================
