------------------------ MODULE DomainRateLimiterProofs ------------------------
(***************************************************************************)
(* Proofs about DomainRateLimiter, for any number of callers, hosts and    *)
(* objects and any arguments of NewDomainRateLimiter.                      *)
(***************************************************************************)
EXTENDS DomainRateLimiter, FiniteSetTheorems, TLAPS

\* The constructor leaves usable limits, whatever its arguments.
LEMMA LimitsPositive ==
  /\ MaxPerDomain \in Nat /\ MaxPerDomain > 0
  /\ Cooldown \in Nat /\ Cooldown > 0
BY LimiterAssumption DEF LimiterAssumption, MaxPerDomain, Cooldown

\* The sets of callers that the invariants count are finite.
LEMMA CallerSets ==
  ASSUME NEW s
  PROVE  /\ IsFiniteSet(Users(s)) /\ Cardinality(Users(s)) \in Nat
         /\ IsFiniteSet(Holders(s)) /\ Cardinality(Holders(s)) \in Nat
         /\ (Cardinality(Users(s)) = 0 <=> Users(s) = {})
         /\ (Cardinality(Holders(s)) = 0 <=> Holders(s) = {})
<1>1. Users(s) \in SUBSET Callers /\ Holders(s) \in SUBSET Callers
  BY DEF Users, Holders
<1>2. IsFiniteSet(Users(s)) /\ IsFiniteSet(Holders(s))
  BY <1>1, FS_Subset, LimiterAssumption DEF LimiterAssumption
<1> QED
  BY <1>2, FS_CardinalityType, FS_EmptySet

\* What the lookup-or-create step hands to Acquire and ReportRateLimited.
LEMMA LookupGives ==
  ASSUME IInv, NEW h \in Hosts, NEW s \in Lookup(h)
  PROVE  /\ s \in States /\ s # Nil
         /\ Content(h) \in Object
         /\ Content(h).refCount = Cardinality(Users(s))
         /\ Content(h).sem = Cardinality(Holders(s))
         /\ \A g \in Hosts : g # h => domains[g] # s
         /\ domains[h] # Nil => domains[h] = s
<1>1. CASE domains[h] = Nil
  <2>1. s \in Fresh /\ Content(h) = New
    BY <1>1 DEF Lookup, Content
  <2>2. s \in States /\ (\A g \in Hosts : domains[g] # s) /\ (\A c \in Callers : stateOf[c] # s)
    BY <2>1 DEF Fresh
  <2>3. Users(s) = {} /\ Holders(s) = {}
    BY <2>2 DEF Users, Holders
  <2>4. New \in Object
    BY LimitsPositive DEF New, Object
  <2>5. s # Nil
    BY <2>2, LimiterAssumption DEF LimiterAssumption
  <2> QED
    BY <1>1, <2>1, <2>2, <2>3, <2>4, <2>5, CallerSets DEF New
<1>2. CASE domains[h] # Nil
  <2>1. s = domains[h] /\ Content(h) = heap[s]
    BY <1>2 DEF Lookup, Content
  <2> QED
    BY <1>2, <2>1 DEF IInv, TypeOK, OneHostPerState, CountsAreExact
<1> QED
  BY <1>1, <1>2

\* Adding one caller to a counted set, removing one from it.
LEMMA CountUp ==
  ASSUME NEW S, NEW T, NEW x, IsFiniteSet(S), x \notin S, T = S \cup {x}
  PROVE  Cardinality(T) = Cardinality(S) + 1
BY FS_AddElement

LEMMA CountDown ==
  ASSUME NEW S, NEW T, NEW x, IsFiniteSet(S), x \in S, T = S \ {x}
  PROVE  /\ Cardinality(T) = Cardinality(S) - 1
         /\ Cardinality(S) > 0
<1>1. Cardinality(T) = Cardinality(S) - 1
  BY FS_RemoveElement
<1>2. Cardinality(S) \in Nat /\ Cardinality(S) # 0
  BY FS_CardinalityType, FS_EmptySet
<1> QED
  BY <1>1, <1>2
\* CountsAreExact', object by object: t names one object before and after the step.
LEMMA CountsByObject ==
  ASSUME TypeOK',
         \A t \in States : (\E h \in Hosts : domains'[h] = t) =>
            /\ heap'[t].refCount = Cardinality(Users(t)')
            /\ heap'[t].sem = Cardinality(Holders(t)')
  PROVE  CountsAreExact'
<1> SUFFICES ASSUME NEW h \in Hosts, domains'[h] # Nil
             PROVE  /\ (heap[domains[h]].refCount = Cardinality(Users(domains[h])))'
                    /\ (heap[domains[h]].sem = Cardinality(Holders(domains[h])))'
  BY DEF CountsAreExact
<1>1. PICK t \in States : t = domains'[h]
  BY DEF TypeOK
<1>2. Users(domains[h])' = Users(t)' /\ Holders(domains[h])' = Holders(t)'
  BY <1>1 DEF Users, Holders, InCall
<1> QED
  BY <1>1, <1>2

\* The same, read off the invariant before the step.
LEMMA CountsOf ==
  ASSUME TypeOK, CountsAreExact, NEW h \in Hosts, NEW t \in States, domains[h] = t
  PROVE  heap[t].refCount = Cardinality(Users(t)) /\ heap[t].sem = Cardinality(Holders(t))
BY LimiterAssumption DEF CountsAreExact, LimiterAssumption
-----------------------------------------------------------------------------
LEMMA InitIInv == Init => IInv
<1> SUFFICES ASSUME Init PROVE IInv
  OBVIOUS
<1>1. TypeOK
  <2>1. New \in Object
    BY LimitsPositive DEF New, Object
  <2> QED
    BY <2>1 DEF Init, TypeOK, Phases
<1>2. CallersUseTheMappedState
  BY DEF Init, CallersUseTheMappedState, InCall
<1>3. OneHostPerState /\ CountsAreExact
  BY DEF Init, OneHostPerState, CountsAreExact
<1> QED
  BY <1>1, <1>2, <1>3 DEF IInv

LEMMA AcquireIInv ==
  ASSUME IInv, NEW c \in Callers, NEW h \in Hosts, Acquire(c, h)
  PROVE  IInv'
<1>1. PICK s \in Lookup(h) :
        /\ domains' = [domains EXCEPT ![h] = s]
        /\ \/ /\ Content(h).cooldown > 0
              /\ heap' = [heap EXCEPT ![s] = Content(h)]
              /\ pc' = [pc EXCEPT ![c] = "refused"]
              /\ UNCHANGED <<hostOf, stateOf>>
           \/ /\ Content(h).cooldown <= 0
              /\ heap' = [heap EXCEPT ![s] = [Content(h) EXCEPT !.refCount = @ + 1]]
              /\ pc' = [pc EXCEPT ![c] = "select"]
              /\ hostOf' = [hostOf EXCEPT ![c] = h]
              /\ stateOf' = [stateOf EXCEPT ![c] = s]
  BY DEF Acquire
<1>2. pc[c] \in {"idle", "refused", "cancelled"} /\ UNCHANGED <<closed, loop>>
  BY DEF Acquire
<1>3. /\ s \in States /\ s # Nil /\ Content(h) \in Object
      /\ Content(h).refCount = Cardinality(Users(s))
      /\ Content(h).sem = Cardinality(Holders(s))
      /\ \A g \in Hosts : g # h => domains[g] # s
      /\ domains[h] # Nil => domains[h] = s
  BY LookupGives
<1>4. TypeOK /\ CallersUseTheMappedState /\ OneHostPerState /\ CountsAreExact
  BY DEF IInv
<1>5. OneHostPerState'
  BY <1>1, <1>3, <1>4 DEF OneHostPerState, TypeOK
<1>6. \A g \in Hosts : domains[g] # Nil => domains'[g] = domains[g]
  BY <1>1, <1>3, <1>4 DEF TypeOK
<1>7. ~InCall(c) /\ c \notin Users(s)
  BY <1>2 DEF InCall, Users
<1>8. CASE Content(h).cooldown > 0
  <2>1. /\ heap' = [heap EXCEPT ![s] = Content(h)]
        /\ pc' = [pc EXCEPT ![c] = "refused"]
        /\ UNCHANGED <<hostOf, stateOf>>
    BY <1>1, <1>3, <1>8 DEF Object
  <2>2. TypeOK'
    BY <1>1, <1>2, <1>3, <1>4, <2>1 DEF TypeOK, Phases
  <2>3. \A d \in Callers : InCall(d)' <=> InCall(d)
    BY <2>1, <1>4, <1>7 DEF InCall, TypeOK
  <2>4. CallersUseTheMappedState'
    BY <2>1, <2>3, <1>4, <1>6 DEF CallersUseTheMappedState
  <2>5. \A t : Users(t)' = Users(t) /\ Holders(t)' = Holders(t)
    BY <2>1, <2>3, <1>4, <1>2 DEF Users, Holders, TypeOK
  <2>6. CountsAreExact'
    BY <1>1, <1>3, <1>4, <2>1, <2>5 DEF CountsAreExact, TypeOK
  <2> QED
    BY <2>2, <2>4, <1>5, <2>6 DEF IInv
<1>9. CASE ~(Content(h).cooldown > 0)
  <2>1. /\ heap' = [heap EXCEPT ![s] = [Content(h) EXCEPT !.refCount = @ + 1]]
        /\ pc' = [pc EXCEPT ![c] = "select"]
        /\ hostOf' = [hostOf EXCEPT ![c] = h]
        /\ stateOf' = [stateOf EXCEPT ![c] = s]
    BY <1>1, <1>9
  <2>2. [Content(h) EXCEPT !.refCount = @ + 1] \in Object
    BY <1>3 DEF Object
  <2>3. TypeOK'
    BY <1>1, <1>2, <1>3, <1>4, <2>1, <2>2 DEF TypeOK, Phases
  <2>4. CallersUseTheMappedState'
    BY <1>1, <1>3, <1>4, <1>6, <2>1 DEF CallersUseTheMappedState, TypeOK, InCall
  <2>5. /\ Users(s)' = Users(s) \cup {c}
        /\ \A t : t # s => Users(t)' = Users(t)
        /\ \A t : Holders(t)' = Holders(t)
    BY <2>1, <1>4, <1>2 DEF Users, Holders, InCall, TypeOK
  <2>6. Cardinality(Users(s)') = Cardinality(Users(s)) + 1
    BY <2>5, <1>7, CallerSets, CountUp
  <2>7. heap'[s].refCount = Cardinality(Users(s)') /\ heap'[s].sem = Cardinality(Holders(s)')
    BY <2>1, <2>5, <2>6, <1>3, <1>4 DEF TypeOK, Object
  <2>8. \A t \in States : t # s => heap'[t] = heap[t]
    BY <2>1, <1>4 DEF TypeOK
  <2>9. ASSUME NEW t \in States, NEW g \in Hosts, domains'[g] = t
        PROVE  heap'[t].refCount = Cardinality(Users(t)') /\ heap'[t].sem = Cardinality(Holders(t)')
    <3>1. CASE t = s
      BY <3>1, <2>7
    <3>2. CASE t # s
      <4>1. domains[g] = t
        BY <1>1, <1>4, <2>9, <3>2 DEF TypeOK
      <4>2. heap[t].refCount = Cardinality(Users(t)) /\ heap[t].sem = Cardinality(Holders(t))
        BY <4>1, <1>4, CountsOf
      <4> QED
        BY <4>2, <3>2, <2>5, <2>8
    <3> QED
      BY <3>1, <3>2
  <2> QED
    BY <2>3, <2>4, <1>4, <1>5, <2>9, CountsByObject DEF IInv
<1> QED
  BY <1>8, <1>9

\* A caller in a call uses an object that is in the map under its host.
LEMMA MappedObject ==
  ASSUME IInv, NEW c \in Callers, InCall(c)
  PROVE  /\ stateOf[c] \in States /\ hostOf[c] \in Hosts
         /\ domains[hostOf[c]] = stateOf[c] /\ domains[hostOf[c]] # Nil
         /\ heap[stateOf[c]] \in Object
         /\ heap[stateOf[c]].refCount = Cardinality(Users(stateOf[c]))
         /\ heap[stateOf[c]].sem = Cardinality(Holders(stateOf[c]))
         /\ c \in Users(stateOf[c])
<1>1. /\ hostOf[c] \in Hosts /\ domains[hostOf[c]] # Nil /\ stateOf[c] = domains[hostOf[c]]
  BY DEF IInv, CallersUseTheMappedState
<1>2. stateOf[c] \in States
  BY <1>1 DEF IInv, TypeOK
<1>3. heap[stateOf[c]] \in Object
  BY <1>2 DEF IInv, TypeOK
<1>4. /\ heap[stateOf[c]].refCount = Cardinality(Users(stateOf[c]))
      /\ heap[stateOf[c]].sem = Cardinality(Holders(stateOf[c]))
  BY <1>1 DEF IInv, CountsAreExact
<1>5. c \in Users(stateOf[c])
  BY DEF Users
<1> QED
  BY <1>1, <1>2, <1>3, <1>4, <1>5

LEMMA GrantIInv ==
  ASSUME IInv, NEW c \in Callers, Grant(c)
  PROVE  IInv'
<1>0. PICK s \in States : s = stateOf[c]
  BY MappedObject DEF Grant, InCall
<1>1. /\ pc[c] = "select" /\ heap[s].sem < MaxPerDomain
      /\ heap' = [heap EXCEPT ![s].sem = @ + 1]
      /\ pc' = [pc EXCEPT ![c] = "held"]
      /\ UNCHANGED <<domains, hostOf, stateOf, closed, loop>>
  BY <1>0 DEF Grant
<1>2. InCall(c)
  BY <1>1 DEF InCall
<1>3. /\ s \in States /\ heap[s] \in Object
      /\ heap[s].sem = Cardinality(Holders(s))
  BY <1>0, <1>2, MappedObject
<1>4. TypeOK /\ CallersUseTheMappedState /\ OneHostPerState /\ CountsAreExact
  BY DEF IInv
<1>5. TypeOK'
  <2>1. [heap[s] EXCEPT !.sem = @ + 1] \in Object
    BY <1>1, <1>3, LimitsPositive DEF Object
  <2> QED
    BY <1>1, <1>3, <1>4, <2>1 DEF TypeOK, Phases
<1>6. \A d \in Callers : InCall(d)' <=> InCall(d)
  BY <1>1, <1>2, <1>4 DEF InCall, TypeOK
<1>7. CallersUseTheMappedState' /\ OneHostPerState'
  BY <1>1, <1>4, <1>6 DEF CallersUseTheMappedState, OneHostPerState
<1>8. /\ \A t : Users(t)' = Users(t)
      /\ Holders(s)' = Holders(s) \cup {c} /\ c \notin Holders(s)
      /\ \A t : t # s => Holders(t)' = Holders(t)
  BY <1>0, <1>1, <1>4, <1>6 DEF Users, Holders, TypeOK
<1>9. Cardinality(Holders(s)') = Cardinality(Holders(s)) + 1
  BY <1>8, CallerSets, CountUp
<1>10. /\ heap'[s].refCount = heap[s].refCount /\ heap'[s].sem = heap[s].sem + 1
       /\ \A t \in States : t # s => heap'[t] = heap[t]
  BY <1>1, <1>3, <1>4 DEF TypeOK, Object
<1>11. ASSUME NEW t \in States, NEW g \in Hosts, domains'[g] = t
       PROVE  heap'[t].refCount = Cardinality(Users(t)') /\ heap'[t].sem = Cardinality(Holders(t)')
  <2>1. heap[t].refCount = Cardinality(Users(t)) /\ heap[t].sem = Cardinality(Holders(t))
    BY <1>1, <1>4, <1>11, CountsOf
  <2>2. CASE t = s
    BY <2>1, <2>2, <1>8, <1>9, <1>10
  <2>3. CASE t # s
    BY <2>1, <2>3, <1>8, <1>10
  <2> QED
    BY <2>2, <2>3
<1> QED
  BY <1>5, <1>7, <1>11, CountsByObject DEF IInv

LEMMA AbandonIInv ==
  ASSUME IInv, NEW c \in Callers, Abandon(c)
  PROVE  IInv'
<1>1. /\ pc[c] = "select" /\ pc' = [pc EXCEPT ![c] = "leaving"]
      /\ UNCHANGED <<domains, heap, hostOf, stateOf, closed, loop>>
  BY DEF Abandon
<1>2. TypeOK /\ CallersUseTheMappedState /\ OneHostPerState /\ CountsAreExact
  BY DEF IInv
<1>3. \A d \in Callers : (InCall(d)' <=> InCall(d)) /\ (pc'[d] = "held" <=> pc[d] = "held")
  BY <1>1, <1>2 DEF InCall, TypeOK
<1>4. \A t : Users(t)' = Users(t) /\ Holders(t)' = Holders(t)
  BY <1>1, <1>3 DEF Users, Holders
<1>5. TypeOK'
  BY <1>1, <1>2 DEF TypeOK, Phases
<1>6. CallersUseTheMappedState' /\ OneHostPerState' /\ CountsAreExact'
  BY <1>1, <1>2, <1>3, <1>4 DEF CallersUseTheMappedState, OneHostPerState, CountsAreExact
<1> QED
  BY <1>5, <1>6 DEF IInv

\* LeaveWait and Release take the caller out of the counts of its object only.
LEMMA AwayIInv ==
  ASSUME IInv, NEW c \in Callers, InCall(c), NEW phase_ \in {"idle", "cancelled"},
         Away(c, phase_), NEW obj \in Object,
         heap' = [heap EXCEPT ![stateOf[c]] = obj],
         obj.refCount = Cardinality(Users(stateOf[c]) \ {c}),
         obj.sem = Cardinality(Holders(stateOf[c]) \ {c})
  PROVE  IInv'
<1>3. PICK s \in States : s = stateOf[c]
  BY MappedObject
<1>1. /\ pc' = [pc EXCEPT ![c] = phase_]
      /\ hostOf' = [hostOf EXCEPT ![c] = Nil] /\ stateOf' = [stateOf EXCEPT ![c] = Nil]
      /\ UNCHANGED <<domains, closed, loop>>
  BY DEF Away
<1>2. TypeOK /\ CallersUseTheMappedState /\ OneHostPerState /\ CountsAreExact
  BY DEF IInv
<1>4. TypeOK'
  BY <1>1, <1>2, <1>3 DEF TypeOK, Phases
<1>5. CallersUseTheMappedState' /\ OneHostPerState'
  BY <1>1, <1>2 DEF CallersUseTheMappedState, OneHostPerState, InCall, TypeOK
<1>6. /\ \A d \in Callers : InCall(d)' <=> InCall(d) /\ d # c
      /\ \A d \in Callers : pc'[d] = "held" <=> pc[d] = "held" /\ d # c
      /\ \A d \in Callers : d # c => stateOf'[d] = stateOf[d]
  BY <1>1, <1>2 DEF InCall, TypeOK
<1>7. /\ Users(s)' = Users(s) \ {c} /\ Holders(s)' = Holders(s) \ {c}
      /\ \A t : t # s => Users(t)' = Users(t) /\ Holders(t)' = Holders(t)
  BY <1>3, <1>6 DEF Users, Holders
<1>8. heap'[s] = obj /\ \A t \in States : t # s => heap'[t] = heap[t]
  BY <1>2, <1>3 DEF TypeOK
<1>9. ASSUME NEW t \in States, NEW g \in Hosts, domains'[g] = t
      PROVE  heap'[t].refCount = Cardinality(Users(t)') /\ heap'[t].sem = Cardinality(Holders(t)')
  <2>1. CASE t = s
    BY <2>1, <1>3, <1>7, <1>8
  <2>2. CASE t # s
    <3>1. heap[t].refCount = Cardinality(Users(t)) /\ heap[t].sem = Cardinality(Holders(t))
      BY <1>1, <1>2, <1>9, CountsOf
    <3> QED
      BY <3>1, <2>2, <1>7, <1>8
  <2> QED
    BY <2>1, <2>2
<1> QED
  BY <1>4, <1>5, <1>9, CountsByObject DEF IInv

LEMMA LeaveWaitIInv ==
  ASSUME IInv, NEW c \in Callers, LeaveWait(c)
  PROVE  IInv'
<1> DEFINE s == stateOf[c]
           obj == [heap[s] EXCEPT !.refCount = @ - 1]
<1>1. pc[c] = "leaving" /\ Away(c, "cancelled") /\ heap' = [heap EXCEPT ![s].refCount = @ - 1]
  BY DEF LeaveWait
<1>2. InCall(c)
  BY <1>1 DEF InCall
<1>3. /\ s \in States /\ heap[s] \in Object /\ c \in Users(s)
      /\ heap[s].refCount = Cardinality(Users(s)) /\ heap[s].sem = Cardinality(Holders(s))
  BY <1>2, MappedObject
<1>4. Cardinality(Users(s) \ {c}) = Cardinality(Users(s)) - 1 /\ Cardinality(Users(s)) > 0
  BY <1>3, CallerSets, CountDown
<1>5. Holders(s) \ {c} = Holders(s)
  BY <1>1 DEF Holders
<1>6. obj \in Object /\ obj.refCount = Cardinality(Users(s) \ {c})
        /\ obj.sem = Cardinality(Holders(s) \ {c})
  BY <1>3, <1>4, <1>5, CallerSets DEF Object
<1>7. heap' = [heap EXCEPT ![s] = obj]
  BY <1>1
<1> QED
  BY <1>1, <1>2, <1>6, <1>7, AwayIInv

\* Release finds the object its caller acquired, with the slot in it.
LEMMA ReleaseFinds ==
  ASSUME IInv, NEW c \in Callers, pc[c] = "held"
  PROVE  /\ domains[hostOf[c]] # Nil /\ domains[hostOf[c]] = stateOf[c]
         /\ c \in Holders(stateOf[c])
         /\ heap[stateOf[c]].sem > 0 /\ heap[stateOf[c]].refCount > 0
<1> DEFINE s == stateOf[c]
<1>1. InCall(c)
  BY DEF InCall
<1>2. /\ domains[hostOf[c]] # Nil /\ domains[hostOf[c]] = s /\ c \in Users(s)
      /\ heap[s].refCount = Cardinality(Users(s)) /\ heap[s].sem = Cardinality(Holders(s))
  BY <1>1, MappedObject
<1>3. c \in Holders(s)
  BY DEF Holders
<1>4. Cardinality(Holders(s)) > 0 /\ Cardinality(Users(s)) > 0
  BY <1>2, <1>3, CallerSets
<1> QED
  BY <1>2, <1>3, <1>4

LEMMA ReleaseIInv ==
  ASSUME IInv, NEW c \in Callers, Release(c)
  PROVE  IInv'
<1> DEFINE s == stateOf[c]
           obj == [heap[s] EXCEPT !.refCount = @ - 1, !.sem = @ - 1]
<1>1. pc[c] = "held" /\ Away(c, "idle")
  BY DEF Release
<1>2. InCall(c)
  BY <1>1 DEF InCall
<1>3. /\ domains[hostOf[c]] # Nil /\ domains[hostOf[c]] = s /\ c \in Holders(s)
      /\ heap[s].sem > 0 /\ heap[s].refCount > 0
  BY <1>1, ReleaseFinds
<1>4. /\ s \in States /\ heap[s] \in Object /\ c \in Users(s)
      /\ heap[s].refCount = Cardinality(Users(s)) /\ heap[s].sem = Cardinality(Holders(s))
  BY <1>2, MappedObject
<1>5. heap' = [heap EXCEPT ![s].refCount = IF @ = 0 THEN 0 ELSE @ - 1, ![s].sem = @ - 1]
  BY <1>3 DEF Release
<1>6. heap' = [heap EXCEPT ![s] = obj]
  <2>1. heap \in [States -> Object]
    BY DEF IInv, TypeOK
  <2>2. heap[s].refCount # 0 /\ heap[s].refCount \in Nat
    BY <1>3, <1>4 DEF Object
  <2>3. heap' = [heap EXCEPT ![s].refCount = heap[s].refCount - 1, ![s].sem = heap[s].sem - 1]
    BY <1>5, <2>2
  <2> QED
    BY <2>1, <2>3, <1>4 DEF Object
<1>7. /\ Cardinality(Users(s) \ {c}) = Cardinality(Users(s)) - 1
      /\ Cardinality(Holders(s) \ {c}) = Cardinality(Holders(s)) - 1
  BY <1>3, <1>4, CallerSets, CountDown
<1>8. obj \in Object /\ obj.refCount = Cardinality(Users(s) \ {c})
        /\ obj.sem = Cardinality(Holders(s) \ {c})
  <2>1. /\ heap[s].sem \in 0 .. MaxPerDomain /\ heap[s].refCount \in Nat
        /\ heap[s].cooldown \in -1 .. Cooldown
    BY <1>4 DEF Object
  <2>2. heap[s].sem - 1 \in 0 .. MaxPerDomain /\ heap[s].refCount - 1 \in Nat
    BY <1>3, <2>1, LimitsPositive
  <2>3. obj \in Object
    BY <1>4, <2>2 DEF Object
  <2>4. obj.refCount = heap[s].refCount - 1 /\ obj.sem = heap[s].sem - 1
    BY <1>4 DEF Object
  <2> QED
    BY <2>3, <2>4, <1>4, <1>7
<1> QED
  BY <1>1, <1>2, <1>6, <1>8, AwayIInv

LEMMA ReportIInv ==
  ASSUME IInv, NEW c \in Callers, NEW h \in Hosts, ReportRateLimited(c, h)
  PROVE  IInv'
<1>1. PICK s \in Lookup(h) :
        /\ domains' = [domains EXCEPT ![h] = s]
        /\ heap' = [heap EXCEPT ![s] = [Content(h) EXCEPT !.cooldown = Cooldown]]
  BY DEF ReportRateLimited
<1>2. UNCHANGED <<pc, hostOf, stateOf, closed, loop>>
  BY DEF ReportRateLimited
<1>3. /\ s \in States /\ s # Nil /\ Content(h) \in Object
      /\ Content(h).refCount = Cardinality(Users(s))
      /\ Content(h).sem = Cardinality(Holders(s))
      /\ \A g \in Hosts : g # h => domains[g] # s
      /\ domains[h] # Nil => domains[h] = s
  BY LookupGives
<1>4. TypeOK /\ CallersUseTheMappedState /\ OneHostPerState /\ CountsAreExact
  BY DEF IInv
<1>5. [Content(h) EXCEPT !.cooldown = Cooldown] \in Object
  BY <1>3, LimitsPositive DEF Object
<1>6. TypeOK'
  BY <1>1, <1>2, <1>3, <1>4, <1>5 DEF TypeOK
<1>7. \A g \in Hosts : domains[g] # Nil => domains'[g] = domains[g]
  BY <1>1, <1>3, <1>4 DEF TypeOK
<1>8. CallersUseTheMappedState'
  BY <1>2, <1>4, <1>7 DEF CallersUseTheMappedState, InCall
<1>9. OneHostPerState'
  BY <1>1, <1>3, <1>4 DEF OneHostPerState, TypeOK
<1>10. \A t : Users(t)' = Users(t) /\ Holders(t)' = Holders(t)
  BY <1>2 DEF Users, Holders, InCall
<1>11. /\ heap'[s].refCount = Content(h).refCount /\ heap'[s].sem = Content(h).sem
       /\ \A t \in States : t # s => heap'[t] = heap[t]
  BY <1>1, <1>3, <1>4 DEF TypeOK, Object
<1>12. CountsAreExact'
  BY <1>1, <1>3, <1>4, <1>10, <1>11 DEF CountsAreExact, TypeOK
<1> QED
  BY <1>6, <1>8, <1>9, <1>12 DEF IInv

\* The clean-up drops no entry that a caller still uses.
LEMMA CleanupIInv ==
  ASSUME IInv, Cleanup
  PROVE  IInv'
<1>1. /\ domains' = [h \in Hosts |-> IF Idle(h) THEN Nil ELSE domains[h]]
      /\ UNCHANGED <<heap, pc, hostOf, stateOf, closed, loop>>
  BY DEF Cleanup
<1>2. TypeOK /\ CallersUseTheMappedState /\ OneHostPerState /\ CountsAreExact
  BY DEF IInv
<1>3. TypeOK' /\ OneHostPerState'
  BY <1>1, <1>2 DEF TypeOK, OneHostPerState
<1>4. ASSUME NEW c \in Callers, InCall(c)
      PROVE  ~Idle(hostOf[c])
  <2>1. /\ domains[hostOf[c]] = stateOf[c] /\ c \in Users(stateOf[c])
        /\ heap[stateOf[c]].refCount = Cardinality(Users(stateOf[c]))
    BY <1>4, MappedObject
  <2> QED
    BY <2>1, CallerSets DEF Idle
<1>5. CallersUseTheMappedState'
  BY <1>1, <1>2, <1>4 DEF CallersUseTheMappedState, InCall
<1>6. \A t : Users(t)' = Users(t) /\ Holders(t)' = Holders(t)
  BY <1>1 DEF Users, Holders, InCall
<1>7. CountsAreExact'
  BY <1>1, <1>2, <1>6 DEF CountsAreExact
<1> QED
  BY <1>3, <1>5, <1>7 DEF IInv

LEMMA TickIInv ==
  ASSUME IInv, Tick
  PROVE  IInv'
<1>1. /\ heap' = [s \in States |-> [heap[s] EXCEPT !.cooldown = IF @ < 0 THEN @ ELSE @ - 1]]
      /\ UNCHANGED <<domains, pc, hostOf, stateOf, closed, loop>>
  BY DEF Tick
<1>2. TypeOK /\ CallersUseTheMappedState /\ OneHostPerState /\ CountsAreExact
  BY DEF IInv
<1>3. \A s \in States : /\ heap'[s] \in Object
                        /\ heap'[s].refCount = heap[s].refCount
                        /\ heap'[s].sem = heap[s].sem
  BY <1>1, <1>2, LimitsPositive DEF TypeOK, Object
<1>4. heap' \in [States -> Object]
  BY <1>1, <1>3
<1>5. TypeOK'
  BY <1>1, <1>2, <1>4 DEF TypeOK
<1>6. \A t : Users(t)' = Users(t) /\ Holders(t)' = Holders(t)
  BY <1>1 DEF Users, Holders, InCall
<1>7. CallersUseTheMappedState' /\ OneHostPerState'
  BY <1>1, <1>2 DEF CallersUseTheMappedState, OneHostPerState, InCall
<1>8. CountsAreExact'
  BY <1>1, <1>2, <1>3, <1>6 DEF CountsAreExact, TypeOK
<1> QED
  BY <1>5, <1>7, <1>8 DEF IInv

LEMMA StuckIInv ==
  ASSUME IInv, UNCHANGED <<domains, heap, pc, hostOf, stateOf>>,
         closed' \in BOOLEAN, loop' \in {"running", "exited"}
  PROVE  IInv'
<1>1. \A t : Users(t)' = Users(t) /\ Holders(t)' = Holders(t)
  BY DEF Users, Holders, InCall
<1> QED
  BY <1>1 DEF IInv, TypeOK, CallersUseTheMappedState, OneHostPerState, CountsAreExact, InCall

LEMMA NextIInv == IInv /\ [Next]_vars => IInv'
<1> SUFFICES ASSUME IInv, [Next]_vars PROVE IInv'
  OBVIOUS
<1>1. ASSUME NEW c \in Callers, NEW h \in Hosts, Acquire(c, h) \/ ReportRateLimited(c, h)
      PROVE  IInv'
  BY <1>1, AcquireIInv, ReportIInv
<1>2. ASSUME NEW c \in Callers, Grant(c) \/ Abandon(c) \/ LeaveWait(c) \/ Release(c)
      PROVE  IInv'
  BY <1>2, GrantIInv, AbandonIInv, LeaveWaitIInv, ReleaseIInv
<1>3. CASE Cleanup \/ Tick
  BY <1>3, CleanupIInv, TickIInv
<1>4. CASE ExitLoop \/ Stop \/ UNCHANGED vars
  BY <1>4, StuckIInv DEF ExitLoop, Stop, vars, IInv, TypeOK
<1> QED
  BY <1>1, <1>2, <1>3, <1>4 DEF Next

\* The inductive invariant holds in every reachable state.
THEOREM InductiveInvariant == Spec => []IInv
<1>1. Init => IInv
  BY InitIInv
<1>2. IInv /\ [Next]_vars => IInv'
  BY NextIInv
<1> QED
  BY <1>1, <1>2, PTL DEF Spec

\* Type correctness: no semaphore over its capacity, no negative count.
THEOREM TypeCorrect == Spec => []TypeOK
<1>1. IInv => TypeOK
  BY DEF IInv
<1> QED
  BY <1>1, InductiveInvariant, PTL

\* refCount and the semaphores count exactly the callers they stand for.
THEOREM CountsExact == Spec => []CountsAreExact
<1>1. IInv => CountsAreExact
  BY DEF IInv
<1> QED
  BY <1>1, InductiveInvariant, PTL

\* A caller and the map never disagree about a host's object.
THEOREM SameObject == Spec => []CallersUseTheMappedState
<1>1. IInv => CallersUseTheMappedState
  BY DEF IInv
<1> QED
  BY <1>1, InductiveInvariant, PTL

\* In a state of the invariant, the slots held on a host are those of its object.
LEMMA HoldersOfHost ==
  ASSUME IInv, NEW h \in Hosts, domains[h] # Nil
  PROVE  HoldersOf(h) = Holders(domains[h])
<1>1. ASSUME NEW c \in Callers, pc[c] = "held"
      PROVE  hostOf[c] = h <=> stateOf[c] = domains[h]
  <2>1. hostOf[c] \in Hosts /\ domains[hostOf[c]] # Nil /\ stateOf[c] = domains[hostOf[c]]
    BY <1>1, MappedObject DEF InCall
  <2> QED
    BY <2>1 DEF IInv, OneHostPerState
<1> QED
  BY <1>1 DEF HoldersOf, Holders

\* Never more than maxPerDomain slots of one host are held, for every limit,
\* every number of callers and across every deletion of the host's entry.
THEOREM PerHostLimit == Spec => []LimitHolds
<1>1. ASSUME IInv, NEW h \in Hosts
      PROVE  Cardinality(HoldersOf(h)) <= MaxPerDomain
  <2>1. CASE domains[h] = Nil
    <3>1. HoldersOf(h) = {}
      BY <1>1, <2>1, MappedObject DEF HoldersOf, InCall
    <3> QED
      BY <3>1, FS_EmptySet, LimitsPositive
  <2>2. CASE domains[h] # Nil
    <3>1. HoldersOf(h) = Holders(domains[h])
      BY <1>1, <2>2, HoldersOfHost
    <3>2. domains[h] \in States /\ heap[domains[h]] \in Object
            /\ heap[domains[h]].sem = Cardinality(Holders(domains[h]))
      BY <1>1, <2>2 DEF IInv, TypeOK, CountsAreExact
    <3> QED
      BY <3>1, <3>2 DEF Object
  <2> QED
    BY <2>1, <2>2
<1>2. IInv => LimitHolds
  BY <1>1 DEF LimitHolds
<1> QED
  BY <1>2, InductiveInvariant, PTL

\* Release never blocks while it holds the limiter's mutex.
THEOREM ReleaseSafe == Spec => []ReleaseNeverBlocks
<1>1. IInv => ReleaseNeverBlocks
  <2> SUFFICES ASSUME IInv, NEW c \in Callers, pc[c] = "held"
               PROVE  domains[hostOf[c]] # Nil /\ heap[domains[hostOf[c]]].sem > 0
    BY DEF ReleaseNeverBlocks
  <2> QED
    BY ReleaseFinds
<1> QED
  BY <1>1, InductiveInvariant, PTL
-----------------------------------------------------------------------------
(***************************************************************************)
(* DomainRateLimiter implements PerHostLimiter.                            *)
(***************************************************************************)

\* The ticks of cooldown a host has left, as the abstract limiter sees them.
Left(h) == IF Content(h).cooldown > 0 THEN Content(h).cooldown ELSE 0

LEMMA RemainingLeft == remaining = [h \in Hosts |-> Left(h)]
BY DEF remaining, Left

LEMMA RemainingSame ==
  ASSUME \A h \in Hosts : Left(h)' = Left(h)
  PROVE  remaining' = remaining
BY DEF remaining, Left

\* In the map or not, a host has a well-formed object.
LEMMA ContentType ==
  ASSUME TypeOK, NEW h \in Hosts
  PROVE  Content(h) \in Object /\ Content(h).cooldown \in Int
<1>1. New \in Object
  BY LimitsPositive DEF New, Object
<1>2. CASE domains[h] = Nil
  BY <1>1, <1>2, LimitsPositive DEF Content, Object
<1>3. CASE domains[h] # Nil
  BY <1>3, LimitsPositive DEF Content, TypeOK, Object
<1> QED
  BY <1>2, <1>3

\* Writing the looked-up object changes the content of its own host only.
LEMMA ContentAfterLookup ==
  ASSUME IInv, NEW h \in Hosts, NEW s \in Lookup(h), NEW obj,
         domains' = [domains EXCEPT ![h] = s], heap' = [heap EXCEPT ![s] = obj]
  PROVE  /\ Content(h)' = obj
         /\ \A g \in Hosts : g # h => Content(g)' = Content(g)
<1>1. /\ s \in States /\ s # Nil
      /\ \A g \in Hosts : g # h => domains[g] # s
  BY LookupGives
<1>2. domains \in [Hosts -> States \cup {Nil}] /\ DOMAIN heap = States
  BY DEF IInv, TypeOK
<1>3. domains'[h] = s /\ heap'[s] = obj
  BY <1>1, <1>2
<1>4. Content(h)' = obj
  BY <1>1, <1>3 DEF Content
<1>5. ASSUME NEW g \in Hosts, g # h
      PROVE  Content(g)' = Content(g)
  <2>1. domains'[g] = domains[g] /\ domains[g] # s
    BY <1>1, <1>2, <1>5
  <2>2. domains[g] # Nil => heap'[domains[g]] = heap[domains[g]]
    BY <1>2, <2>1
  <2> QED
    BY <2>1, <2>2 DEF Content
<1> QED
  BY <1>4, <1>5

\* Steps of an object's counters leave every cooldown as it is.
LEMMA LeftSame ==
  ASSUME TypeOK, NEW s \in States, UNCHANGED domains, DOMAIN heap' = States,
         \A t \in States : heap'[t].cooldown = heap[t].cooldown
  PROVE  remaining' = remaining
<1>1. \A h \in Hosts : Left(h)' = Left(h)
  BY DEF Left, Content, TypeOK
<1> QED
  BY <1>1, RemainingSame

LEMMA HoldersSame ==
  ASSUME NEW h
  PROVE  PHL!HoldersOf(h) = HoldersOf(h)
BY DEF PHL!HoldersOf, HoldersOf, phase, host

LEMMA PhaseStep ==
  ASSUME TypeOK, NEW c \in Callers, NEW p \in Phases, pc' = [pc EXCEPT ![c] = p]
  PROVE  phase' = [phase EXCEPT ![c] = CASE p = "select" -> "waiting"
                                         [] p = "leaving" -> "cancelled"
                                         [] OTHER -> p]
BY DEF TypeOK, phase

LEMMA InitImplements == Init => PHL!Init
<1> SUFFICES ASSUME Init PROVE PHL!Init
  OBVIOUS
<1>1. phase = [c \in Callers |-> "idle"] /\ host = [c \in Callers |-> Nil]
  BY DEF Init, phase, host
<1>2. remaining = [h \in Hosts |-> 0]
  BY DEF Init, remaining, Content, New
<1> QED
  BY <1>1, <1>2 DEF PHL!Init

LEMMA AcquireImplements ==
  ASSUME IInv, NEW c \in Callers, NEW h \in Hosts, Acquire(c, h)
  PROVE  PHL!Admit(c, h) \/ PHL!Refuse(c, h)
<1>1. PICK s \in Lookup(h) :
        /\ domains' = [domains EXCEPT ![h] = s]
        /\ \/ /\ Content(h).cooldown > 0
              /\ heap' = [heap EXCEPT ![s] = Content(h)]
              /\ pc' = [pc EXCEPT ![c] = "refused"]
              /\ UNCHANGED <<hostOf, stateOf>>
           \/ /\ Content(h).cooldown <= 0
              /\ heap' = [heap EXCEPT ![s] = [Content(h) EXCEPT !.refCount = @ + 1]]
              /\ pc' = [pc EXCEPT ![c] = "select"]
              /\ hostOf' = [hostOf EXCEPT ![c] = h]
              /\ stateOf' = [stateOf EXCEPT ![c] = s]
  BY DEF Acquire
<1>2. pc[c] \in {"idle", "refused", "cancelled"}
  BY DEF Acquire
<1>3. TypeOK /\ Content(h) \in Object /\ Content(h).cooldown \in Int
  BY ContentType DEF IInv
<1>4. PHL!Callable(c)
  BY <1>2 DEF PHL!Callable, phase
<1>5. remaining[h] = Left(h)
  BY RemainingLeft
<1>6. CASE Content(h).cooldown > 0
  <2>1. heap' = [heap EXCEPT ![s] = Content(h)] /\ pc' = [pc EXCEPT ![c] = "refused"]
          /\ UNCHANGED hostOf
    BY <1>1, <1>3, <1>6
  <2>2. Content(h)' = Content(h) /\ \A g \in Hosts : g # h => Content(g)' = Content(g)
    BY <1>1, <2>1, ContentAfterLookup
  <2>3. remaining' = remaining
    BY <2>2, RemainingSame DEF Left
  <2>4. phase' = [phase EXCEPT ![c] = "refused"]
    BY <2>1, <1>3, PhaseStep DEF Phases
  <2>5. host' = host
    BY <2>1, <1>2, <1>3 DEF host, TypeOK
  <2>6. remaining[h] > 0
    BY <1>3, <1>5, <1>6 DEF Left
  <2> QED
    BY <1>4, <2>3, <2>4, <2>5, <2>6 DEF PHL!Refuse
<1>7. CASE ~(Content(h).cooldown > 0)
  <2>1. /\ heap' = [heap EXCEPT ![s] = [Content(h) EXCEPT !.refCount = @ + 1]]
        /\ pc' = [pc EXCEPT ![c] = "select"] /\ hostOf' = [hostOf EXCEPT ![c] = h]
    BY <1>1, <1>7
  <2>2. /\ Content(h)' = [Content(h) EXCEPT !.refCount = @ + 1]
        /\ \A g \in Hosts : g # h => Content(g)' = Content(g)
    BY <1>1, <2>1, ContentAfterLookup
  <2>3. Content(h)'.cooldown = Content(h).cooldown
    BY <2>2, <1>3 DEF Object
  <2>4. remaining' = remaining
    BY <2>2, <2>3, RemainingSame DEF Left
  <2>5. phase' = [phase EXCEPT ![c] = "waiting"]
    BY <2>1, <1>3, PhaseStep DEF Phases
  <2>6. host' = [host EXCEPT ![c] = h]
    BY <2>1, <1>3 DEF host, TypeOK
  <2>7. remaining[h] = 0
    BY <1>5, <1>7 DEF Left
  <2> QED
    BY <1>4, <2>4, <2>5, <2>6, <2>7 DEF PHL!Admit
<1> QED
  BY <1>6, <1>7

\* The instance brings its own copy of Cardinality, with the same definition.
LEMMA SameCardinality == \A S : PHL!Cardinality(S) = Cardinality(S)
BY DEF PHL!Cardinality, Cardinality

LEMMA GrantImplements ==
  ASSUME IInv, NEW c \in Callers, Grant(c)
  PROVE  PHL!Enter(c)
<1>1. /\ pc[c] = "select" /\ heap[stateOf[c]].sem < MaxPerDomain
      /\ heap' = [heap EXCEPT ![stateOf[c]].sem = @ + 1]
      /\ pc' = [pc EXCEPT ![c] = "held"]
      /\ UNCHANGED <<domains, hostOf>>
  BY DEF Grant
<1>2. TypeOK
  BY DEF IInv
<1>3. /\ hostOf[c] \in Hosts /\ domains[hostOf[c]] = stateOf[c] /\ domains[hostOf[c]] # Nil
      /\ stateOf[c] \in States
      /\ heap[stateOf[c]].sem = Cardinality(Holders(stateOf[c]))
  BY <1>1, MappedObject DEF InCall
<1>4. phase[c] = "waiting" /\ host[c] = hostOf[c]
  BY <1>1 DEF phase, host
<1>5. Cardinality(PHL!HoldersOf(host[c])) < MaxPerDomain
  <2>1. PHL!HoldersOf(host[c]) = Holders(stateOf[c])
    BY <1>3, <1>4, HoldersSame, HoldersOfHost
  <2> QED
    BY <2>1, <1>1, <1>3
<1>6. phase' = [phase EXCEPT ![c] = "held"]
  BY <1>1, <1>2, PhaseStep DEF Phases
<1>7. host' = host
  BY <1>1, <1>2 DEF host, TypeOK
<1>8. remaining' = remaining
  <2>1. DOMAIN heap' = States /\ \A t \in States : heap'[t].cooldown = heap[t].cooldown
    BY <1>1, <1>2, <1>3 DEF TypeOK, Object
  <2> QED
    BY <2>1, <1>1, <1>2, <1>3, LeftSame
<1> QED
  BY <1>4, <1>5, <1>6, <1>7, <1>8, SameCardinality DEF PHL!Enter

LEMMA AbandonImplements ==
  ASSUME IInv, NEW c \in Callers, Abandon(c)
  PROVE  PHL!GiveUp(c)
<1>1. /\ pc[c] = "select" /\ pc' = [pc EXCEPT ![c] = "leaving"]
      /\ UNCHANGED <<domains, heap, hostOf>>
  BY DEF Abandon
<1>2. TypeOK
  BY DEF IInv
<1>3. phase[c] = "waiting" /\ phase' = [phase EXCEPT ![c] = "cancelled"]
  BY <1>1, <1>2, PhaseStep DEF Phases, phase
<1>4. host' = [host EXCEPT ![c] = Nil]
  BY <1>1, <1>2 DEF host, TypeOK
<1>5. remaining' = remaining
  BY <1>1, RemainingSame DEF Left, Content
<1> QED
  BY <1>3, <1>4, <1>5 DEF PHL!GiveUp

LEMMA LeaveWaitImplements ==
  ASSUME IInv, NEW c \in Callers, LeaveWait(c)
  PROVE  UNCHANGED <<phase, host, remaining>>
<1>1. /\ pc[c] = "leaving" /\ pc' = [pc EXCEPT ![c] = "cancelled"]
      /\ heap' = [heap EXCEPT ![stateOf[c]].refCount = @ - 1]
      /\ hostOf' = [hostOf EXCEPT ![c] = Nil]
      /\ UNCHANGED domains
  BY DEF LeaveWait, Away
<1>2. TypeOK
  BY DEF IInv
<1>3. stateOf[c] \in States
  BY <1>1, MappedObject DEF InCall
<1>4. phase' = phase /\ host' = host
  BY <1>1, <1>2 DEF phase, host, TypeOK
<1>5. DOMAIN heap' = States /\ \A t \in States : heap'[t].cooldown = heap[t].cooldown
  BY <1>1, <1>2, <1>3 DEF TypeOK, Object
<1> QED
  BY <1>1, <1>2, <1>3, <1>4, <1>5, LeftSame

LEMMA ReleaseImplements ==
  ASSUME IInv, NEW c \in Callers, Release(c)
  PROVE  PHL!Leave(c)
<1>1. /\ pc[c] = "held" /\ pc' = [pc EXCEPT ![c] = "idle"]
      /\ hostOf' = [hostOf EXCEPT ![c] = Nil]
      /\ UNCHANGED domains
  BY DEF Release, Away
<1>2. TypeOK
  BY DEF IInv
<1>3. stateOf[c] \in States /\ domains[hostOf[c]] = stateOf[c] /\ domains[hostOf[c]] # Nil
  BY <1>1, MappedObject DEF InCall
<1>4. heap' = [heap EXCEPT ![stateOf[c]].refCount = IF @ = 0 THEN 0 ELSE @ - 1,
                           ![stateOf[c]].sem = @ - 1]
  BY <1>3 DEF Release
<1>5. phase[c] = "held" /\ phase' = [phase EXCEPT ![c] = "idle"]
  BY <1>1, <1>2, PhaseStep DEF Phases, phase
<1>6. host' = [host EXCEPT ![c] = Nil]
  BY <1>1, <1>2 DEF host, TypeOK
<1>7. DOMAIN heap' = States /\ \A t \in States : heap'[t].cooldown = heap[t].cooldown
  BY <1>2, <1>3, <1>4 DEF TypeOK, Object
<1>8. remaining' = remaining
  BY <1>1, <1>2, <1>3, <1>7, LeftSame
<1> QED
  BY <1>5, <1>6, <1>8 DEF PHL!Leave

LEMMA ReportImplements ==
  ASSUME IInv, NEW c \in Callers, NEW h \in Hosts, ReportRateLimited(c, h)
  PROVE  PHL!Report(c, h)
<1> DEFINE obj == [Content(h) EXCEPT !.cooldown = Cooldown]
<1>1. PICK s \in Lookup(h) :
        /\ domains' = [domains EXCEPT ![h] = s]
        /\ heap' = [heap EXCEPT ![s] = obj]
  BY DEF ReportRateLimited
<1>2. pc[c] = "held" /\ UNCHANGED <<pc, hostOf>>
  BY DEF ReportRateLimited
<1>3. Content(h) \in Object
  BY ContentType DEF IInv
<1>4. PICK o : o = obj
  OBVIOUS
<1>5. Content(h)' = o /\ \A g \in Hosts : g # h => Content(g)' = Content(g)
  BY <1>1, <1>4, ContentAfterLookup
<1>6. o.cooldown = Cooldown
  BY <1>3, <1>4 DEF Object
<1>7. Left(h)' = Cooldown /\ \A g \in Hosts : g # h => Left(g)' = Left(g)
  BY <1>5, <1>6, LimitsPositive DEF Left
<1>8. remaining' = [remaining EXCEPT ![h] = Cooldown]
  BY <1>7 DEF remaining, Left
<1>9. phase[c] = "held" /\ phase' = phase /\ host' = host
  BY <1>2 DEF phase, host
<1> QED
  BY <1>8, <1>9 DEF PHL!Report

\* The clean-up forgets no cooldown that still runs.
LEMMA CleanupImplements ==
  ASSUME IInv, Cleanup
  PROVE  UNCHANGED <<phase, host, remaining>>
<1>1. /\ domains' = [h \in Hosts |-> IF Idle(h) THEN Nil ELSE domains[h]]
      /\ UNCHANGED <<heap, pc, hostOf>>
  BY DEF Cleanup
<1>2. phase' = phase /\ host' = host
  BY <1>1 DEF phase, host
<1>3. ASSUME NEW h \in Hosts
      PROVE  Left(h)' = Left(h)
  <2>1. CASE Idle(h)
    <3>1. Left(h) = 0
      <4>1. Content(h).cooldown \in Int /\ Content(h).cooldown < 0
        BY <2>1, ContentType DEF Idle, Content, IInv
      <4> QED
        BY <4>1 DEF Left
    <3>2. Content(h)' = New
      BY <1>1, <2>1 DEF Content
    <3> QED
      BY <3>1, <3>2 DEF Left, New
  <2>2. CASE ~Idle(h)
    BY <1>1, <2>2 DEF Left, Content
  <2> QED
    BY <2>1, <2>2
<1> QED
  BY <1>2, <1>3, RemainingSame

LEMMA TickImplements ==
  ASSUME IInv, Tick
  PROVE  PHL!Tick
<1>1. /\ heap' = [s \in States |-> [heap[s] EXCEPT !.cooldown = IF @ < 0 THEN @ ELSE @ - 1]]
      /\ UNCHANGED <<domains, pc, hostOf>>
  BY DEF Tick
<1>2. phase' = phase /\ host' = host
  BY <1>1 DEF phase, host
<1>3. ASSUME NEW h \in Hosts
      PROVE  Left(h)' = IF Left(h) = 0 THEN 0 ELSE Left(h) - 1
  <2>1. CASE domains[h] = Nil
    BY <1>1, <2>1 DEF Left, Content, New
  <2>2. CASE domains[h] # Nil
    <3>1. PICK s \in States : s = domains[h]
      BY <2>2 DEF IInv, TypeOK
    <3>2. heap[s] \in Object /\ heap[s].cooldown \in Int
      BY LimitsPositive DEF IInv, TypeOK, Object
    <3>3. heap'[s].cooldown = IF heap[s].cooldown < 0 THEN heap[s].cooldown
                                                      ELSE heap[s].cooldown - 1
      BY <1>1, <3>2 DEF Object
    <3>4. Content(h) = heap[s] /\ Content(h)' = heap'[s]
      BY <1>1, <2>2, <3>1 DEF Content
    <3> QED
      BY <3>2, <3>3, <3>4 DEF Left
  <2> QED
    BY <2>1, <2>2
<1>4. remaining' = [h \in Hosts |-> IF remaining[h] = 0 THEN 0 ELSE remaining[h] - 1]
  BY <1>3 DEF remaining, Left
<1> QED
  BY <1>2, <1>4 DEF PHL!Tick

\* Every behaviour of the limiter, seen through its callers' phases and the
\* hosts' cooldowns, is a behaviour of the abstract per-host limiter.
THEOREM Refinement == Spec => ImplementsPerHostLimiter
<1>1. Init => PHL!Init
  BY InitImplements
<1>2. IInv /\ [Next]_vars => [PHL!Next]_(PHL!vars)
  <2> SUFFICES ASSUME IInv, [Next]_vars
               PROVE  PHL!Next \/ UNCHANGED PHL!vars
    OBVIOUS
  <2>1. ASSUME NEW c \in Callers, NEW h \in Hosts, Acquire(c, h) \/ ReportRateLimited(c, h)
        PROVE  PHL!Next
    BY <2>1, AcquireImplements, ReportImplements DEF PHL!Next
  <2>2. ASSUME NEW c \in Callers, Grant(c) \/ Abandon(c) \/ Release(c)
        PROVE  PHL!Next
    BY <2>2, GrantImplements, AbandonImplements, ReleaseImplements DEF PHL!Next
  <2>3. ASSUME NEW c \in Callers, LeaveWait(c)
        PROVE  UNCHANGED PHL!vars
    BY <2>3, LeaveWaitImplements DEF PHL!vars
  <2>4. CASE Cleanup
    BY <2>4, CleanupImplements DEF PHL!vars
  <2>5. CASE Tick
    BY <2>5, TickImplements DEF PHL!Next
  <2>6. CASE ExitLoop \/ Stop \/ UNCHANGED vars
    <3>1. UNCHANGED <<domains, heap, pc, hostOf>>
      BY <2>6 DEF ExitLoop, Stop, vars
    <3> QED
      BY <3>1, RemainingSame DEF PHL!vars, phase, host, Left, Content
  <2> QED
    BY <2>1, <2>2, <2>3, <2>4, <2>5, <2>6 DEF Next
<1> QED
  BY <1>1, <1>2, InductiveInvariant, PTL DEF Spec, ImplementsPerHostLimiter, PHL!Spec
=============================================================================
