---------------------------- MODULE PreviewFlights ----------------------------
(***************************************************************************)
(* What GetSummary promises to the handlers that call it, whatever cache   *)
(* and limiters it uses: one flight per URL at a time, a result that is    *)
(* fixed when the flight lands, and to every request one answer, the       *)
(* result of the flight it is on, or a preview of the same URL found       *)
(* before, or an error.  SummaryService implements this module.            *)
(*                                                                         *)
(* A flight is named by the request that leads it.  The result of a flight *)
(* is a preview, also named by the leader, or Nil.                         *)
(***************************************************************************)
CONSTANTS Requests, Urls, Nil

VARIABLES
  target,    \* the URL of each request
  gone,      \* requests whose client is gone or out of time
  seat,      \* the flight each request is on, its own when it leads, or Nil
  flying,    \* the flight under way per URL, or Nil
  landed,    \* flights whose result is out
  found,     \* those that found a preview
  answer     \* what each request got: "none" so far, "error", Nil or a preview

vars == <<target, gone, seat, flying, landed, found, answer>>

Init ==
  /\ target \in [Requests -> Urls]
  /\ gone = {} /\ landed = {} /\ found = {}
  /\ seat = [r \in Requests |-> Nil]
  /\ flying = [u \in Urls |-> Nil]
  /\ answer = [r \in Requests |-> "none"]
-----------------------------------------------------------------------------
Unanswered(r) == answer[r] = "none"
Return(r, v) == Unanswered(r) /\ answer' = [answer EXCEPT ![r] = v]

ClientGone(r) ==
  /\ gone' = gone \cup {r}
  /\ UNCHANGED <<target, seat, flying, landed, found, answer>>

TakeOff(r) ==
  /\ Unanswered(r) /\ seat[r] = Nil /\ flying[target[r]] = Nil
  /\ seat' = [seat EXCEPT ![r] = r]
  /\ flying' = [flying EXCEPT ![target[r]] = r]
  /\ UNCHANGED <<target, gone, landed, found, answer>>

\* Request r joins flight f, under way or just over.
Board(r, f) ==
  /\ Unanswered(r) /\ seat[r] = Nil
  /\ seat[f] = f /\ target[f] = target[r]
  /\ seat' = [seat EXCEPT ![r] = f]
  /\ UNCHANGED <<target, gone, flying, landed, found, answer>>

Land(r) ==
  /\ flying[target[r]] = r
  /\ flying' = [flying EXCEPT ![target[r]] = Nil]
  /\ landed' = landed \cup {r}
  /\ found' \in {found, found \cup {r}}
  /\ UNCHANGED <<target, gone, seat, answer>>

\* A flight ends without a result: an error to its leader, nothing to the others.
Abort(r) ==
  /\ flying[target[r]] = r
  /\ flying' = [flying EXCEPT ![target[r]] = Nil]
  /\ Return(r, "error")
  /\ UNCHANGED <<target, gone, seat, landed, found>>
-----------------------------------------------------------------------------
AnswerLanded(r) ==
  /\ seat[r] \in landed
  /\ Return(r, IF seat[r] \in found THEN seat[r] ELSE Nil)
  /\ UNCHANGED <<target, gone, seat, flying, landed, found>>

\* From the cache, to a request that is on no flight.
AnswerCached(r) ==
  /\ seat[r] = Nil
  /\ \E f \in found : target[f] = target[r] /\ Return(r, f)
  /\ UNCHANGED <<target, gone, seat, flying, landed, found>>

\* A request on another's flight is given an error only when its own client is gone.
GiveUp(r) ==
  /\ seat[r] \notin {Nil, r} /\ r \in gone
  /\ Return(r, "error")
  /\ UNCHANGED <<target, gone, seat, flying, landed, found>>

Next ==
  \E r \in Requests :
    \/ ClientGone(r) \/ TakeOff(r) \/ Land(r) \/ Abort(r)
    \/ \E f \in Requests : Board(r, f)
    \/ AnswerLanded(r) \/ AnswerCached(r) \/ GiveUp(r)

Spec == Init /\ [][Next]_vars
=============================================================================
