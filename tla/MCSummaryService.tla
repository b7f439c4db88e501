--------------------------- MODULE MCSummaryService ---------------------------
(***************************************************************************)
(* SummaryService for TLC: two hosts, the first with two pages of which one*)
(* has no preview, the second with one page.  Requests are interchangeable,*)
(* so the safety run takes them up to permutation.  The liveness run takes  *)
(* no symmetry and fixes who asks for what.                                *)
(***************************************************************************)
EXTENDS SummaryService, TLC

CONSTANTS u1, u2, u3, h1, h2

MCUrls == {u1, u2, u3}
MCHosts == {h1, h2}
MCHostOf == (u1 :> h1) @@ (u2 :> h1) @@ (u3 :> h2)
MCHandlers == (u1 :> 2) @@ (u2 :> 1) @@ (u3 :> 1)
Symmetry == Permutations(Requests)

CONSTANTS r1, r2, r3
Targets(a, b, c) == target = (r1 :> a) @@ (r2 :> b) @@ (r3 :> c)

\* Either two pages of the slow host against one of the other host, or a flight
\* with a follower next to a scrape of the slow host.
LivenessInit == Init /\ (Targets(u1, u2, u3) \/ Targets(u3, u3, u1))
LivenessSpec == LivenessInit /\ [][Next]_vars /\ Fairness
=============================================================================
