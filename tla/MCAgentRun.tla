---------------------------- MODULE MCAgentRun ----------------------------
(***************************************************************************)
(* Instances of AgentRun for TLC.  The keys, the sessions and the          *)
(* invocations are model values and interchangeable.                       *)
(***************************************************************************)
EXTENDS AgentRun, TLC

CONSTANTS k1, k2, k3, s1, s2, r1, r2

TwoKeys == {k1, k2}
ThreeKeys == {k1, k2, k3}
OneSession == {s1}
TwoSessions == {s1, s2}
OneRequest == {r1}
TwoRequests == {r1, r2}

Symmetry == Permutations(Keys) \cup Permutations(Sessions) \cup Permutations(Requests)

=============================================================================
