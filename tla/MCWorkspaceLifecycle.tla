------------------------ MODULE MCWorkspaceLifecycle ------------------------
(* Small instances of WorkspaceLifecycle for TLC.                          *)
EXTENDS WorkspaceLifecycle, TLC

CONSTANTS r1, r2, s1, s2, s3

\* One slot serialises the handlers; two let any pair of them interleave.
OneRequest  == {r1}
TwoRequests == {r1, r2}

OneSession    == {s1}
TwoSessions   == {s1, s2}
ThreeSessions == {s1, s2, s3}

\* Request slots and session ids are interchangeable.
Symmetry == Permutations(Requests) \cup Permutations(SessionIds)

AllOps      == OpNames
E2bOps      == OpNames \ {"restart", "reap"}
RailwayOps  == OpNames \ {"ensure"}
CleanupOps  == {"create", "pause", "delete", "sweep"}
EnsureOps   == {"create", "ensure", "webhook"}
MeteredOps  == {"create", "delete"}
PauseOps    == {"create", "pause"}
ResumeOps   == {"create", "pause", "ensure", "reconcile", "webhook"}
RetainOps   == {"create", "pause", "restart", "reap"}
WebhookOps  == {"create", "pause", "restart", "ensure", "webhook"}
=============================================================================
