-------------------------- MODULE MCWorkspaceSetup --------------------------
(* Small instances of WorkspaceSetup for TLC.                              *)
EXTENDS WorkspaceSetup, TLC

CONSTANTS l1, l2, l3, h1, h2

TwoLaunches == {l1, l2}
ThreeLaunches == {l1, l2, l3}
OneHandler == {h1}
TwoHandlers == {h1, h2}

\* Launches and handlers are interchangeable.
Symmetry == Permutations(Launches) \cup Permutations(Handlers)
=============================================================================
