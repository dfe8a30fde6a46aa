---------------------------- MODULE MCAgentLoop ----------------------------
(***************************************************************************)
(* Instances of AgentLoop for TLC.  Handlers that may die anywhere are     *)
(* checked one at a time, and those that overlap without a death: which of *)
(* the two, is chosen in the first state.                                  *)
(***************************************************************************)
EXTENDS AgentLoop, FiniteSets, TLC

CONSTANTS a, b, p, q, Choices

MCRuns == {a, b}
MCRequests == {p, q}
MCOneRequest == {p}

\* No definition names a run or a request.
MCSymmetry == Permutations(MCRuns) \cup Permutations(MCRequests)

VARIABLE mortal

Mortal == INSTANCE AgentLoop WITH CanCrash <- TRUE

Alone == Cardinality({x \in Requests : req[x] # NoCall}) <= 1

MCInit == Init /\ mortal \in Choices

MCNext ==
  /\ \/ mortal /\ Mortal!Next /\ Alone'
     \/ ~mortal /\ Next
  /\ UNCHANGED mortal

MCSpec == MCInit /\ [][MCNext]_<<vars, mortal>>
=============================================================================
