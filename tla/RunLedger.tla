----------------------------- MODULE RunLedger -----------------------------
(***************************************************************************)
(* What the API promises of the runs of one workspace, whatever calls are  *)
(* in flight: a run is accepted once, starts at most once, finishes once,  *)
(* and never shares its context with another run that is not finished.     *)
(***************************************************************************)
CONSTANTS Runs, Contexts, None

VARIABLES status, context

vars == <<status, context>>

Unfinished == {"pending", "running"}
Finished == {"completed", "failed", "cancelled"}

Free(k, c) == c = None \/ \A j \in Runs \ {k} : status[j] \in Unfinished => context[j] # c

Become(k, s, c) ==
  /\ Free(k, c)
  /\ status' = [status EXCEPT ![k] = s]
  /\ context' = [context EXCEPT ![k] = c]

Init ==
  /\ status = [k \in Runs |-> "absent"]
  /\ context = [k \in Runs |-> None]

Accept(k, c) == status[k] = "absent" /\ Become(k, "pending", c)
Start(k, c) == status[k] = "pending" /\ Become(k, "running", c)
Finish(k, c) == status[k] \in Unfinished /\ \E s \in Finished : Become(k, s, c)

\* The context of a run that could not be started is given up.
Forget(k) == context' = [context EXCEPT ![k] = None] /\ UNCHANGED status

Next ==
  \E k \in Runs :
    \/ Forget(k)
    \/ \E c \in Contexts \cup {None} : Accept(k, c) \/ Start(k, c) \/ Finish(k, c)

Spec == Init /\ [][Next]_vars
=============================================================================
