----------------------------- MODULE MCServices -----------------------------
(***************************************************************************)
(* The four services whose handlers read rows of the database and write in *)
(* a later statement what they have decided: the exposed ports, the        *)
(* sharing of a workspace, the model credentials and the installations at  *)
(* GitHub.  They share no state, so a behaviour is that of one of them:    *)
(* `part` says whose.                                                      *)
(***************************************************************************)
EXTENDS WorkspacePorts, TableServices, TLC

CONSTANTS r1, r2, u1, u2

TwoRequests == {r1, r2}
TwoPorts == {1, 2}

\* The people who may be invited, or the ids of the installations at GitHub.
TwoNames == {u1, u2}

\* No definition names one of the requests, people or installations.
Symmetry == Permutations(TwoRequests) \cup Permutations(TwoNames)

VARIABLE part

\* The ports of a torn behaviour and the tables of a broken one are held to nothing: it
\* is cut off there.
PortsNext == ~torn /\ Next

\* MaxCounting bounds the handlers that are on their way through a count.  A raced
\* behaviour starts nothing more: the handlers in flight run out.
MaxCounting == 1
Counting == {r \in Handlers : call[r].pc \in {"involved", "count", "attached", "capacity"}}
SharingNext ==
  /\ Sharing!Next
  /\ raced => \E r \in Handlers : call[r] # Sharing!NoCall /\ call'[r] # call[r]
  /\ Cardinality(Counting') <= MaxCounting

\* MaxMail bounds the webhooks that wait.
MaxMail == 2
GitHubNext == ~broken /\ GitHub!Next /\ Cardinality(mail') <= MaxMail

ServicesInit ==
  /\ part \in {"ports", "sharing", "credentials", "github"}
  /\ Init /\ Sharing!Init /\ Credentials!Init /\ GitHub!Init
  /\ part # "ports" => provider = "aws"

ServicesNext ==
  \/ part = "ports" /\ PortsNext /\ UNCHANGED <<part, sharing, credentials, installations>>
  \/ part = "sharing" /\ SharingNext /\ UNCHANGED <<part, vars, credentials, installations>>
  \/ part = "credentials" /\ Credentials!Next /\ UNCHANGED <<part, vars, sharing, installations>>
  \/ part = "github" /\ GitHubNext /\ UNCHANGED <<part, vars, sharing, credentials>>

ServicesSpec == ServicesInit /\ [][ServicesNext]_<<part, vars, sharing, credentials, installations>>

-----------------------------------------------------------------------------
\* The state of the service that runs has its type.
ServicesTypeOK ==
  CASE part = "ports" -> TypeOK
    [] part = "sharing" -> Sharing!TypeOK
    [] part = "credentials" -> Credentials!TypeOK
    [] part = "github" -> GitHub!TypeOK
=============================================================================
