------------------------------ MODULE MCRedis ------------------------------
(***************************************************************************)
(* The services of RedisServices for TLC.  They share no state, so a       *)
(* behaviour is that of one of them: `part` says whose.                    *)
(***************************************************************************)
EXTENDS RedisServices, TLC

CONSTANTS p, q

TwoProcs == {p, q}
OneUpstream == {"upstream"}
TwoHeaders == {"null", "token"}
TwoCodes == {"first", "second"}
OneUserCode == {"user code"}
TwoUsers == {"x", "y"}
TwoRecordings == {1, 2}
TwoTrials == {"t", "o"}

\* No definition names a process.
Symmetry == Permutations(TwoProcs)

VARIABLE part

RedisInit ==
  /\ part \in {"proxy", "login", "activity", "trials"}
  /\ Init /\ Device!Init /\ Activity!Init /\ Anon!Init
  /\ part # "proxy" => row = Down /\ access = NoAccess

RedisNext ==
  \/ part = "proxy" /\ Next /\ UNCHANGED <<part, codes, activity, trials>>
  \/ part = "login" /\ Device!Next /\ UNCHANGED <<part, vars, activity, trials>>
  \/ part = "activity" /\ Activity!Next /\ UNCHANGED <<part, vars, codes, trials>>
  \/ part = "trials" /\ Anon!Next /\ UNCHANGED <<part, vars, codes, activity>>

RedisSpec == RedisInit /\ [][RedisNext]_<<part, vars, codes, activity, trials>>

-----------------------------------------------------------------------------
\* The state of the service that runs has its type.
RedisTypeOK ==
  CASE part = "proxy" -> TypeOK
    [] part = "login" -> Device!TypeOK
    [] part = "activity" -> Activity!TypeOK
    [] part = "trials" -> Anon!TypeOK
=============================================================================
