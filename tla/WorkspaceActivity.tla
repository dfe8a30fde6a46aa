-------------------------- MODULE WorkspaceActivity --------------------------
(***************************************************************************)
(* When one workspace was last used: what the API writes down of it, and   *)
(* what the idle pass of the reaper makes of that.                         *)
(*                                                                         *)
(* Each request to a running workspace records the time in Redis, and      *)
(* first takes a throttle key there; only who gets the key writes          *)
(* lastActiveAt as well.  Redis may fail at any call: then a recording     *)
(* writes lastActiveAt, and the pass believes it.                          *)
(*                                                                         *)
(* The pass reads the row in the query of the candidates and Redis later,  *)
(* when it filters them, and a recording may take steps between the two.   *)
(* The query goes by the shortest timeout of any plan, the filter by the   *)
(* timeout of the workspace.                                               *)
(*                                                                         *)
(* Times are kept as ages in ticks, up to the first one that is past the   *)
(* timeout; a recording takes at most Flight ticks, a pass less than one,  *)
(* and the database works.                                                 *)
(*                                                                         *)
(* An operator whose name ends in _Bug is no part of the model: it is the  *)
(* operator after it with a plausible mistake, and PROJECT.json says which *)
(* property catches it.                                                    *)
(***************************************************************************)
EXTENDS Integers

CONSTANTS
  Requests,  \* recordings that may be in flight at once
  Timeout,   \* idleTimeoutMinutes of the owner's plan
  Tightest,  \* the shortest timeout of all plans and of the settings
  Throttle,  \* LAST_ACTIVE_DB_PERSIST_THROTTLE_SECONDS
  Flight     \* bound on the ticks a recording takes

VARIABLES
  used,      \* ticks since the last use whose recording has returned
  redis,     \* age of the timestamp in Redis, or Missing
  stored,    \* age of lastActiveAt
  key,       \* remaining ticks of the throttle key
  req,       \* the recordings in flight
  pass,      \* the idle pass: what it read of the row, and whether it listed it
  lost       \* whether the SET of a later use failed since the one Redis has

vars == <<used, redis, stored, key, req, pass, lost>>

-----------------------------------------------------------------------------
Horizon == Timeout + 1
Ages == 0..Horizon

Missing == -1

\* age: of the time that is recorded.
Calls == [pc : {"idle", "take", "set", "store", "fallback"}, won : BOOLEAN, age : 0..Flight]
NoCall == [pc |-> "idle", won |-> FALSE, age |-> 0]

\* row, unused, behind: the ages of lastActiveAt and of the last use, and whether a SET
\* was lost, when the candidates were read.
Passes == [pc : {"none", "read", "listed"}, row : Ages, unused : Ages, behind : BOOLEAN]
NoPass == [pc |-> "none", row |-> 0, unused |-> 0, behind |-> FALSE]

Init ==
  /\ used = 0 /\ stored = 0
  /\ redis = Missing
  /\ key = 0
  /\ req = [r \in Requests |-> NoCall]
  /\ pass = NoPass
  /\ lost = FALSE

At(r, pc) == req[r].pc = pc
Goto(r, pc) == req' = [req EXCEPT ![r].pc = pc]
Return(r) ==
  /\ req' = [req EXCEPT ![r] = NoCall]
  /\ used' = IF req[r].age < used THEN req[r].age ELSE used

\* recordWorkspaceActivity
Record(r) ==
  /\ At(r, "idle")
  /\ Goto(r, "take")
  /\ UNCHANGED <<used, redis, stored, key, pass, lost>>

\* SET EX without NX: every use renews the key.
Taken_Bug == Throttle

\* The key is left alone until its end.
Taken == IF key = 0 THEN Throttle ELSE key

\* An error before the timestamp is set: what Redis has of it is out of date.
Fails(r) == Goto(r, "fallback") /\ lost' = (redis # Missing)

\* SET EX NX, whose answer may be lost after its effect.
RecordTake(r) ==
  /\ At(r, "take")
  /\ \/ /\ key' = Taken
        /\ \/ req' = [req EXCEPT ![r].pc = "set", ![r].won = (key = 0)] /\ lost' = lost
           \/ Fails(r)
     \/ Fails(r) /\ key' = key
  /\ UNCHANGED <<used, redis, stored, pass>>

RecordSet(r) ==
  /\ At(r, "set")
  /\ \/ /\ redis' = req[r].age /\ lost' = FALSE
        /\ \/ /\ IF req[r].won THEN Goto(r, "store") /\ used' = used ELSE Return(r)
           \/ Goto(r, "fallback") /\ used' = used
     \/ Fails(r) /\ UNCHANGED <<redis, used>>
  /\ UNCHANGED <<stored, key, pass>>

\* updateWorkspaceByIdAndInvalidate, after SET and in the catch block.
RecordStore(r) ==
  /\ At(r, "store") \/ At(r, "fallback")
  /\ stored' = req[r].age
  /\ Return(r)
  /\ UNCHANGED <<redis, key, pass, lost>>

Quiet == \A r \in Requests : At(r, "idle")

\* getIdleWorkspaces reads the candidates.  A pass that starts while a use is being
\* recorded is not followed: what it should see of that use is open.
IdleQuery ==
  /\ pass.pc # "read" /\ Quiet
  /\ stored > Tightest
  /\ pass' = [pc |-> "read", row |-> stored, unused |-> used, behind |-> lost]
  /\ UNCHANGED <<used, redis, stored, key, req, lost>>

\* filterIdleWorkspacesByRedisActivityWith: a time from Redis goes before the row's.
Seen(answer) == IF answer = Missing THEN pass.row ELSE answer

\* MGET has the timestamp, has none, or fails.
IdleFilter ==
  /\ pass.pc = "read"
  /\ \E answer \in {redis, Missing} :
       pass' = IF Seen(answer) > Timeout THEN [pass EXCEPT !.pc = "listed"] ELSE NoPass
  /\ UNCHANGED <<used, redis, stored, key, req, lost>>

\* Redis loses the timestamp: by its TTL, an eviction or a restart.
Forget ==
  /\ redis' = Missing /\ lost' = FALSE
  /\ UNCHANGED <<used, stored, key, req, pass>>

Older(n) == IF n < Horizon THEN n + 1 ELSE n

Tick ==
  /\ pass.pc # "read"
  /\ \A r \in Requests : At(r, "idle") \/ req[r].age < Flight
  /\ req' = [r \in Requests |-> IF At(r, "idle") THEN NoCall ELSE [req[r] EXCEPT !.age = @ + 1]]
  /\ used' = Older(used) /\ stored' = Older(stored)
  /\ redis' = IF redis = Missing THEN Missing ELSE Older(redis)
  /\ key' = IF key = 0 THEN 0 ELSE key - 1
  /\ UNCHANGED <<pass, lost>>

Recording(r) == Record(r) \/ RecordTake(r) \/ RecordSet(r) \/ RecordStore(r)

Next == (\E r \in Requests : Recording(r)) \/ IdleQuery \/ IdleFilter \/ Forget \/ Tick

Spec == Init /\ [][Next]_vars

-----------------------------------------------------------------------------
(* Properties.                                                             *)

\* Every age is one the clock can have reached.
TypeOK ==
  /\ used \in Ages /\ stored \in Ages
  /\ redis \in Ages \cup {Missing}
  /\ key \in 0..Throttle
  /\ req \in [Requests -> Calls]
  /\ pass \in Passes /\ lost \in BOOLEAN

\* However Redis fails or forgets, a workspace that is listed as idle had not been used
\* for its timeout, less the throttle and the time a recording takes, when the pass read
\* its row: lastActiveAt is that close behind.  If the SET of a later use than the one in
\* Redis was lost, lastActiveAt has that use, but is compared with the shortest timeout
\* of all plans alone.
ListedIsIdle ==
  pass.pc = "listed" =>
    IF pass.behind THEN pass.unused + Flight > Tightest
                   ELSE pass.unused + Throttle + Flight > Timeout

\* getIdleWorkspaces: "idle beyond the timeout".
ListedIsIdleBeyondTimeout == pass.pc = "listed" => pass.unused > Timeout
=============================================================================
