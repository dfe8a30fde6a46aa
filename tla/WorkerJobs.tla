----------------------------- MODULE WorkerJobs -----------------------------
(***************************************************************************)
(* The cron jobs that end what costs money, each with what it works on:    *)
(* the AWS sweep, the quota pass and the anon reaper.  They share no       *)
(* state, so a behaviour is that of one of them: `job` says whose.         *)
(***************************************************************************)
EXTENDS AwsProvision

CONSTANTS
  Metered,                              \* the workspaces of UsageMetering
  Stoppers, Reaper,                     \* who starts and stops them, and the quota pass
  Quota, MaxSession, MaxStarts, MaxDay, \* its quota and its bounds
  Trials, Visitor                       \* of AnonTry, whose reaper is another one

ASSUME MeteringAssumption ==
  MaxSession \in Nat \ {0} /\ MaxStarts \in Nat /\ MaxDay \in Nat

VARIABLES
  job,
  status, session, starts, usage, day, stop, over, ran, clashed,
  taken, launch, sandbox, trialRow, routes, late, mail, ender, stragglers, answered

meter == <<status, session, starts, usage, day, stop, over, ran, clashed>>
trials == <<taken, launch, sandbox, trialRow, routes, late, mail, ender, stragglers,
            answered>>

Metering == INSTANCE UsageMetering WITH
  Workspaces <- Metered, Requests <- Stoppers, call <- stop, listed <- over

Anon == INSTANCE AnonTry WITH
  row <- trialRow, listed <- stragglers

WorkersInit ==
  /\ job \in {"sweep", "quota", "trials"}
  /\ Init /\ Metering!Init /\ Anon!Init

WorkersNext ==
  \/ job = "sweep" /\ Next /\ UNCHANGED <<job, meter, trials>>
  \/ job = "quota" /\ Metering!Next /\ UNCHANGED <<job, vars, trials>>
  \/ job = "trials" /\ Anon!Next /\ UNCHANGED <<job, vars, meter>>

WorkersSpec == WorkersInit /\ [][WorkersNext]_<<job, vars, meter, trials>>

-----------------------------------------------------------------------------
\* The state of each job has its type.
WorkersTypeOK == TypeOK /\ Metering!TypeOK /\ Anon!TypeOK

\* UsageMetering: what a day is charged is what was run on it.
UsageIsExact == Metering!UsageIsExact

(* What a comment or a text of the interface says, and the code does not do. *)

\* UsageMetering: no day is charged more than was run on it.
NeverOverbilled == Metering!NeverOverbilled

\* UsageMetering: a day has one row.
OneRowPerDay == Metering!OneRowPerDay

\* AnonTry: a trial that is over is not routed to.
DeadTrialHasNoRoutes == Anon!TerminatedHasNoRoutes
=============================================================================
