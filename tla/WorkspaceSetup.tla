--------------------------- MODULE WorkspaceSetup ---------------------------
(***************************************************************************)
(* The setup commands of one workspace: the shell script that runs them in *)
(* the workspace and keeps its progress in files under .gitterm/setup, the *)
(* workspace_setup row of the API, and the two ways in which the row       *)
(* learns of the progress, reports that the script pushes and polls that   *)
(* read the files.                                                         *)
(*                                                                         *)
(* The script is launched when the workspace is created and again when the *)
(* API restarts the workspace; `pc` says how far each launch has got.  A   *)
(* report may arrive late, several times or never: the retries of          *)
(* report_setup are not counted.  A handler of the API reads first and     *)
(* updates the row later, so `handler` holds what the ones in flight know. *)
(*                                                                         *)
(* Left out: the log, the times, the execution id (a workspace has one).   *)
(*                                                                         *)
(* An operator whose name ends in _Bug is no part of the model: it is the  *)
(* operator after it with a plausible mistake, and PROJECT.json says which *)
(* property catches it.                                                    *)
(***************************************************************************)
EXTENDS Naturals

CONSTANTS
  Launches,      \* bound: how often the script is launched
  Handlers,      \* API handlers that may be in flight at once
  MaxBoot,       \* bound: boots that the script can tell apart
  Freezes,       \* a pause freezes processes (E2B) and does not kill them
  DoubleRestart, \* two calls of restartWorkspace may restart one workspace
  PidsRecur,     \* a process of a later boot may get the pid of an old one
  Pushes,        \* the workspace can reach the API
  Polls          \* the API polls the workspace (Daytona without tier 3)

NoPid == "no pid"

ASSUME LaunchesAssumption == NoPid \notin Launches
ASSUME MaxBootAssumption == MaxBoot \in Nat
ASSUME FlagsAssumption ==
  {Freezes, DoubleRestart, PidsRecur, Pushes, Polls} \subseteq BOOLEAN

VARIABLES
  phase,     \* the workspace: "running", "paused" or "terminated"
  boot,      \* what /proc/sys/kernel/random/boot_id stands for
  pids,      \* launches whose $$ is the pid of a living process
  due,       \* relaunches that restarts of the workspace still owe
  pc,        \* where the script of a launch is
  code,      \* the exit code that a launch's script holds in a variable
  files,     \* the files state and exit-code
  claim,     \* the directory claim with its files boot-id and pid
  record,    \* the workspace_setup row
  inflight,  \* reports sent that the API may still receive
  handler    \* the API's handlers

world == <<phase, boot, pids, due>>
script == <<pc, code, files, claim>>
api == <<record, inflight, handler>>
vars == <<phase, boot, pids, due, pc, code, files, claim, record, inflight, handler>>

-----------------------------------------------------------------------------
Terminal == {"succeeded", "failed"}
Statuses == {"waiting", "running"} \cup Terminal

\* 0, anything else, and no code at all.
Codes == {"none", "zero", "other"}

Points == {"idle", "start", "claim", "judge", "take", "remake", "mark", "wait",
           "ready", "begin", "report", "run", "code", "state", "tell",
           "retell", "over"}

Claims == [made : BOOLEAN, boot : 0..MaxBoot, pid : Launches \cup {NoPid}]
NoClaim == [made |-> FALSE, boot |-> 0, pid |-> NoPid]

Reports == [status : Statuses, exit : Codes]

HandlerStates == [pc : {"idle", "exit", "write"}, status : Statuses, exit : Codes]
NoHandler == [pc |-> "idle", status |-> "waiting", exit |-> "none"]

Init ==
  /\ phase = "running" /\ boot = 0 /\ pids = {} /\ due = 0
  /\ pc = [l \in Launches |-> "idle"]
  /\ code = [l \in Launches |-> "none"]
  /\ files = [state |-> "absent", exit |-> "none"]
  /\ claim = NoClaim
  /\ record = [status |-> "absent", exit |-> "none"]
  /\ inflight = {}
  /\ handler = [h \in Handlers |-> NoHandler]

At(l, p) == phase = "running" /\ pc[l] = p
Goto(l, p) == pc' = [pc EXCEPT ![l] = p]

-----------------------------------------------------------------------------
(* The workspace.                                                          *)

\* ( script ) & is a child of a shell that then exits; $$ is that shell.
Launch(l) ==
  /\ pc[l] = "idle"
  /\ Goto(l, "start")
  /\ pids' = pids \cup {l}

Launched == \E l \in Launches : pc[l] # "idle"

\* createWorkspace provisions the instance, which launches the script, and
\* inserts the row after that.
Provision(l) ==
  /\ phase = "running" /\ ~Launched
  /\ Launch(l)
  /\ UNCHANGED <<phase, boot, due, code, files, claim, api>>

InsertRecord ==
  /\ record.status = "absent" /\ Launched
  /\ record' = [record EXCEPT !.status = "waiting"]
  /\ UNCHANGED <<world, script, inflight, handler>>

ShellExits(l) ==
  /\ phase = "running" /\ l \in pids
  /\ pids' = pids \ {l}
  /\ UNCHANGED <<phase, boot, due, script, api>>

\* A shutdown may let the script's trap remove the claim.
KillAll ==
  /\ pc' = [l \in Launches |-> IF pc[l] = "idle" THEN "idle" ELSE "over"]
  /\ claim' \in {claim, NoClaim}
  /\ pids' = {}

Pause ==
  /\ phase = "running" /\ Launched
  /\ phase' = "paused" /\ due' = 0
  /\ IF Freezes THEN UNCHANGED <<pc, claim, pids>> ELSE KillAll
  /\ UNCHANGED <<boot, code, files, api>>

\* restartWorkspace and ensureRunning go on to relaunch the script; the
\* provider's own start and E2B's getStatus do not.
Resume ==
  /\ phase = "paused"
  /\ phase' = "running"
  /\ due' \in IF DoubleRestart THEN 0..2 ELSE 0..1
  /\ IF Freezes THEN UNCHANGED <<boot, pids>>
     ELSE /\ boot' \in {boot, boot + 1} \cap (0..MaxBoot)
          /\ pids' \in IF PidsRecur THEN SUBSET {l \in Launches : pc[l] # "idle"}
                       ELSE {{}}
  /\ UNCHANGED <<script, api>>

Terminate ==
  /\ phase # "terminated"
  /\ phase' = "terminated" /\ due' = 0
  /\ KillAll
  /\ UNCHANGED <<boot, code, files, api>>

\* relaunchWorkspaceSetup.
Relaunch(l) ==
  /\ phase = "running" /\ due > 0
  /\ due' = due - 1
  /\ IF record.status \in {"waiting", "running"} THEN Launch(l)
     ELSE UNCHANGED <<pc, pids>>
  /\ UNCHANGED <<phase, boot, code, files, claim, api>>

-----------------------------------------------------------------------------
(* The script, line by line.                                               *)

\* Runs the commands of a setup that is over once more.
Start_Bug(l) ==
  /\ At(l, "start")
  /\ Goto(l, "claim")
  /\ UNCHANGED <<world, code, files, claim, api>>

\* A setup that is over is only reported again.
Start(l) ==
  /\ At(l, "start")
  /\ Goto(l, IF files.state \in Terminal THEN "retell" ELSE "claim")
  /\ UNCHANGED <<world, code, files, claim, api>>

\* mkdir is atomic: it fails if the directory is there.
MakeClaim(l, otherwise) ==
  IF claim.made THEN claim' = claim /\ Goto(l, otherwise)
  ELSE claim' = [NoClaim EXCEPT !.made = TRUE] /\ Goto(l, "mark")

Claim(l) ==
  /\ At(l, "claim")
  /\ MakeClaim(l, "judge")
  /\ UNCHANGED <<world, code, files, api>>

\* Takes every claim for a live one.
Judge_Bug(l) ==
  /\ At(l, "judge")
  /\ Goto(l, "over")
  /\ UNCHANGED <<world, code, files, claim, api>>

\* kill -0 finds a process with the pid in the claim, of this boot.
Judge(l) ==
  /\ At(l, "judge")
  /\ Goto(l, IF claim.boot = boot /\ claim.pid \in pids THEN "over" ELSE "take")
  /\ UNCHANGED <<world, code, files, claim, api>>

Take(l) ==
  /\ At(l, "take")
  /\ claim' = NoClaim
  /\ Goto(l, "remake")
  /\ UNCHANGED <<world, code, files, api>>

Remake(l) ==
  /\ At(l, "remake")
  /\ MakeClaim(l, "over")
  /\ UNCHANGED <<world, code, files, api>>

\* Swaps the two files.
Mark_Bug(l) ==
  /\ At(l, "mark")
  /\ claim' = IF claim.made THEN [claim EXCEPT !.boot = l, !.pid = boot] ELSE claim
  /\ Goto(l, "wait")
  /\ UNCHANGED <<world, code, files, api>>

\* boot-id and pid, of which the first alone says no more than neither.  The
\* writes fail, and the script goes on, if the directory has gone.
Mark(l) ==
  /\ At(l, "mark")
  /\ claim' = IF claim.made THEN [claim EXCEPT !.boot = boot, !.pid = l] ELSE claim
  /\ Goto(l, "wait")
  /\ UNCHANGED <<world, code, files, api>>

WriteState(l, at, state, next) ==
  /\ At(l, at)
  /\ files' = [files EXCEPT !.state = state]
  /\ Goto(l, next)
  /\ UNCHANGED <<world, code, claim, api>>

Wait(l) == WriteState(l, "wait", "waiting", "ready")

\* The agent answers, or does not in 150 attempts.
Ready(l) ==
  /\ At(l, "ready")
  /\ \/ Goto(l, "begin") /\ code' = code
     \/ Goto(l, "code") /\ code' = [code EXCEPT ![l] = "other"]
  /\ UNCHANGED <<world, files, claim, api>>

BeginRun(l) ==
  WriteState(l, "begin", "running", IF Pushes THEN "report" ELSE "run")

\* report_setup: whatever becomes of the report, the script goes on.
Send(l, at, m, next) ==
  /\ At(l, at)
  /\ inflight' = IF Pushes THEN inflight \cup {m} ELSE inflight
  /\ Goto(l, next)

ReportRunning(l) ==
  /\ Send(l, "report", [status |-> "running", exit |-> "none"], "run")
  /\ UNCHANGED <<world, code, files, claim, record, handler>>

\* bash -e script.sh
RunCommands(l) ==
  /\ At(l, "run")
  /\ \E c \in {"zero", "other"} : code' = [code EXCEPT ![l] = c]
  /\ Goto(l, "code")
  /\ UNCHANGED <<world, files, claim, api>>

WriteCode(l) ==
  /\ At(l, "code")
  /\ files' = [files EXCEPT !.exit = code[l]]
  /\ Goto(l, "state")
  /\ UNCHANGED <<world, code, claim, api>>

Finish(l) ==
  WriteState(l, "state", IF code[l] = "zero" THEN "succeeded" ELSE "failed", "tell")

\* The status comes from the file, the code from the variable; the trap
\* removes the claim, whoever has it now.
Tell(l) ==
  /\ Send(l, "tell", [status |-> files.state, exit |-> code[l]], "over")
  /\ claim' = NoClaim
  /\ UNCHANGED <<world, code, files, record, handler>>

\* Reports the variable, which nothing has set.
Retell_Bug(l) ==
  /\ Send(l, "retell", [status |-> files.state, exit |-> code[l]], "over")
  /\ UNCHANGED <<world, code, files, claim, record, handler>>

\* An exit code that is not there is reported as 1.
Retell(l) ==
  /\ Send(l, "retell", [status |-> files.state,
                        exit |-> IF files.exit = "none" THEN "other" ELSE files.exit],
          "over")
  /\ UNCHANGED <<world, code, files, claim, record, handler>>

-----------------------------------------------------------------------------
(* The API.                                                                *)

\* report_setup gives up, or the network drops what it sent.
Lose(m) ==
  /\ m \in inflight
  /\ inflight' = inflight \ {m}
  /\ UNCHANGED <<world, script, record, handler>>

Open == record.status \in {"waiting", "running"}

\* reportSetupStatus rejects a report of any other status, and reads the
\* workspace and the row.  The report stays in flight: the script sends it
\* again if the answer is lost.
Receive(h, m) ==
  /\ handler[h] = NoHandler /\ m \in inflight
  /\ m.status \in {"running"} \cup Terminal
  /\ phase # "terminated" /\ Open
  /\ handler' = [handler EXCEPT ![h] = [pc |-> "write", status |-> m.status,
                                        exit |-> m.exit]]
  /\ UNCHANGED <<world, script, record, inflight>>

\* reconcileWorkspaceSetupStatus reads the files one after the other.
PollState(h) ==
  /\ Polls /\ handler[h] = NoHandler
  /\ phase = "running" /\ Open /\ files.state \in {"running"} \cup Terminal
  /\ handler' = [handler EXCEPT ![h] = [pc |-> "exit", status |-> files.state,
                                        exit |-> "none"]]
  /\ UNCHANGED <<world, script, record, inflight>>

\* The provider throws when the workspace is not running.
PollExit(h) ==
  /\ handler[h].pc = "exit"
  /\ handler' =
       IF phase # "running" THEN [handler EXCEPT ![h] = NoHandler]
       ELSE [handler EXCEPT ![h].pc = "write",
                            ![h].exit = IF handler[h].status = "running"
                                        THEN "none" ELSE files.exit]
  /\ UNCHANGED <<world, script, record, inflight>>

\* A row that never was "running" cannot be over.
AllowedStatuses_Bug(status) == IF status = "running" THEN {"waiting"} ELSE {"running"}

AllowedStatuses(status) ==
  IF status = "running" THEN {"waiting"} ELSE {"waiting", "running"}

\* Trusts what the handler has read.
Update_Bug(h) ==
  /\ handler[h].pc = "write"
  /\ record' = [status |-> handler[h].status, exit |-> handler[h].exit]
  /\ handler' = [handler EXCEPT ![h] = NoHandler]
  /\ UNCHANGED <<world, script, inflight>>

Update(h) ==
  /\ handler[h].pc = "write"
  /\ record' = IF record.status \in AllowedStatuses(handler[h].status)
               THEN [status |-> handler[h].status, exit |-> handler[h].exit]
               ELSE record
  /\ handler' = [handler EXCEPT ![h] = NoHandler]
  /\ UNCHANGED <<world, script, inflight>>

-----------------------------------------------------------------------------
Script(l) ==
  \/ Start(l) \/ Claim(l) \/ Judge(l) \/ Take(l) \/ Remake(l) \/ Mark(l)
  \/ Wait(l) \/ Ready(l) \/ BeginRun(l) \/ ReportRunning(l) \/ RunCommands(l)
  \/ WriteCode(l) \/ Finish(l) \/ Tell(l) \/ Retell(l)

Workspace ==
  \/ InsertRecord \/ Pause \/ Resume \/ Terminate
  \/ \E l \in Launches : Provision(l) \/ ShellExits(l) \/ Relaunch(l)

Handle(h) == PollExit(h) \/ Update(h)

Next ==
  \/ Workspace
  \/ \E l \in Launches : Script(l)
  \/ \E m \in inflight : Lose(m)
  \/ \E h \in Handlers :
       \/ PollState(h) \/ Handle(h)
       \/ \E m \in inflight : Receive(h, m)

Spec == Init /\ [][Next]_vars

-----------------------------------------------------------------------------
(* Fairness.  The script goes on while its workspace runs, and its commands *)
(* end; a handler that has begun goes on; a report that stays in flight is  *)
(* received; whoever waits for the setup asks for its status again and      *)
(* again.  Nothing is assumed of pauses, restarts, or the network.          *)

FairSpec ==
  /\ Spec
  /\ \A l \in Launches : WF_vars(Script(l))
  /\ \A h \in Handlers : WF_vars(Handle(h))
  /\ WF_vars(\E h \in Handlers, m \in inflight : Receive(h, m))
  /\ WF_vars(\E h \in Handlers : PollState(h))

-----------------------------------------------------------------------------
TypeOK ==
  /\ phase \in {"running", "paused", "terminated"}
  /\ boot \in 0..MaxBoot
  /\ pids \subseteq Launches
  /\ due \in 0..2
  /\ pc \in [Launches -> Points]
  /\ code \in [Launches -> Codes]
  /\ files \in [state : Statuses \cup {"absent"}, exit : Codes]
  /\ claim \in Claims
  /\ record \in [status : Statuses \cup {"absent"}, exit : Codes]
  /\ inflight \subseteq Reports
  /\ handler \in [Handlers -> HandlerStates]

\* The row only moves forward, from waiting to running to its result, and
\* keeps the result: late and repeated reports and polls change nothing.
RecordOnlyAdvances ==
  [][/\ record.status \in Terminal => record' = record
     /\ record.status = "running" => record'.status # "waiting"]_vars

\* Where a pause kills the script, the row that says the setup is over says
\* what the files say, and the exit code that goes with it, however often the
\* script was killed and launched again, and whatever a poll read meanwhile.
RecordIsTrue ==
  record.status \in Terminal =>
    /\ record = [status |-> files.state, exit |-> files.exit]
    /\ record.exit = "zero" <=> record.status = "succeeded"

\* Where a pause kills the script, a setup that is over stays over: no later
\* launch runs its commands again.
FinishedStaysFinished ==
  [][files.state \in Terminal => files' = files]_vars

\* The commands that a launch has begun come to an end unless the workspace
\* stops, also after launches that were killed and left their claim behind.
SetupCompletes ==
  (\E l \in Launches : pc[l] = "start")
     ~> (files.state \in Terminal \/ phase # "running")

\* While the workspace runs, the row learns that the setup is over.
FinishedIsKnown ==
  (files.state \in Terminal /\ record.status # "absent")
     ~> (record.status \in Terminal \/ phase # "running")

\* A restart never runs the commands beside the ones it finds running.
OneSetupAtATime ==
  \A k, l \in Launches : pc[k] = "run" /\ pc[l] = "run" => k = l

=============================================================================
