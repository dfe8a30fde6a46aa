------------------------------ MODULE AgentLoop ------------------------------
(***************************************************************************)
(* One agent loop of a user: the rows of `agent_loop`, `agent_loop_run`    *)
(* and `user_loop_run_quota`, and the handlers that start, restart, finish *)
(* and cancel the runs.                                                    *)
(*                                                                         *)
(* No statement of these handlers is conditional on the status it writes   *)
(* over, and the quota is read and written back, so `req` holds what each  *)
(* handler in flight remembers of its reads.  The worker that executes a   *)
(* run reports through the callback, which its agent calls: perhaps twice, *)
(* late, or never.  The counters successfulRuns and failedRuns and the     *)
(* settings other than automationEnabled, which no condition reads, are    *)
(* left out, and maxRuns stays as it is.                                   *)
(*                                                                         *)
(* An operator whose name ends in _Bug is no part of the model: it is the  *)
(* operator after it with a plausible mistake, and PROJECT.json says which *)
(* property catches it.                                                    *)
(***************************************************************************)
EXTENDS Integers, FiniteSets

CONSTANTS
  Runs,         \* row ids; a bound on the runs that are ever inserted
  Requests,     \* handler invocations that may be in flight at once
  MaxRuns,      \* loop.maxRuns
  MonthlyRuns,  \* MONTHLY_RUN_QUOTAS of the user's plan
  ExtraRuns,    \* the extra runs the user starts with
  CanCrash      \* may an API process die in the middle of a handler?

NoRun == "no run"

ASSUME RunsAssumption == NoRun \notin Runs
ASSUME RequestsAssumption == IsFiniteSet(Requests)
ASSUME BoundsAssumption ==
  MaxRuns \in Nat \ {0} /\ MonthlyRuns \in Nat /\ ExtraRuns \in Nat
ASSUME CrashAssumption == CanCrash \in BOOLEAN

VARIABLES
  loop,      \* the row of the loop
  run,       \* the rows of its runs
  quota,     \* the user's row of user_loop_run_quota
  due,       \* nextMonthlyResetAt has passed
  ledger,    \* what the grants and the rows of user_loop_run_event add up to
  paid,      \* the events of each run: those that use less those that add
  launched,  \* the runs the worker has been called for
  cut,       \* those whose creator died before they were paid for
  req        \* the handler invocations

vars == <<loop, run, quota, due, ledger, paid, launched, cut, req>>

-----------------------------------------------------------------------------
ActiveStatuses == {"pending", "running"}
\* "over": completed, failed or cancelled, which every condition treats alike.
\* "absent" before the insert, "deleted" afterwards: an id is used once.
RunStatuses == ActiveStatuses \cup {"over", "halted", "absent", "deleted"}

\* stale: active, and startedAt is more than AGENT_LOOP_RUN_TIMEOUT_MS ago.
RunRows == [status : RunStatuses, number : 0..MaxRuns, stale : BOOLEAN]
NoRow == [status |-> "absent", number |-> 0, stale |-> FALSE]

LoopRows == [status : {"active", "paused", "completed", "archived", "deleted"},
             total  : 0..MaxRuns,
             auto   : BOOLEAN]

Quotas == [monthly : Nat, extra : Nat]
NoQuota == [monthly |-> 0, extra |-> 0]

Ops == {"start", "restart", "rerun", "callback", "other"}
Points == {"idle", "insert", "deduct", "charge", "undo", "credential",
           "launch", "mark", "again", "total", "refund", "credit", "fail",
           "finish", "close", "halt", "cancel", "retire", "set",
           "reset"}
Goals == {"none", "close", "next", "end", "active", "paused"}

\* op "rerun" is a restart of a halted run, which pays again.
Calls == [op : Ops, pc : Points, run : Runs \cup {NoRun}, num : 0..MaxRuns,
          goal : Goals, held : Quotas]
NoCall == [op |-> "other", pc |-> "idle", run |-> NoRun, num |-> 0,
           goal |-> "none", held |-> NoQuota]

Init ==
  /\ \E auto \in BOOLEAN :
       loop = [status |-> "active", total |-> 0, auto |-> auto]
  /\ run = [r \in Runs |-> NoRow]
  /\ quota = [monthly |-> MonthlyRuns, extra |-> ExtraRuns]
  /\ due \in BOOLEAN
  /\ ledger = MonthlyRuns + ExtraRuns
  /\ paid = [r \in Runs |-> 0]
  /\ launched = {} /\ cut = {}
  /\ req = [q \in Requests |-> NoCall]

Active(r) == run[r].status \in ActiveStatuses
Exists(r) == run[r].status \notin {"absent", "deleted"}
Balance(x) == x.monthly + x.extra

At(q, pc) == req[q].pc = pc
Return(q) == req' = [req EXCEPT ![q] = NoCall]

\* The quota that is held is forgotten at every other step.
Goto(q, pc) ==
  IF pc = "idle" THEN Return(q)
  ELSE req' = [req EXCEPT ![q].pc = pc, ![q].held = NoQuota]
Hold(q, pc) == req' = [req EXCEPT ![q].pc = pc, ![q].held = quota]
Begin(q, call) == req[q] = NoCall /\ req' = [req EXCEPT ![q] = call]

\* UPDATE agent_loop_run SET status WHERE id: nothing happens to a row that is gone.
SetRun(r, status) ==
  run' = IF Exists(r) THEN [run EXCEPT ![r].status = status, ![r].stale = FALSE] ELSE run

\* The update that also sets startedAt.
StartedRun(r) ==
  run' = IF Exists(r)
         THEN [run EXCEPT ![r].status = "running", ![r].stale = FALSE] ELSE run

DeleteRun(r) ==
  run' = IF Exists(r) THEN [run EXCEPT ![r] = [NoRow EXCEPT !.status = "deleted"]]
         ELSE run

SetLoop(status) ==
  loop' = IF loop.status = "deleted" THEN loop ELSE [loop EXCEPT !.status = status]

KeepQuota == UNCHANGED <<quota, due, ledger, paid>>

-----------------------------------------------------------------------------
(* deductRunFromQuota and refundRunToQuota: a transaction that runs at     *)
(* READ COMMITTED, so that another may commit between its read and its     *)
(* update.                                                                 *)

\* The event refers to the run and the loop: without them the transaction fails.
EventAllowed(r) == Exists(r) /\ loop.status # "deleted"

\* What follows a deduction that failed.
Unpaid(op) == IF op = "start" THEN "undo" ELSE IF op = "callback" THEN "halt" ELSE "idle"

\* A deduction from a quota that is used up.
Exhausted_Bug(x) == Balance(x) < 0

Exhausted(x) == Balance(x) < 1

DeductRead(q) ==
  /\ At(q, "deduct")
  /\ IF Exhausted(quota) THEN Goto(q, Unpaid(req[q].op)) ELSE Hold(q, "charge")
  /\ UNCHANGED <<loop, run, launched>> /\ KeepQuota

\* Takes the run from both counts.
Deducted_Bug(x) == [monthly |-> IF x.monthly > 0 THEN x.monthly - 1 ELSE x.monthly,
                    extra |-> IF x.extra > 0 THEN x.extra - 1 ELSE x.extra]

Deducted(x) == IF x.monthly > 0 THEN [x EXCEPT !.monthly = @ - 1]
               ELSE [x EXCEPT !.extra = @ - 1]

DeductCommit(q) ==
  /\ At(q, "charge")
  /\ LET r == req[q].run
     IN  IF EventAllowed(r)
         THEN /\ quota' = Deducted(req[q].held)
              /\ ledger' = ledger - 1
              /\ paid' = [paid EXCEPT ![r] = @ + 1]
              /\ Goto(q, "credential")
         ELSE /\ UNCHANGED <<quota, ledger, paid>>
              /\ Goto(q, Unpaid(req[q].op))
  /\ UNCHANGED <<loop, run, due, launched>>

RefundRead(q) ==
  /\ At(q, "refund")
  /\ Hold(q, "credit")
  /\ UNCHANGED <<loop, run, launched>> /\ KeepQuota

\* An error of the transaction is logged and swallowed.
RefundCommit(q) ==
  /\ At(q, "credit")
  /\ LET r == req[q].run
     IN  IF EventAllowed(r)
         THEN /\ quota' = [quota EXCEPT !.extra = req[q].held.extra + 1]
              /\ ledger' = ledger + 1
              /\ paid' = [paid EXCEPT ![r] = @ - 1]
         ELSE UNCHANGED <<quota, ledger, paid>>
  /\ Goto(q, IF req[q].op = "start" THEN "fail" ELSE "idle")
  /\ UNCHANGED <<loop, run, due, launched>>

\* createLoop, here of another loop of the user, renews the monthly runs.
QuotaRead(q) ==
  /\ due /\ Begin(q, [NoCall EXCEPT !.pc = "reset"])
  /\ UNCHANGED <<loop, run, launched>> /\ KeepQuota

QuotaReset(q) ==
  /\ At(q, "reset")
  /\ quota' = [quota EXCEPT !.monthly = MonthlyRuns]
  /\ ledger' = ledger + MonthlyRuns - quota.monthly
  /\ due' = FALSE
  /\ Return(q)
  /\ UNCHANGED <<loop, run, paid, launched>>

-----------------------------------------------------------------------------
(* startRun, restartRun, and what they share with the callback.            *)

StartBegin(q) ==
  /\ loop.status = "active"
  /\ \A r \in Runs : run[r].status # "running"
  /\ loop.total < MaxRuns
  /\ Begin(q, [NoCall EXCEPT !.op = "start", !.pc = "insert", !.num = loop.total + 1])
  /\ UNCHANGED <<loop, run, launched>> /\ KeepQuota

\* The insert needs the loop; it fails when deleteLoop came first.
InsertRun(q) ==
  /\ At(q, "insert")
  /\ \/ /\ loop.status = "deleted"
        /\ run' = run /\ Return(q)
     \/ /\ loop.status # "deleted"
        /\ \E r \in Runs :
             /\ run[r].status = "absent"
             /\ run' = [run EXCEPT ![r] = [status |-> "pending", number |-> req[q].num,
                                           stale |-> FALSE]]
             /\ req' = [req EXCEPT ![q].pc = "deduct", ![q].run = r]
  /\ UNCHANGED <<loop, launched>> /\ KeepQuota

StartUndo(q) ==
  /\ At(q, "undo")
  /\ DeleteRun(req[q].run)
  /\ Return(q)
  /\ UNCHANGED <<loop, launched>> /\ KeepQuota

\* A run that was halted has to be paid for.
RestartPoint_Bug(op) == "credential"

RestartPoint(op) == IF op = "rerun" THEN "deduct" ELSE "credential"

RestartBegin(q, r) ==
  /\ loop.status # "deleted"
  /\ \E op \in {"restart", "rerun"} :
       /\ op = "restart" => Active(r) /\ run[r].stale
       /\ op = "rerun" => run[r].status = "halted"
       /\ Begin(q, [NoCall EXCEPT !.op = op, !.pc = RestartPoint(op), !.run = r])
  /\ UNCHANGED <<loop, run, launched>> /\ KeepQuota

\* What follows a startRunAsync that failed: a restart of a stalled run was not
\* charged for, and is not refunded.
NotStarted(op) == IF op = "restart" THEN "idle" ELSE "refund"

Startable(r) ==
  \/ run[r].status \in {"pending", "halted"}
  \/ run[r].status = "running" /\ run[r].stale

\* getModelConfig and getCredentialForRun may throw, and the run stays as it is;
\* the callback fails it when the loop has no credential.  With a credential,
\* startRunAsync reads the run again.
StartCheck(q) ==
  /\ At(q, "credential")
  /\ \/ Goto(q, IF Startable(req[q].run) THEN "launch" ELSE NotStarted(req[q].op)) /\ run' = run
     \/ Return(q) /\ run' = run
     \/ req[q].op = "callback" /\ SetRun(req[q].run, "over") /\ Return(q)
  /\ UNCHANGED <<loop, launched>> /\ KeepQuota

\* The GitHub token, the configuration or the provider fails: the row is deleted.
LaunchFails(q) ==
  /\ At(q, "launch")
  /\ DeleteRun(req[q].run)
  /\ Goto(q, NotStarted(req[q].op))
  /\ UNCHANGED <<loop, launched>> /\ KeepQuota

\* The call of the worker is not awaited.
Launch(q) ==
  /\ At(q, "launch")
  /\ launched' = launched \cup {req[q].run}
  /\ Goto(q, "mark")
  /\ UNCHANGED <<loop, run>> /\ KeepQuota

MarkRunning(q) ==
  /\ At(q, "mark")
  /\ StartedRun(req[q].run)
  /\ Goto(q, IF req[q].op \in {"start", "callback"} THEN "total" ELSE "again")
  /\ UNCHANGED <<loop, launched>> /\ KeepQuota

\* restartRun writes once more what startRunAsync has written.
MarkAgain(q) ==
  /\ At(q, "again")
  /\ StartedRun(req[q].run)
  /\ Return(q)
  /\ UNCHANGED <<loop, launched>> /\ KeepQuota

SetTotal(q) ==
  /\ At(q, "total")
  /\ loop' = IF loop.status = "deleted" THEN loop ELSE [loop EXCEPT !.total = req[q].num]
  /\ Return(q)
  /\ UNCHANGED <<run, launched>> /\ KeepQuota

StartFail(q) ==
  /\ At(q, "fail")
  /\ SetRun(req[q].run, "over")
  /\ Return(q)
  /\ UNCHANGED <<loop, launched>> /\ KeepQuota

-----------------------------------------------------------------------------
(* processAgentLoopCallback.                                               *)

\* A callback for a run that is neither pending nor running is ignored.  A failed
\* run ends there; a successful one may close the loop or start the next run.
CallbackBegin(q, r) ==
  /\ r \in launched /\ Active(r) /\ loop.status # "deleted"
  /\ LET last == run[r].number >= MaxRuns
         goals == {"end", "close",
                   IF last THEN "close" ELSE IF loop.auto THEN "next" ELSE "end"}
     IN  \E g \in goals :
           Begin(q, [NoCall EXCEPT !.op = "callback", !.pc = "finish", !.run = r,
                                   !.goal = g,
                                   !.num = IF g = "next" THEN run[r].number + 1 ELSE 0])
  /\ UNCHANGED <<loop, run, launched>> /\ KeepQuota

CallbackFinish(q) ==
  /\ At(q, "finish")
  /\ SetRun(req[q].run, "over")
  /\ CASE req[q].goal = "close" -> Goto(q, "close")
       [] req[q].goal = "next" -> req' = [req EXCEPT ![q].pc = "insert",
                                                     ![q].run = NoRun]
       [] OTHER -> Return(q)
  /\ UNCHANGED <<loop, launched>> /\ KeepQuota

CallbackClose(q) ==
  /\ At(q, "close")
  /\ SetLoop("completed")
  /\ Return(q)
  /\ UNCHANGED <<run, launched>> /\ KeepQuota

CallbackHalt(q) ==
  /\ At(q, "halt")
  /\ SetRun(req[q].run, "halted")
  /\ Return(q)
  /\ UNCHANGED <<loop, launched>> /\ KeepQuota

-----------------------------------------------------------------------------
(* The other handlers of the loop.                                         *)

CancelBegin(q, r) ==
  /\ Active(r)
  /\ Begin(q, [NoCall EXCEPT !.pc = "cancel", !.run = r])
  /\ UNCHANGED <<loop, run, launched>> /\ KeepQuota

\* The sandbox is not stopped.
CancelWrite(q) ==
  /\ At(q, "cancel")
  /\ SetRun(req[q].run, "over")
  /\ Return(q)
  /\ UNCHANGED <<loop, launched>> /\ KeepQuota

\* Only the pending runs are cancelled.
ArchiveRuns(q) ==
  /\ loop.status # "deleted"
  /\ Begin(q, [NoCall EXCEPT !.pc = "retire"])
  /\ run' = [r \in Runs |-> IF run[r].status = "pending"
                            THEN [run[r] EXCEPT !.status = "over", !.stale = FALSE]
                            ELSE run[r]]
  /\ UNCHANGED <<loop, launched>> /\ KeepQuota

ArchiveLoop(q) ==
  /\ At(q, "retire")
  /\ SetLoop("archived")
  /\ Return(q)
  /\ UNCHANGED <<run, launched>> /\ KeepQuota

\* pauseLoop and resumeLoop.
StatusBegin(q, goal) ==
  /\ goal = "paused" => loop.status = "active"
  /\ goal = "active" => loop.status = "paused"
  /\ Begin(q, [NoCall EXCEPT !.pc = "set", !.goal = goal])
  /\ UNCHANGED <<loop, run, launched>> /\ KeepQuota

StatusWrite(q) ==
  /\ At(q, "set")
  /\ SetLoop(req[q].goal)
  /\ Return(q)
  /\ UNCHANGED <<run, launched>> /\ KeepQuota

\* completeLoop does not look at the status.
CompleteLoop ==
  /\ loop.status # "deleted"
  /\ SetLoop("completed")
  /\ UNCHANGED <<run, launched, req>> /\ KeepQuota

UpdateLoop ==
  /\ loop.status # "deleted"
  /\ loop' = [loop EXCEPT !.auto = ~@]
  /\ UNCHANGED <<run, launched, req>> /\ KeepQuota

\* The rows of the runs go with the loop; those of the events stay.
DeleteLoop ==
  /\ loop.status # "deleted"
  /\ loop' = [status |-> "deleted", total |-> 0, auto |-> FALSE]
  /\ run' = [r \in Runs |-> IF Exists(r) THEN [NoRow EXCEPT !.status = "deleted"]
                            ELSE run[r]]
  /\ UNCHANGED <<launched, req>> /\ KeepQuota

-----------------------------------------------------------------------------
(* The environment.                                                        *)

\* Forty minutes pass, in which every handler that knows the run has returned.
Stalls(r) ==
  /\ Active(r) /\ ~run[r].stale
  /\ \A q \in Requests : req[q].run # r
  /\ run' = [run EXCEPT ![r].stale = TRUE]
  /\ UNCHANGED <<loop, launched, req>> /\ KeepQuota

\* A run that is pending and unpaid is deleted or halted by its creator alone.
Crash(q) ==
  /\ CanCrash /\ ~At(q, "idle")
  /\ Return(q)
  /\ cut' = IF req[q].op \in {"start", "callback"}
                /\ req[q].pc \in {"deduct", "charge", "undo", "halt"}
            THEN cut \cup {req[q].run} ELSE cut
  /\ UNCHANGED <<loop, run, launched>> /\ KeepQuota

-----------------------------------------------------------------------------
Handling(q) ==
  \/ InsertRun(q) \/ DeductRead(q) \/ DeductCommit(q) \/ StartUndo(q)
  \/ StartCheck(q) \/ LaunchFails(q) \/ Launch(q)
  \/ MarkRunning(q) \/ MarkAgain(q) \/ SetTotal(q) \/ RefundRead(q)
  \/ RefundCommit(q) \/ StartFail(q) \/ CallbackFinish(q) \/ CallbackClose(q)
  \/ CallbackHalt(q) \/ CancelWrite(q) \/ ArchiveLoop(q)
  \/ StatusWrite(q) \/ QuotaReset(q)

Next ==
  \/ /\ \/ \E q \in Requests :
             \/ StartBegin(q) \/ ArchiveRuns(q) \/ QuotaRead(q) \/ Handling(q)
             \/ \E r \in Runs : RestartBegin(q, r) \/ CallbackBegin(q, r) \/ CancelBegin(q, r)
             \/ \E goal \in {"active", "paused"} : StatusBegin(q, goal)
        \/ \E r \in Runs : Stalls(r)
        \/ CompleteLoop \/ UpdateLoop \/ DeleteLoop
     /\ UNCHANGED cut
  \/ \E q \in Requests : Crash(q)

Spec == Init /\ [][Next]_vars

-----------------------------------------------------------------------------
(* Properties.                                                             *)

\* The quota is never overdrawn, also by deductions that race, and every row
\* holds what its columns allow.
TypeOK ==
  /\ loop \in LoopRows
  /\ run \in [Runs -> RunRows]
  /\ quota \in Quotas
  /\ due \in BOOLEAN
  /\ ledger \in Int
  /\ paid \in [Runs -> Int]
  /\ launched \in SUBSET Runs /\ cut \in SUBSET Runs
  /\ req \in [Requests -> Calls]

\* A run that the worker was called for has been paid for and the payment not
\* given back, and no run is refunded more often than it was charged: however
\* starts, restarts and callbacks race, and unless its creator died before it paid.
StartedRunsArePaid ==
  \A r \in Runs : paid[r] >= 0 /\ (r \in launched \ cut => paid[r] > 0)

\* "For stalled runs, quota was already deducted when they were created",
\* agent-loop/index.ts:728.
LaunchedIsPaid == \A r \in launched : paid[r] > 0

\* Some transaction commits over a quota that is no longer the one it read.
LostUpdate ==
  \E q \in Requests : /\ req[q].pc \in {"charge", "credit"} /\ req[q].held # quota
                      /\ req'[q].pc \notin {"charge", "credit"}

\* The balance of the user and the record of events part only when one
\* transaction writes over another.
LedgerLosesToOverlapOnly ==
  [][Balance(quota') - ledger' = Balance(quota) - ledger \/ LostUpdate]_vars

Quiet == \A q \in Requests : req[q] = NoCall

\* "Refund a run to user's quota (when run fails to start)", run-quota.ts:146:
\* once the handler has returned, a run that could not be started costs nothing.
FailedStartsAreRefunded ==
  Quiet => \A r \in Runs : run[r].status = "deleted" /\ loop.status # "deleted"
                              => paid[r] = 0

\* "no zombie pending runs", agent-loop/index.ts:507: what is pending when no
\* handler is at work was never paid for.
NoZombiePending ==
  Quiet => \A r \in Runs : run[r].status = "pending" => paid[r] = 0

\* "Check if there's already a running/pending run", agent-loop/index.ts:553.
OneRunAtATime ==
  \A r, s \in Runs : Active(r) /\ Active(s) => r = s

\* "Use GREATEST to ensure we don't decrease totalRuns", internal/index.ts:1118.
TotalOnlyGrows == [][loop'.status = "deleted" \/ loop'.total >= loop.total]_vars
=============================================================================
