------------------------- MODULE WorkspaceLifecycle -------------------------
(***************************************************************************)
(* One workspace of gitterm through its life: the row of the `workspace`   *)
(* table, the compute instance the row refers to, the usage sessions that  *)
(* meter it, and the handlers of the API server, the idle reaper and the   *)
(* webhook listener that all act on it.                                    *)
(*                                                                         *)
(* No handler runs in a transaction.  Each one reads the row, awaits the   *)
(* provider, and writes the row later, so a handler is a sequence of       *)
(* actions and `req` records, for each invocation in flight, how far it    *)
(* has got (`pc`), the status it read (`snap`), the usage session it       *)
(* selected (`held`) and whether a webhook's parallel deletion of the      *)
(* route access is done (`dropped`).                                       *)
(*                                                                         *)
(* Left to other modules: agent runs (AgentRun), the setup of a workspace  *)
(* (WorkspaceSetup).  Left out: the per-user minute counter, ssh and port  *)
(* columns, volumes, emitted events, the proxy cache.                      *)
(*                                                                         *)
(* An operator whose name ends in _Bug is no part of the model: it is the  *)
(* operator after it with a plausible mistake, and PROJECT.json says which *)
(* property catches it.                                                    *)
(***************************************************************************)
EXTENDS Integers, FiniteSets

CONSTANTS
  Requests,            \* handler invocations that may be in flight at once
  Ops,                 \* the kinds of handler that are called
  Provider,            \* cloud_provider.provider_key of the workspace
  CreationSettlement,  \* cloud_provider.creation_settlement
  RestartSettlement,   \* cloud_provider.restart_settlement
  SessionIds,          \* bound: usage_session rows the workspace may have
  CanCrash             \* may an API process die in the middle of a handler?

OpNames == {"create", "pause", "restart", "ensure", "reconcile", "delete",
            "reap", "sweep", "webhook"}

ProviderKeys == {"railway", "e2b", "daytona", "aws", "cloudflare", "exedev"}

ASSUME OpsAssumption == Ops \subseteq OpNames
ASSUME ProviderAssumption == Provider \in ProviderKeys
ASSUME SettlementAssumption ==
  {CreationSettlement, RestartSettlement} \subseteq {"immediate", "webhook"}
ASSUME CanCrashAssumption == CanCrash \in BOOLEAN
ASSUME SessionIdsAssumption == IsFiniteSet(SessionIds)

VARIABLES
  row,       \* the workspace row; status "absent" before the insert
  instance,  \* the provider's side: "none", "running", "stopped", or "gone",
             \* destroyed or about to be
  events,    \* webhook events the provider has emitted and may deliver
  session,   \* usage_session: "none", "open" (stopped_at IS NULL), "closed"
  billed,    \* how often a session's minutes were added to daily_usage
  listed,    \* the row is on the idle reaper's retention list
  req        \* the handler invocations

vars == <<row, instance, events, session, billed, listed, req>>

-----------------------------------------------------------------------------
Statuses == {"absent", "pending", "running", "paused", "terminated"}

\* Points in time, as far as the retention query tells them apart.
PausedAt == {"null", "recent", "old"}

Rows == [status     : Statuses,
         ref        : BOOLEAN,      \* external_instance_id # ""
         pausedAt   : PausedAt,
         lastActive : {"recent", "old"},
         routes     : BOOLEAN]      \* has workspace_route_access rows

NoRow == [status |-> "absent", ref |-> FALSE, pausedAt |-> "null",
          lastActive |-> "recent", routes |-> FALSE]

Points == {"idle", "provider", "insert", "routes", "open", "claim", "quota",
           "release", "write", "select", "stop", "bill", "clear", "orphans",
           "purge"}

NoSession == "no session"

Calls == [op      : OpNames \cup {"none"},
          pc      : Points,
          snap    : Statuses,
          held    : SessionIds \cup {NoSession},
          dropped : BOOLEAN]

NoCall == [op |-> "none", pc |-> "idle", snap |-> "absent",
           held |-> NoSession, dropped |-> FALSE]

\* The webhook events a provider sends: an instance came up, went down or is
\* gone, or (Railway) a deployment failed.
EventKinds ==
  CASE Provider = "railway"          -> {"up", "failed"}
    [] Provider \in {"e2b", "daytona"} -> {"up", "down", "gone"}
    [] OTHER                          -> {}

Init ==
  /\ row = NoRow
  /\ instance = "none"
  /\ events = {}
  /\ session = [s \in SessionIds |-> "none"]
  /\ billed = [s \in SessionIds |-> 0]
  /\ listed = FALSE
  /\ req = [r \in Requests |-> NoCall]

-----------------------------------------------------------------------------
(* Steps of a handler.                                                     *)

At(r, op, pc) == req[r].op = op /\ req[r].pc = pc

Begin(r, op, pc) ==
  /\ op \in Ops
  /\ req[r] = NoCall
  /\ req' = [req EXCEPT ![r] = [NoCall EXCEPT !.op = op, !.pc = pc,
                                               !.snap = row.status]]

Goto(r, pc) == req' = [req EXCEPT ![r].pc = pc]

Return(r) == req' = [req EXCEPT ![r] = NoCall]

Quiet == \A r \in Requests : req[r] = NoCall

OpenSessions == {s \in SessionIds : session[s] = "open"}

Openers == {"create", "restart", "ensure"}

\* Bound: a handler that opens a session starts only while a row id is spare.
SpareSession ==
  Cardinality({s \in SessionIds : session[s] = "none"})
    > Cardinality({r \in Requests : req[r].op \in Openers})

-----------------------------------------------------------------------------
(* The provider.                                                           *)

Alive == instance \in {"running", "stopped"}

Emitted(target) ==
  EventKinds \cap (CASE target = "running" -> {"up"}
                     [] target = "stopped" -> {"down"}
                     [] target = "gone"    -> {"gone"}
                     [] OTHER              -> {})

\* The instance enters `target`, and the provider says so.
Becomes(target) ==
  /\ instance' = target
  /\ events' = IF instance = target THEN events
               ELSE events \cup Emitted(target)

\* What a call that should bring the instance to `target`, and that returns
\* without throwing, has left.  Cloudflare's adapter throws neither when it
\* could not destroy the sandbox nor when its worker refused to stop it.
Outcomes(target) ==
  IF Provider = "cloudflare" THEN {target, instance} ELSE {target}

\* A pause or a termination that the adapter reports as done.
Reports(target) ==
  \E result \in Outcomes(target) :
    (Alive \/ result = instance) /\ Becomes(result)

\* A provider call that throws may still have taken effect.
MaybeBecomes(target) ==
  \/ UNCHANGED <<instance, events>>
  \/ Alive /\ Becomes(target)

\* A write of last_active_at makes every earlier E2B "paused" event older
\* than the row, and processE2bWebhook ignores those.
AfterActivity(evs) == IF Provider = "e2b" THEN evs \ {"down"} ELSE evs

\* The provider stops or destroys the instance on its own (auto-stop,
\* expiry, its dashboard), or a Railway deployment fails.
AutoStop ==
  /\ "down" \in EventKinds /\ instance = "running"
  /\ Becomes("stopped")
  /\ UNCHANGED <<row, session, billed, listed, req>>

AutoKill ==
  /\ "gone" \in EventKinds /\ Alive
  /\ Becomes("gone")
  /\ UNCHANGED <<row, session, billed, listed, req>>

DeployFails ==
  /\ "failed" \in EventKinds /\ Alive
  /\ instance' \in {instance, "stopped"}
  /\ events' = events \cup {"failed"}
  /\ UNCHANGED <<row, session, billed, listed, req>>

-----------------------------------------------------------------------------
(* closeUsageSession: select an open session of the workspace, set its     *)
(* stopped_at by id, add its minutes to the daily usage.                   *)

\* deleteWorkspace tears AWS compute down only after it has responded.
Background_Bug == TRUE

Background == Provider = "aws"

AfterClose(op) ==
  CASE op = "pause"                  -> "write"
    [] op = "webhook"                -> "routes"
    [] op = "delete" /\ Background   -> "write"
    [] OTHER                         -> "provider"

CloseReturns(r) ==
  IF req[r].dropped THEN Return(r) ELSE Goto(r, AfterClose(req[r].op))

SelectSession(r) ==
  /\ req[r].pc = "select"
  /\ \/ OpenSessions = {} /\ CloseReturns(r)
     \/ \E s \in OpenSessions :
          req' = [req EXCEPT ![r].pc = "stop", ![r].held = s]
  /\ UNCHANGED <<row, instance, events, session, billed, listed>>

StopSession(r) ==
  /\ req[r].pc = "stop"
  /\ session' = [session EXCEPT ![req[r].held] = "closed"]
  /\ Goto(r, "bill")
  /\ UNCHANGED <<row, instance, events, billed, listed>>

BillSession(r) ==
  /\ req[r].pc = "bill"
  /\ billed' = [billed EXCEPT ![req[r].held] = @ + 1]
  /\ CloseReturns(r)
  /\ UNCHANGED <<row, instance, events, session, listed>>

\* createUsageSession: a plain insert.
OpenSession(r) ==
  /\ req[r].pc = "open"
  /\ \E s \in SessionIds :
       /\ session[s] = "none"
       /\ session' = [session EXCEPT ![s] = "open"]
  /\ Return(r)
  /\ UNCHANGED <<row, instance, events, billed, listed>>

-----------------------------------------------------------------------------
(* createWorkspace: provision, insert the row, grant route access, open a  *)
(* session.  A failed insert leaves the instance without a row.            *)

CreateBegin(r) ==
  /\ row.status = "absent" /\ instance = "none" /\ SpareSession
  /\ \A q \in Requests : req[q].op # "create"
  /\ Begin(r, "create", "provider")
  /\ UNCHANGED <<row, instance, events, session, billed, listed>>

CreateProvision(r) ==
  /\ At(r, "create", "provider")
  /\ \/ /\ instance' = "running"
        /\ events' = IF Provider = "e2b" THEN events   \* only "resumed" is up
                     ELSE events \cup Emitted("running")
        /\ Goto(r, "insert")
     \/ UNCHANGED <<instance, events>> /\ Return(r)
  /\ UNCHANGED <<row, session, billed, listed>>

CreateInsert(r) ==
  /\ At(r, "create", "insert")
  /\ \/ /\ row' = [NoRow EXCEPT !.ref = TRUE,
                     !.status = IF CreationSettlement = "immediate"
                                THEN "running" ELSE "pending"]
        /\ Goto(r, "routes")
     \/ row' = row /\ Return(r)
  /\ UNCHANGED <<instance, events, session, billed, listed>>

CreateRoutes(r) ==
  /\ At(r, "create", "routes")
  /\ row' = [row EXCEPT !.routes = TRUE]
  /\ Goto(r, "open")
  /\ UNCHANGED <<instance, events, session, billed, listed>>

-----------------------------------------------------------------------------
(* pauseWorkspace and pauseWorkspaceInternal.                              *)

PauseBegin(r) ==
  /\ row.status = "running"
  /\ Begin(r, "pause", "provider")
  /\ UNCHANGED <<row, instance, events, session, billed, listed>>

\* The E2B adapter connects to the sandbox, which resumes it, and pauses it.
PausesE2b ==
  /\ Provider = "e2b" /\ instance = "stopped"
  /\ instance' \in {"running", "stopped"}
  /\ events' = events \cup Emitted("running") \cup Emitted(instance')

\* Forgets closeUsageSession.
PauseProvider_Bug(r) ==
  /\ At(r, "pause", "provider")
  /\ \/ Reports("stopped") /\ Goto(r, "write")
     \/ MaybeBecomes("stopped") /\ Return(r)
  /\ UNCHANGED <<row, session, billed, listed>>

PauseProvider(r) ==
  /\ At(r, "pause", "provider")
  /\ \/ Reports("stopped") /\ Goto(r, "select")
     \/ MaybeBecomes("stopped") /\ Return(r)
     \/ PausesE2b /\ (IF instance' = "stopped" THEN Goto(r, "select") ELSE Return(r))
  /\ UNCHANGED <<row, session, billed, listed>>

PauseWrite(r) ==
  /\ At(r, "pause", "write")
  /\ row' = [row EXCEPT !.status = "paused", !.pausedAt = "recent"]
  /\ Return(r)
  /\ UNCHANGED <<instance, events, session, billed, listed>>

-----------------------------------------------------------------------------
(* restartWorkspace and ensureRunning.  They share the write after the     *)
(* provider has resumed the instance; only ensureRunning claims the row.   *)

\* Stores the settlement instead of the status it stands for.
ResumedStatus_Bug == RestartSettlement

ResumedStatus == IF RestartSettlement = "immediate" THEN "running" ELSE "pending"

RestartBegin(r) ==
  /\ row.status = "paused" /\ SpareSession
  /\ Begin(r, "restart", "provider")
  /\ UNCHANGED <<row, instance, events, session, billed, listed>>

RestartProvider(r) ==
  /\ At(r, "restart", "provider")
  /\ \/ Alive /\ Becomes("running") /\ Goto(r, "write")
     \/ MaybeBecomes("running") /\ Return(r)
  /\ UNCHANGED <<row, session, billed, listed>>

EnsureBegin(r) ==
  /\ row.status = "paused" /\ SpareSession
  /\ Begin(r, "ensure", "claim")
  /\ UNCHANGED <<row, instance, events, session, billed, listed>>

\* UPDATE ... SET status = 'pending' WHERE status = 'paused': a caller that
\* finds no row to update only waits for somebody else's restart.
EnsureClaim(r) ==
  /\ At(r, "ensure", "claim")
  /\ IF row.status = "paused"
     THEN row' = [row EXCEPT !.status = "pending"] /\ Goto(r, "quota")
     ELSE row' = row /\ Return(r)
  /\ UNCHANGED <<instance, events, session, billed, listed>>

\* hasRemainingQuota may say no; Cloudflare cannot restore a paused sandbox.
EnsureCheck(r) ==
  /\ At(r, "ensure", "quota")
  /\ \/ Goto(r, "release")
     \/ Provider # "cloudflare" /\ Goto(r, "provider")
  /\ UNCHANGED <<row, instance, events, session, billed, listed>>

EnsureProvider(r) ==
  /\ At(r, "ensure", "provider")
  /\ \/ Alive /\ Becomes("running") /\ Goto(r, "write")
     \/ MaybeBecomes("running") /\ Goto(r, "release")
  /\ UNCHANGED <<row, session, billed, listed>>

EnsureRelease(r) ==
  /\ At(r, "ensure", "release")
  /\ row' = [row EXCEPT !.status = "paused"]
  /\ Return(r)
  /\ UNCHANGED <<instance, events, session, billed, listed>>

ResumeWrite(r) ==
  /\ req[r].op \in {"restart", "ensure"} /\ req[r].pc = "write"
  /\ row' = [row EXCEPT !.status = ResumedStatus, !.pausedAt = "null",
                        !.lastActive = "recent"]
  /\ events' = AfterActivity(events)
  /\ Goto(r, "open")
  /\ UNCHANGED <<instance, session, billed, listed>>

-----------------------------------------------------------------------------
(* getRuntimeAccess: ask the provider for the live status of a row that    *)
(* looks stopped, and correct the row if it is running.  The E2B adapter   *)
(* answers through the very call with which it resumes a sandbox; for      *)
(* Railway's, every service that exists is running.                        *)

ReconcileBegin(r) ==
  /\ row.ref /\ row.status \in {"paused", "pending"}
  /\ Begin(r, "reconcile", "provider")
  /\ UNCHANGED <<row, instance, events, session, billed, listed>>

ShowsRunning == IF Provider = "railway" THEN Alive ELSE instance = "running"

ReconcileProbe(r) ==
  /\ At(r, "reconcile", "provider")
  /\ IF Provider = "e2b" THEN MaybeBecomes("running")
     ELSE UNCHANGED <<instance, events>>
  /\ \/ ShowsRunning' /\ Goto(r, "write")
     \/ Return(r)                  \* not running, or the probe failed
  /\ UNCHANGED <<row, session, billed, listed>>

ReconcileWrite(r) ==
  /\ At(r, "reconcile", "write")
  /\ IF row.status \in {"paused", "pending"}
     THEN /\ row' = [row EXCEPT !.status = "running", !.pausedAt = "null",
                                !.lastActive = "recent"]
          /\ events' = AfterActivity(events)
     ELSE UNCHANGED <<row, events>>
  /\ Return(r)
  /\ UNCHANGED <<instance, session, billed, listed>>

-----------------------------------------------------------------------------
(* deleteWorkspace.  The provider is torn down before the row is marked,   *)
(* except on AWS, where the teardown runs after the response.              *)

DeleteBegin(r) ==
  /\ row.status # "absent"
  /\ Begin(r, "delete", IF row.status \in {"running", "pending"} THEN "select"
                        ELSE AfterClose("delete"))
  /\ UNCHANGED <<row, instance, events, session, billed, listed>>

\* Clears the row although the teardown failed.
DeleteProvider_Bug(r) ==
  /\ At(r, "delete", "provider")
  /\ (Reports("gone") \/ MaybeBecomes("gone")) /\ Goto(r, "clear")
  /\ UNCHANGED <<row, session, billed, listed>>

\* terminateWorkspace of the provider; an instance that is already gone may
\* be reported either way.
DeleteProvider(r) ==
  /\ At(r, "delete", "provider")
  /\ \/ Reports("gone") /\ Goto(r, "clear")
     \/ MaybeBecomes("gone") /\ Return(r)
  /\ UNCHANGED <<row, session, billed, listed>>

\* Keeps the reference to the destroyed instance.
DeleteClear_Bug(r) ==
  /\ At(r, "delete", "clear")
  /\ row' = row
  /\ IF Background THEN Return(r) ELSE Goto(r, "write")
  /\ UNCHANGED <<instance, events, session, billed, listed>>

DeleteClear(r) ==
  /\ At(r, "delete", "clear")
  /\ row' = [row EXCEPT !.ref = FALSE]
  /\ IF Background THEN Return(r) ELSE Goto(r, "write")
  /\ UNCHANGED <<instance, events, session, billed, listed>>

DeleteWrite(r) ==
  /\ At(r, "delete", "write")
  /\ row' = [row EXCEPT !.status = "terminated", !.pausedAt = "recent"]
  /\ Goto(r, "routes")
  /\ UNCHANGED <<instance, events, session, billed, listed>>

\* deleteAllWorkspaceRouteAccess, the last row change of a deletion.
DropRoutes(r) ==
  /\ req[r].op \in {"delete", "reap", "webhook"} /\ req[r].pc = "routes"
  /\ row' = [row EXCEPT !.routes = FALSE]
  /\ IF req[r].op = "delete" /\ Background THEN Goto(r, "provider")
     ELSE Return(r)
  /\ UNCHANGED <<instance, events, session, billed, listed>>

\* A webhook starts the deletion beside closeUsageSession: it may end first.
DropRoutesEarly(r) ==
  /\ req[r].op = "webhook" /\ req[r].pc \in {"select", "stop", "bill"}
  /\ ~req[r].dropped
  /\ row' = [row EXCEPT !.routes = FALSE]
  /\ req' = [req EXCEPT ![r].dropped = TRUE]
  /\ UNCHANGED <<instance, events, session, billed, listed>>

-----------------------------------------------------------------------------
(* The idle reaper's retention pass: getLongTermInactiveWorkspaces, then   *)
(* terminateWorkspaceInternal with requirePaused for each row it listed.   *)

PastRetention ==
  row.status = "paused" /\ row.lastActive = "old" /\ row.pausedAt = "old"

ReaperList ==
  /\ "reap" \in Ops /\ ~listed /\ PastRetention
  /\ listed' = TRUE
  /\ UNCHANGED <<row, instance, events, session, billed, req>>

ReapBegin(r) ==
  /\ listed /\ listed' = FALSE
  /\ IF row.status = "paused" THEN Begin(r, "reap", "provider")
     ELSE UNCHANGED req
  /\ UNCHANGED <<row, instance, events, session, billed>>

ReapProvider(r) ==
  /\ At(r, "reap", "provider")
  /\ \/ Reports("gone") /\ Goto(r, "write")
     \/ MaybeBecomes("gone") /\ Return(r)
  /\ UNCHANGED <<row, session, billed, listed>>

\* Forgets deleteAllWorkspaceRouteAccess.
ReapWrite_Bug(r) ==
  /\ At(r, "reap", "write")
  /\ row' = [row EXCEPT !.status = "terminated", !.ref = FALSE]
  /\ Return(r)
  /\ UNCHANGED <<instance, events, session, billed, listed>>

ReapWrite(r) ==
  /\ At(r, "reap", "write")
  /\ row' = [row EXCEPT !.status = "terminated", !.ref = FALSE]
  /\ Goto(r, "routes")
  /\ UNCHANGED <<instance, events, session, billed, listed>>

-----------------------------------------------------------------------------
(* runAwsCleanupSweep: retry the teardown of terminated rows that still    *)
(* refer to an instance, then delete services of no unterminated row.      *)

\* Looks for orphaned services only.
SweepBegin_Bug(r) ==
  /\ Provider = "aws"
  /\ Begin(r, "sweep", "orphans")
  /\ UNCHANGED <<row, instance, events, session, billed, listed>>

SweepBegin(r) ==
  /\ Provider = "aws"
  /\ Begin(r, "sweep", IF row.status = "terminated" /\ row.ref
                       THEN "provider" ELSE "orphans")
  /\ UNCHANGED <<row, instance, events, session, billed, listed>>

SweepProvider(r) ==
  /\ At(r, "sweep", "provider")
  /\ \/ Becomes("gone") /\ Goto(r, "clear")
     \/ MaybeBecomes("gone") /\ Goto(r, "orphans")
  /\ UNCHANGED <<row, session, billed, listed>>

SweepClear(r) ==
  /\ At(r, "sweep", "clear")
  /\ row' = [row EXCEPT !.ref = FALSE]
  /\ Goto(r, "orphans")
  /\ UNCHANGED <<instance, events, session, billed, listed>>

SweepOrphans(r) ==
  /\ At(r, "sweep", "orphans")
  /\ IF row.status \in {"absent", "terminated"} THEN Goto(r, "purge")
     ELSE Return(r)
  /\ UNCHANGED <<row, instance, events, session, billed, listed>>

SweepPurge(r) ==
  /\ At(r, "sweep", "purge")
  /\ MaybeBecomes("gone")
  /\ Return(r)
  /\ UNCHANGED <<row, session, billed, listed>>

-----------------------------------------------------------------------------
(* processRailwayWebhook, processE2bWebhook, processDaytonaWebhook.  An    *)
(* event may come late, out of order or again (`dup`): it is matched to    *)
(* the row by external_instance_id, and one update both tests and sets the *)
(* status.  An event that updates a row it stops or destroys then closes   *)
(* the session and drops the route access.                                 *)

\* An "up" event sets the status whatever it is.
UpFrom_Bug == Statuses \ {"absent"}

UpFrom == IF Provider = "railway" THEN {"pending"} ELSE {"paused", "pending"}

GoneFrom == IF Provider = "daytona" THEN {"running", "paused", "pending"}
            ELSE {"running", "paused", "pending", "terminated"}

Consume(e, dup) == events' = IF dup THEN events ELSE events \ {e}

WebhookUp(dup) ==
  /\ "webhook" \in Ops /\ "up" \in events
  /\ row' = IF row.ref /\ row.status \in UpFrom
            THEN [row EXCEPT !.status = "running"] ELSE row
  /\ Consume("up", dup)
  /\ UNCHANGED <<instance, session, billed, listed, req>>

\* Forgets closeUsageSession.
WebhookDown_Bug(r, dup) ==
  /\ "webhook" \in Ops /\ "down" \in events
  /\ IF row.ref /\ row.status = "running"
     THEN row' = [row EXCEPT !.status = "paused"] /\ Begin(r, "webhook", "routes")
     ELSE UNCHANGED <<row, req>>
  /\ Consume("down", dup)
  /\ UNCHANGED <<instance, session, billed, listed>>

WebhookDown(r, dup) ==
  /\ "webhook" \in Ops /\ "down" \in events
  /\ IF row.ref /\ row.status = "running"
     THEN row' = [row EXCEPT !.status = "paused"] /\ Begin(r, "webhook", "select")
     ELSE UNCHANGED <<row, req>>
  /\ Consume("down", dup)
  /\ UNCHANGED <<instance, session, billed, listed>>

WebhookGone(r, dup) ==
  /\ "webhook" \in Ops /\ "gone" \in events
  /\ IF row.ref /\ row.status \in GoneFrom
     THEN /\ row' = [row EXCEPT !.status = "terminated"]
          /\ Begin(r, "webhook", "select")
     ELSE UNCHANGED <<row, req>>
  /\ Consume("gone", dup)
  /\ UNCHANGED <<instance, session, billed, listed>>

\* No status filter, and neither the session nor the agent runs are touched.
WebhookFailed(dup) ==
  /\ "webhook" \in Ops /\ "failed" \in events
  /\ row' = IF row.ref THEN [row EXCEPT !.status = "paused"] ELSE row
  /\ Consume("failed", dup)
  /\ UNCHANGED <<instance, session, billed, listed, req>>

-----------------------------------------------------------------------------
(* Surroundings: activity, the passing of the retention window, crashes.   *)

\* A proxied request to a running workspace, or a heartbeat of its agent,
\* which is also taken while the workspace is pending.
Touch ==
  /\ row.status \in {"running", "pending"}
  /\ row' = [row EXCEPT !.lastActive = "recent"]
  /\ events' = AfterActivity(events)
  /\ UNCHANGED <<instance, session, billed, listed, req>>

\* Days pass; no handler takes that long.
RetentionElapses ==
  /\ Quiet /\ ~listed /\ row.status = "paused"
  /\ row' = [row EXCEPT !.lastActive = "old",
                        !.pausedAt = IF @ = "null" THEN @ ELSE "old"]
  /\ UNCHANGED <<instance, events, session, billed, listed, req>>

\* The process serving an invocation dies.
Crash(r) ==
  /\ CanCrash /\ req[r] # NoCall
  /\ Return(r)
  /\ UNCHANGED <<row, instance, events, session, billed, listed>>

-----------------------------------------------------------------------------
Metering(r) ==
  SelectSession(r) \/ StopSession(r) \/ BillSession(r) \/ OpenSession(r)

Create(r) ==
  CreateBegin(r) \/ CreateProvision(r) \/ CreateInsert(r) \/ CreateRoutes(r)

Pause(r) == PauseBegin(r) \/ PauseProvider(r) \/ PauseWrite(r)

Resume(r) ==
  \/ RestartBegin(r) \/ RestartProvider(r)
  \/ EnsureBegin(r) \/ EnsureClaim(r) \/ EnsureCheck(r)
  \/ EnsureProvider(r) \/ EnsureRelease(r)
  \/ ResumeWrite(r)

Reconcile(r) == ReconcileBegin(r) \/ ReconcileProbe(r) \/ ReconcileWrite(r)

Delete(r) ==
  \/ DeleteBegin(r) \/ DeleteProvider(r) \/ DeleteClear(r) \/ DeleteWrite(r)
  \/ DropRoutes(r)

Reap(r) == ReapBegin(r) \/ ReapProvider(r) \/ ReapWrite(r)

Sweep(r) ==
  \/ SweepBegin(r) \/ SweepProvider(r) \/ SweepClear(r)
  \/ SweepOrphans(r) \/ SweepPurge(r)

Webhook(r) ==
  \/ DropRoutesEarly(r)
  \/ \E dup \in BOOLEAN :
       \/ WebhookUp(dup) \/ WebhookFailed(dup)
       \/ WebhookDown(r, dup) \/ WebhookGone(r, dup)

Surroundings ==
  AutoStop \/ AutoKill \/ DeployFails \/ ReaperList \/ Touch \/ RetentionElapses

Next ==
  \/ Surroundings
  \/ \E r \in Requests :
       \/ Create(r) \/ Pause(r) \/ Resume(r) \/ Reconcile(r) \/ Delete(r)
       \/ Reap(r) \/ Sweep(r) \/ Webhook(r) \/ Metering(r) \/ Crash(r)

Spec == Init /\ [][Next]_vars

-----------------------------------------------------------------------------
(* Fairness.  A handler that is being served goes on; the worker's cron    *)
(* job starts a sweep again and again; a teardown that is retried for ever *)
(* succeeds in the end, and its sweep is not killed every time right after *)
(* it.  Nothing is assumed of users, of webhooks, or of a crash.           *)

Serve(r) ==
  /\ req[r] # NoCall
  /\ \/ Create(r) \/ Pause(r) \/ Resume(r) \/ Reconcile(r) \/ Delete(r)
     \/ Reap(r) \/ Sweep(r) \/ Metering(r)

SweepStarts == \E r \in Requests : SweepBegin(r)
SweepTearsDown ==
  \E r \in Requests : SweepProvider(r) /\ req'[r].pc = "clear"
SweepRecords == \E r \in Requests : SweepClear(r)

SweepFairness ==
  /\ \A r \in Requests : WF_vars(Serve(r))
  /\ SF_vars(SweepStarts)
  /\ SF_vars(SweepTearsDown)
  /\ SF_vars(SweepRecords)

FairSpec == Spec /\ SweepFairness

-----------------------------------------------------------------------------
TypeOK ==
  /\ row \in Rows
  /\ instance \in {"none", "running", "stopped", "gone"}
  /\ events \subseteq EventKinds
  /\ session \in [SessionIds -> {"none", "open", "closed"}]
  /\ billed \in [SessionIds -> Nat]
  /\ listed \in BOOLEAN
  /\ req \in [Requests -> Calls]

\* The adapters from which the handlers learn of a teardown that failed.
ReportsFailure == Provider # "cloudflare"

\* A row that has lost its reference to the instance belongs to an instance
\* that no longer exists: no interleaving of deletion, reaper, sweep and
\* webhooks forgets compute that is still there, where the adapter throws
\* when it could not destroy it.
NoOrphanInstance ==
  ReportsFailure /\ row.status # "absent" /\ ~row.ref => instance = "gone"

\* Except on AWS, whose teardown follows the write, and where the adapter
\* hides failures, a workspace is shown as terminated only once its instance
\* is destroyed, whichever of deletion, reaper and webhook wrote the status.
TerminatedMeansGone ==
  ReportsFailure /\ Provider # "aws" /\ row.status = "terminated"
    => instance = "gone"

\* No webhook, reconciliation or new request takes a workspace out of
\* "terminated": only a handler can that read the row before it was
\* terminated and writes it now.
OnlyStaleWritersRevive ==
  [][row.status = "terminated" /\ row'.status # "terminated"
       => \E r \in Requests : /\ req[r].snap # "terminated"
                              /\ req[r].pc \in {"write", "release"}]_vars

\* On AWS the teardown after a deletion may fail or die with its process; the
\* sweep retries until the row of a terminated workspace is cleared.
CleanupCompletes ==
  (row.status = "terminated") ~> (~row.ref \/ row.status # "terminated")

\* When handlers do not overlap, a workspace has one open usage session at
\* most, so closing "the" open session at a pause closes all of them.
OneOpenSession == Cardinality(OpenSessions) <= 1

\* When handlers do not overlap, a workspace that is paused or terminated has
\* no open session, and every closed one was billed exactly once.
StoppedIsSettled ==
  Quiet /\ row.status \in {"paused", "terminated"} =>
    /\ OpenSessions = {}
    /\ \A s \in SessionIds : session[s] = "closed" => billed[s] = 1

\* When handlers do not overlap, a terminated workspace keeps no upstream
\* credentials: its route access is gone when the last handler returns.
TerminatedHasNoRoutes ==
  Quiet /\ row.status = "terminated" => ~row.routes

-----------------------------------------------------------------------------
(* What comments and documentation say of these handlers, and the code     *)
(* does not keep.                                                          *)

\* r takes its next step.
Moves(r) == req'[r] # req[r]

\* terminateWorkspace of a provider: "permanently delete/terminate a workspace"
\* (compute.ts:300), so that nothing is left of a workspace shown as terminated.
NothingIsLeft == row.status = "terminated" => instance = "gone"

\* ensureRunning: "workspace cannot be restarted" once it is terminated.
TerminatedIsFinal ==
  [][row.status = "terminated" => row'.status = "terminated"]_vars

\* getRuntimeAccess: a concurrent ensureRunning claim "is never overwritten"
\* by a reconciliation that read the row before the claim.
ReconcileNeverOverwritesClaim ==
  [][\A r, q \in Requests :
       /\ At(r, "reconcile", "write") /\ req[r].snap = "paused" /\ Moves(r)
       /\ req[q].op = "ensure" /\ req[q].pc \in {"quota", "provider"}
       /\ row.status = "pending"
       => row'.status = "pending"]_vars

\* getRuntimeAccess is "read-only; never resumes compute".
RuntimeAccessNeverResumes ==
  [][\A r \in Requests :
       At(r, "reconcile", "provider") /\ Moves(r) /\ instance = "stopped"
         => instance' = "stopped"]_vars

\* The reaper destroys the instance of a workspace whose retention window
\* has expired, and of no other.
ReaperHonoursRetention ==
  [][\A r \in Requests :
       At(r, "reap", "provider") /\ Moves(r) /\ Alive /\ instance' = "gone"
         => PastRetention]_vars

\* A workspace that is resumed can be reached as before: the proxy still has
\* the upstream headers that it needs.
ResumedWorkspaceKeepsRoutes ==
  Quiet /\ row.status = "running" => row.routes

\* Callers of ensureRunning that see "pending" wait for an operation that is
\* under way: a row is not left pending with nothing to settle it.
PendingHasOperation ==
  Quiet /\ row.status = "pending" => "up" \in events

\* A session lasts from start to stop: a running workspace is metered.
RunningIsMetered ==
  Quiet /\ row.status = "running" => OpenSessions # {}

\* Closing a usage session adds its minutes to the daily usage once.
BilledOnce == \A s \in SessionIds : billed[s] <= 1

=============================================================================
