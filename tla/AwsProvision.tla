---------------------------- MODULE AwsProvision ----------------------------
(***************************************************************************)
(* What a workspace is made of on AWS, and who makes and unmakes it.       *)
(*                                                                         *)
(* A workspace is five resources, created one after the other; each is     *)
(* tagged in a second call.  A creation that fails deletes what it knows   *)
(* of; the row is written only when all of them are there.  A deletion     *)
(* takes them down after it has answered, and the sweep of the worker      *)
(* repeats that for the rows that still name their service, and then       *)
(* purges whatever is tagged with a workspace that is in no unterminated   *)
(* row, which a workspace that is being created is not in either.          *)
(*                                                                         *)
(* Every call may fail.  A service is gone here once ECS has accepted its  *)
(* deletion: a teardown then waits until it has drained, but goes on as    *)
(* well when that takes too long.  The priorities of the rules, over       *)
(* which two creations may collide and try again up to five times, and     *)
(* the ports that are exposed afterwards are left out.                     *)
(*                                                                         *)
(* An operator whose name ends in _Bug is no part of the model: it is the  *)
(* operator after it with a plausible mistake, and PROJECT.json says which *)
(* property catches it.                                                    *)
(***************************************************************************)
EXTENDS Naturals, FiniteSets

CONSTANTS
  Workspaces,  \* workspace ids, each created once
  Persistent,  \* those that keep their files on an access point
  Sweeper,     \* the cron job, whose sweeps do not overlap
  CanCrash     \* may a process die in the middle of a handler?

ASSUME SweeperAssumption == Sweeper \notin Workspaces

VARIABLES
  resource,  \* what AWS has for each workspace
  row,       \* the status of its row; "cleared" once it names no service
  call,      \* the handler of each workspace, and the sweep
  unlisted   \* workspaces created while a sweep purged without knowing them

vars == <<resource, row, call, unlisted>>

-----------------------------------------------------------------------------
Kinds == {"target group", "access point", "task definition", "rule", "service"}

\* What the sweep recognises is tagged.
Tags == {"none", "bare", "tagged"}
Nothing == [k \in Kinds |-> "none"]

Needs(w) == IF w \in Persistent THEN Kinds ELSE Kinds \ {"access point"}

Handlers == Workspaces \cup {Sweeper}

Points == {"unborn", "create", "tag", "wait", "insert", "rollback", "idle", "over",
           "service", "rest", "clear", "retry", "purge"}

\* on: the workspace a handler works on.  known: the ARNs it holds.  todo: the
\* workspaces the sweep has still to retry, or does not purge.
Calls == [pc : Points, on : Handlers, kind : Kinds, known : SUBSET Kinds,
          todo : SUBSET Workspaces]
Resting(h, pc) == [pc |-> pc, on |-> h, kind |-> "target group", known |-> {}, todo |-> {}]

Init ==
  /\ resource = [w \in Workspaces |-> Nothing]
  /\ row = [w \in Workspaces |-> "none"]
  /\ call = [h \in Handlers |-> Resting(h, IF h = Sweeper THEN "idle" ELSE "unborn")]
  /\ unlisted = {}

At(h, pc) == call[h].pc = pc
Goto(h, pc) == call' = [call EXCEPT ![h].pc = pc]
End(h, pc) == call' = [call EXCEPT ![h] = Resting(h, pc)]

Has(w, k) == resource[w][k] # "none"
Put(w, k, tag) == resource' = [resource EXCEPT ![w][k] = tag]

\* A set of deletions that succeed.
Without(w, gone) == [k \in Kinds |-> IF k \in gone THEN "none" ELSE resource[w][k]]
Drop(w, gone) == resource' = [resource EXCEPT ![w] = Without(w, gone)]

\* A target group is not deleted as long as a rule forwards to it.
Possible(w, gone) == "target group" \in gone => "rule" \in gone \/ ~Has(w, "rule")

Purging == At(Sweeper, "purge")

-----------------------------------------------------------------------------
(* provisionWorkspace, and the insert of its caller.                       *)

ProvisionBegin(w) ==
  /\ At(w, "unborn")
  /\ Goto(w, "create")
  /\ unlisted' = IF Purging THEN unlisted \cup {w} ELSE unlisted
  /\ UNCHANGED <<resource, row>>

\* The resources AWS wants to see before it creates another.
Refers == [k \in Kinds |->
  CASE k = "rule" -> {"target group"}
    [] k = "service" -> {"target group", "rule", "task definition"}
    [] OTHER -> {}]

\* An ARN is assigned before the tags are written, or only afterwards, where one
\* method does both.
KnownAtOnce(k) == k \in {"task definition", "service"}

\* The target group is created outside the try block.
Failed(w) == IF call[w].kind = "target group" THEN End(w, "over") ELSE Goto(w, "rollback")

ProvisionCreate(w) ==
  /\ At(w, "create")
  /\ LET k == call[w].kind
     IN  \/ /\ \A need \in Refers[k] : Has(w, need)
            /\ Put(w, k, "bare")
            /\ \/ call' = [call EXCEPT ![w].pc = "tag",
                                       ![w].known = IF KnownAtOnce(k) THEN @ \cup {k} ELSE @]
               \/ Failed(w)
         \/ Failed(w) /\ UNCHANGED resource
  /\ UNCHANGED <<row, unlisted>>

\* What is created after a kind; nothing after the service.
After(w, k) ==
  CASE k = "target group" /\ w \in Persistent -> "access point"
    [] k = "target group" /\ w \notin Persistent -> "task definition"
    [] k = "access point" -> "task definition"
    [] k = "task definition" -> "rule"
    [] OTHER -> "service"

ProvisionTag(w) ==
  /\ At(w, "tag")
  /\ LET k == call[w].kind
     IN  \/ /\ Has(w, k) /\ Put(w, k, "tagged")
            /\ \/ call' = [call EXCEPT ![w].pc = IF After(w, k) = k THEN "wait" ELSE "create",
                                       ![w].kind = After(w, k),
                                       ![w].known = @ \cup {k}]
               \/ Failed(w)
         \/ Failed(w) /\ UNCHANGED resource
  /\ UNCHANGED <<row, unlisted>>

\* waitForTargetGroupHealthy
ProvisionWait(w) ==
  /\ At(w, "wait")
  /\ \/ Has(w, "target group") /\ Has(w, "service") /\ Goto(w, "insert")
     \/ Goto(w, "rollback")
  /\ UNCHANGED <<resource, row, unlisted>>

\* The insert has no undo.
ProvisionInsert(w) ==
  /\ At(w, "insert")
  /\ \/ row' = [row EXCEPT ![w] = "live"] /\ End(w, "idle")
     \/ UNCHANGED row /\ End(w, "over")
  /\ UNCHANGED <<resource, unlisted>>

\* The catch block: each of its calls may fail, and its failure is ignored.
ProvisionRollback(w) ==
  /\ At(w, "rollback")
  /\ \E gone \in SUBSET (call[w].known \cup {"target group"}) :
       Possible(w, gone) /\ Drop(w, gone)
  /\ End(w, "over")
  /\ UNCHANGED <<row, unlisted>>

-----------------------------------------------------------------------------
(* terminateWorkspace, for deleteWorkspace and for the sweep.              *)

DeleteBegin(w) ==
  /\ At(w, "idle") /\ row[w] = "live"
  /\ row' = [row EXCEPT ![w] = "terminated"]
  /\ Goto(w, "service")
  /\ UNCHANGED <<resource, unlisted>>

\* Where the sweep goes on after one row.
Finished(h) == IF h = Sweeper THEN call' = [call EXCEPT ![h].pc = "retry", ![h].on = h]
               ELSE End(h, "over")

\* The failure to delete a service is ignored like the others.
ServiceKept_Bug(h, gone) == call' = [call EXCEPT ![h].pc = "rest"]

\* DeleteService throws, after which the row keeps naming the service.
ServiceKept(h, gone) == Finished(h)

\* The rule, whose failure is ignored, and then the service; waitForServiceDeleted,
\* whose failure is ignored too, is not followed.
TeardownService(h) ==
  /\ At(h, "service")
  /\ LET w == call[h].on
     IN  \E gone \in SUBSET {"rule", "service"} :
           /\ Drop(w, gone)
           /\ IF "service" \in gone THEN Goto(h, "rest") ELSE ServiceKept(h, gone)
  /\ UNCHANGED <<row, unlisted>>

\* The sweep does not know the volume.
Rest(h) == {"target group", "task definition"} \cup
             (IF h = Sweeper THEN {} ELSE {"access point"})

TeardownRest(h) ==
  /\ At(h, "rest")
  /\ \E gone \in SUBSET Rest(h) :
       Possible(call[h].on, gone) /\ Drop(call[h].on, gone)
  /\ Goto(h, "clear")
  /\ UNCHANGED <<row, unlisted>>

\* updateWorkspaceRoutingAndInvalidate
TeardownClear(h) ==
  /\ At(h, "clear")
  /\ \/ row' = [row EXCEPT ![call[h].on] = "cleared"]
     \/ UNCHANGED row
  /\ Finished(h)
  /\ UNCHANGED <<resource, unlisted>>

-----------------------------------------------------------------------------
(* runAwsCleanupSweep and sweepOrphanedResources.                          *)

SweepBegin ==
  /\ At(Sweeper, "idle")
  /\ call' = [call EXCEPT ![Sweeper].pc = "retry",
                          ![Sweeper].todo = {w \in Workspaces : row[w] = "terminated"}]
  /\ UNCHANGED <<resource, row, unlisted>>

SweepRetry ==
  /\ At(Sweeper, "retry")
  /\ \E w \in call[Sweeper].todo :
       call' = [call EXCEPT ![Sweeper].pc = "service", ![Sweeper].on = w,
                            ![Sweeper].todo = @ \ {w}]
  /\ UNCHANGED <<resource, row, unlisted>>

Creating(w) == call[w].pc \in {"create", "tag", "wait", "insert", "rollback"}

\* The ids of the unterminated rows.
SweepList ==
  /\ At(Sweeper, "retry") /\ call[Sweeper].todo = {}
  /\ call' = [call EXCEPT ![Sweeper].pc = "purge", ![Sweeper].kind = "service",
                          ![Sweeper].todo = {w \in Workspaces : row[w] = "live"}]
  /\ unlisted' = unlisted \cup {w \in Workspaces : Creating(w)}
  /\ UNCHANGED <<resource, row>>

\* The rules are forgotten.
PurgeNext_Bug == [k \in Kinds |->
  CASE k = "service" -> "task definition"
    [] k = "task definition" -> "target group"
    [] OTHER -> "access point"]

PurgeNext == [k \in Kinds |->
  CASE k = "service" -> "task definition"
    [] k = "task definition" -> "rule"
    [] k = "rule" -> "target group"
    [] OTHER -> "access point"]

\* The ids the sweep was given are not looked at.
Orphan_Bug(w, k) == resource[w][k] = "tagged"

\* isManagedWorkspaceResource.  An access point is also known by its path.
Orphan(w, k) ==
  /\ w \notin call[Sweeper].todo
  /\ resource[w][k] = "tagged" \/ (k = "access point" /\ Has(w, k))

\* The task definition of a service goes with it, tagged or not.
Purged(w, k) == IF k = "service" THEN {k, "task definition"} ELSE {k}

\* All resources of one kind.  Not all may be deleted, and a call that fails
\* outside a catch ends the sweep.
SweepPurge ==
  /\ Purging
  /\ LET k == call[Sweeper].kind
         orphans == {w \in Workspaces : Orphan(w, k)}
     IN  /\ \E gone \in [orphans -> SUBSET {k, "task definition"}] :
              /\ \A w \in orphans : gone[w] \subseteq Purged(w, k) /\ Possible(w, gone[w])
              /\ resource' = [w \in Workspaces |->
                                IF w \in orphans THEN Without(w, gone[w]) ELSE resource[w]]
         /\ \/ /\ k # "access point"
               /\ call' = [call EXCEPT ![Sweeper].kind = PurgeNext[k]]
            \/ End(Sweeper, "idle")
  /\ UNCHANGED <<row, unlisted>>

Crash(h) ==
  /\ CanCrash
  /\ call[h].pc \notin {"unborn", "idle", "over"}
  /\ End(h, IF h = Sweeper THEN "idle" ELSE "over")
  /\ UNCHANGED <<resource, row, unlisted>>

Teardown(h) == TeardownService(h) \/ TeardownRest(h) \/ TeardownClear(h)

Provision(w) ==
  \/ ProvisionBegin(w) \/ ProvisionCreate(w) \/ ProvisionTag(w) \/ ProvisionWait(w)
  \/ ProvisionInsert(w) \/ ProvisionRollback(w)

Next ==
  \/ \E w \in Workspaces : Provision(w) \/ DeleteBegin(w)
  \/ \E h \in Handlers : Teardown(h) \/ Crash(h)
  \/ SweepBegin \/ SweepRetry \/ SweepList \/ SweepPurge

Spec == Init /\ [][Next]_vars

\* A purge that deletes all it can of one kind, and goes on.
PurgeAll(k) ==
  /\ Purging /\ call[Sweeper].kind = k
  /\ resource' = [w \in Workspaces |-> IF Orphan(w, k) /\ Possible(w, {k}) THEN Without(w, {k})
                                       ELSE resource[w]]
  /\ IF k = "access point" THEN End(Sweeper, "idle")
     ELSE call' = [call EXCEPT ![Sweeper].kind = PurgeNext[k]]
  /\ UNCHANGED <<row, unlisted>>

-----------------------------------------------------------------------------
(* Properties.                                                             *)

\* Every handler holds what its code can give it.
TypeOK ==
  /\ resource \in [Workspaces -> [Kinds -> Tags]]
  /\ row \in [Workspaces -> {"none", "live", "terminated", "cleared"}]
  /\ call \in [Handlers -> Calls]
  /\ unlisted \in SUBSET Workspaces

\* A workspace that has a row has all its resources, tagged, whatever other
\* creations, deletions and sweeps do, unless a sweep that did not know it
\* was purging while it was created.
LiveIsWhole ==
  \A w \in Workspaces \ unlisted :
    row[w] = "live" => \A k \in Needs(w) : resource[w][k] = "tagged"

\* A row lets go of its service only when ECS has accepted to delete it: what is
\* billed is named by a row, tagged for the sweep, or drains.
ClearedMeansStopped ==
  \A w \in Workspaces : row[w] = "cleared" => ~Has(w, "service")

\* What is left of a workspace when its creation has failed or its deletion has
\* died or finished is swept in the end, as far as it is tagged, but for a
\* target group that a rule without tags still points to.
Swept ==
  \A w \in Workspaces :
    At(w, "over") ~>
      \A k \in Kinds :
        resource[w][k] = "tagged" => k = "target group" /\ resource[w]["rule"] = "bare"

\* sweepOrphanedResources, by its name, leaves alone what is not orphaned.
SweepSparesCreations ==
  \A w \in Workspaces : row[w] = "live" => \A k \in Needs(w) : Has(w, k)

\* What a creation that failed leaves behind can be swept.
LeftoversAreSweepable ==
  \A w \in Workspaces :
    row[w] = "none" /\ At(w, "over") => resource[w]["service"] # "bare"

\* A rule that nobody knows keeps its target group for ever.
NothingIsPinned ==
  \A w \in Workspaces : At(w, "over") => resource[w]["rule"] # "bare"
=============================================================================
