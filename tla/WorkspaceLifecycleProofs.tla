---------------------- MODULE WorkspaceLifecycleProofs ----------------------
(***************************************************************************)
(* Type correctness and the safety properties of WorkspaceLifecycle that   *)
(* hold however many handlers overlap, whoever crashes, and in whatever    *)
(* order and however often the provider's events are delivered; then the   *)
(* properties of metering and of the route access, which hold only while   *)
(* handlers do not overlap.                                                *)
(***************************************************************************)
EXTENDS WorkspaceLifecycle, FiniteSetTheorems, TLAPS

\* The part of the type invariant that a handler's bookkeeping changes.
ReqOK == req \in [Requests -> Calls]

\* The absence of an invocation is a value of `req`.
LEMMA NoCallType == NoCall \in Calls
BY DEF NoCall, Calls, Statuses, Points

\* Starting, advancing and ending an invocation keep `req` well typed.
LEMMA BeginType ==
  ASSUME NEW r \in Requests, NEW op \in OpNames, NEW pc \in Points,
         ReqOK, row \in Rows, Begin(r, op, pc)
  PROVE  ReqOK'
<1>1. row.status \in Statuses
  BY DEF Rows
<1>2. NoCall \in Calls
  BY NoCallType
<1> DEFINE call == [NoCall EXCEPT !.op = op, !.pc = pc, !.snap = row.status]
<1>3. call \in Calls
  BY <1>1, <1>2 DEF Calls
<1>4. req' = [req EXCEPT ![r] = call]
  BY DEF Begin
<1> QED
  BY <1>3, <1>4 DEF ReqOK

\* Moving an invocation on keeps `req` well typed.
LEMMA GotoType ==
  ASSUME NEW r \in Requests, NEW pc \in Points, ReqOK, Goto(r, pc)
  PROVE  ReqOK'
BY DEF ReqOK, Goto, Calls

\* So does its return, to the client or by a throw.
LEMMA ReturnType ==
  ASSUME NEW r \in Requests, ReqOK, Return(r)
  PROVE  ReqOK'
BY NoCallType DEF ReqOK, Return

\* What the provider does to the instance, and the events it emits, are of
\* the right type.
ProviderOK ==
  /\ instance \in {"none", "running", "stopped", "gone"}
  /\ events \subseteq EventKinds

\* A provider emits events of its own kinds only.
LEMMA EmittedType == \A target : Emitted(target) \subseteq EventKinds
BY DEF Emitted

\* A provider call, successful or not, leaves instance and events well typed.
LEMMA BecomesType ==
  ASSUME NEW target \in {"running", "stopped", "gone"}, ProviderOK,
         Becomes(target) \/ MaybeBecomes(target)
  PROVE  ProviderOK'
BY EmittedType DEF ProviderOK, Becomes, MaybeBecomes, EventKinds

\* So does a call that the adapter reports as done.
LEMMA ReportsType ==
  ASSUME NEW target \in {"running", "stopped", "gone"}, ProviderOK, Reports(target)
  PROVE  ProviderOK'
BY EmittedType DEF ProviderOK, Reports, Outcomes, Becomes

\* AfterActivity forgets events, it adds none.
LEMMA AfterActivityType == \A evs : AfterActivity(evs) \subseteq evs
BY DEF AfterActivity

\* Every handler goes on at a point that exists once it has closed a session.
LEMMA AfterCloseType == \A op : AfterClose(op) \in Points
BY DEF AfterClose, Points

\* The row before the insert has the shape of a row.
LEMMA NoRowType == NoRow \in Rows
BY DEF NoRow, Rows, Statuses, PausedAt

\* An invocation of closeUsageSession that holds the session it selected.
LEMMA HeldType ==
  ASSUME NEW c \in Calls, NEW s \in SessionIds
  PROVE  [[c EXCEPT !.pc = "stop"] EXCEPT !.held = s] \in Calls
BY DEF Calls, Points

\* A webhook invocation that has dropped the routes.
LEMMA DroppedType ==
  ASSUME NEW c \in Calls
  PROVE  [c EXCEPT !.dropped = TRUE] \in Calls
BY DEF Calls

\* Every step of every handler keeps the state well typed.
THEOREM TypeCorrect == Spec => []TypeOK
<1>1. Init => TypeOK
  <2> SUFFICES ASSUME Init PROVE TypeOK
    OBVIOUS
  <2>1. row \in Rows /\ req \in [Requests -> Calls]
    BY NoRowType, NoCallType DEF Init
  <2>2. session \in [SessionIds -> {"none", "open", "closed"}]
    BY DEF Init
  <2>3. billed \in [SessionIds -> Nat]
    BY DEF Init
  <2> QED
    BY <2>1, <2>2, <2>3 DEF Init, TypeOK
<1>2. TypeOK /\ [Next]_vars => TypeOK'
  <2> SUFFICES ASSUME TypeOK, [Next]_vars
               PROVE  TypeOK'
    OBVIOUS
  <2> USE DEF TypeOK, ReqOK, ProviderOK, Rows, Statuses, PausedAt, OpNames, Points
  <2>1. ASSUME AutoStop PROVE TypeOK'
    BY <2>1, BecomesType DEF AutoStop
  <2>2. ASSUME AutoKill PROVE TypeOK'
    BY <2>2, BecomesType DEF AutoKill, Alive
  <2>3. ASSUME DeployFails PROVE TypeOK'
    BY <2>3 DEF DeployFails, Alive
  <2>4. ASSUME ReaperList PROVE TypeOK'
    BY <2>4 DEF ReaperList
  <2>5. ASSUME Touch PROVE TypeOK'
    BY <2>5, AfterActivityType DEF Touch
  <2>6. ASSUME RetentionElapses PROVE TypeOK'
    BY <2>6 DEF RetentionElapses
  <2>7. ASSUME NEW r \in Requests, CreateBegin(r) PROVE TypeOK'
    BY <2>7, BeginType DEF CreateBegin
  <2>8. ASSUME NEW r \in Requests, CreateProvision(r) PROVE TypeOK'
    BY <2>8, GotoType, ReturnType, EmittedType DEF CreateProvision, At
  <2>9. ASSUME NEW r \in Requests, CreateInsert(r) PROVE TypeOK'
    BY <2>9, GotoType, ReturnType, NoRowType DEF CreateInsert, At
  <2>10. ASSUME NEW r \in Requests, CreateRoutes(r) PROVE TypeOK'
    BY <2>10, GotoType DEF CreateRoutes, At
  <2>11. ASSUME NEW r \in Requests, PauseBegin(r) PROVE TypeOK'
    BY <2>11, BeginType DEF PauseBegin
  <2>12. ASSUME NEW r \in Requests, PauseProvider(r) PROVE TypeOK'
    <3>1. ProviderOK'
      BY <2>12, BecomesType, ReportsType, EmittedType DEF PauseProvider, PausesE2b
    <3>2. ReqOK'
      BY <2>12, GotoType, ReturnType DEF PauseProvider
    <3> QED
      BY <2>12, <3>1, <3>2 DEF PauseProvider
  <2>13. ASSUME NEW r \in Requests, PauseWrite(r) PROVE TypeOK'
    BY <2>13, ReturnType DEF PauseWrite, At
  <2>14. ASSUME NEW r \in Requests, RestartBegin(r) PROVE TypeOK'
    BY <2>14, BeginType DEF RestartBegin
  <2>15. ASSUME NEW r \in Requests, RestartProvider(r) PROVE TypeOK'
    BY <2>15, GotoType, ReturnType, BecomesType DEF RestartProvider, Alive, At
  <2>16. ASSUME NEW r \in Requests, EnsureBegin(r) PROVE TypeOK'
    BY <2>16, BeginType DEF EnsureBegin
  <2>17. ASSUME NEW r \in Requests, EnsureClaim(r) PROVE TypeOK'
    BY <2>17, GotoType, ReturnType DEF EnsureClaim, At
  <2>18. ASSUME NEW r \in Requests, EnsureCheck(r) PROVE TypeOK'
    BY <2>18, GotoType DEF EnsureCheck, At
  <2>19. ASSUME NEW r \in Requests, EnsureProvider(r) PROVE TypeOK'
    BY <2>19, GotoType, BecomesType DEF EnsureProvider, Alive, At
  <2>20. ASSUME NEW r \in Requests, EnsureRelease(r) PROVE TypeOK'
    BY <2>20, ReturnType DEF EnsureRelease, At
  <2>21. ASSUME NEW r \in Requests, ResumeWrite(r) PROVE TypeOK'
    BY <2>21, GotoType, AfterActivityType DEF ResumeWrite, ResumedStatus
  <2>22. ASSUME NEW r \in Requests, ReconcileBegin(r) PROVE TypeOK'
    BY <2>22, BeginType DEF ReconcileBegin
  <2>23. ASSUME NEW r \in Requests, ReconcileProbe(r) PROVE TypeOK'
    BY <2>23, GotoType, ReturnType, BecomesType DEF ReconcileProbe, At
  <2>24. ASSUME NEW r \in Requests, ReconcileWrite(r) PROVE TypeOK'
    <3>1. row' \in Rows
      BY <2>24 DEF ReconcileWrite
    <3>2. ProviderOK'
      BY <2>24, AfterActivityType DEF ReconcileWrite
    <3> QED
      BY <2>24, <3>1, <3>2, ReturnType DEF ReconcileWrite
  <2>25. ASSUME NEW r \in Requests, DeleteBegin(r) PROVE TypeOK'
    <3> DEFINE pc == IF row.status \in {"running", "pending"} THEN "select"
                     ELSE AfterClose("delete")
    <3>1. pc \in Points
      BY AfterCloseType
    <3>2. Begin(r, "delete", pc)
      BY <2>25 DEF DeleteBegin
    <3> HIDE DEF pc
    <3> QED
      BY <2>25, <3>1, <3>2, BeginType DEF DeleteBegin
  <2>26. ASSUME NEW r \in Requests, DeleteProvider(r) PROVE TypeOK'
    BY <2>26, GotoType, ReturnType, BecomesType, ReportsType DEF DeleteProvider, At
  <2>27. ASSUME NEW r \in Requests, DeleteClear(r) PROVE TypeOK'
    BY <2>27, GotoType, ReturnType DEF DeleteClear, At
  <2>28. ASSUME NEW r \in Requests, DeleteWrite(r) PROVE TypeOK'
    BY <2>28, GotoType DEF DeleteWrite, At
  <2>29. ASSUME NEW r \in Requests, DropRoutes(r) PROVE TypeOK'
    BY <2>29, GotoType, ReturnType DEF DropRoutes
  <2>30. ASSUME NEW r \in Requests, ReapBegin(r) PROVE TypeOK'
    BY <2>30, BeginType DEF ReapBegin
  <2>31. ASSUME NEW r \in Requests, ReapProvider(r) PROVE TypeOK'
    BY <2>31, GotoType, ReturnType, BecomesType, ReportsType DEF ReapProvider, At
  <2>32. ASSUME NEW r \in Requests, ReapWrite(r) PROVE TypeOK'
    BY <2>32, GotoType DEF ReapWrite, At
  <2>33. ASSUME NEW r \in Requests, SweepBegin(r) PROVE TypeOK'
    BY <2>33, BeginType DEF SweepBegin
  <2>34. ASSUME NEW r \in Requests, SweepProvider(r) PROVE TypeOK'
    BY <2>34, GotoType, BecomesType DEF SweepProvider, At
  <2>35. ASSUME NEW r \in Requests, SweepClear(r) PROVE TypeOK'
    BY <2>35, GotoType DEF SweepClear, At
  <2>36. ASSUME NEW r \in Requests, SweepOrphans(r) PROVE TypeOK'
    BY <2>36, GotoType, ReturnType DEF SweepOrphans, At
  <2>37. ASSUME NEW r \in Requests, SweepPurge(r) PROVE TypeOK'
    BY <2>37, ReturnType, BecomesType DEF SweepPurge, At
  <2>38. ASSUME NEW dup \in BOOLEAN, WebhookUp(dup) PROVE TypeOK'
    BY <2>38 DEF WebhookUp, Consume, UpFrom
  <2>39. ASSUME NEW r \in Requests, NEW dup \in BOOLEAN, WebhookDown(r, dup) PROVE TypeOK'
    BY <2>39, BeginType DEF WebhookDown, Consume
  <2>40. ASSUME NEW r \in Requests, NEW dup \in BOOLEAN, WebhookGone(r, dup) PROVE TypeOK'
    BY <2>40, BeginType DEF WebhookGone, Consume, GoneFrom
  <2>41. ASSUME NEW dup \in BOOLEAN, WebhookFailed(dup) PROVE TypeOK'
    BY <2>41 DEF WebhookFailed, Consume
  <2>42. ASSUME NEW r \in Requests, DropRoutesEarly(r) PROVE TypeOK'
    BY <2>42, DroppedType DEF DropRoutesEarly
  <2>43. ASSUME NEW r \in Requests, SelectSession(r) PROVE TypeOK'
    <3>1. CASE CloseReturns(r)
      BY <2>43, <3>1, GotoType, ReturnType, AfterCloseType DEF SelectSession, CloseReturns
    <3>2. ASSUME NEW s \in OpenSessions,
                 req' = [req EXCEPT ![r].pc = "stop", ![r].held = s]
          PROVE  TypeOK'
      <4> DEFINE call == [[req[r] EXCEPT !.pc = "stop"] EXCEPT !.held = s]
      <4>1. call \in Calls
        BY HeldType DEF OpenSessions
      <4>2. req' = [req EXCEPT ![r] = call]
        BY <3>2
      <4>3. UNCHANGED <<row, instance, events, session, billed, listed>>
        BY <2>43 DEF SelectSession
      <4> HIDE DEF call
      <4> QED
        BY <4>1, <4>2, <4>3
    <3> QED
      BY <2>43, <3>1, <3>2 DEF SelectSession
  <2>44. ASSUME NEW r \in Requests, StopSession(r) PROVE TypeOK'
    BY <2>44, GotoType DEF StopSession
  <2>45. ASSUME NEW r \in Requests, BillSession(r) PROVE TypeOK'
    <3> DEFINE s == req[r].held
    <3>1. billed' \in [SessionIds -> Nat]
      <4>1. billed' = [billed EXCEPT ![s] = billed[s] + 1]
        BY <2>45 DEF BillSession
      <4>2. s \in SessionIds => billed[s] + 1 \in Nat
        OBVIOUS
      <4> QED
        BY <4>1, <4>2
    <3>2. ReqOK'
      BY <2>45, GotoType, ReturnType, AfterCloseType DEF BillSession, CloseReturns
    <3> QED
      BY <2>45, <3>1, <3>2 DEF BillSession
  <2>46. ASSUME NEW r \in Requests, OpenSession(r) PROVE TypeOK'
    BY <2>46, ReturnType DEF OpenSession
  <2>47. ASSUME NEW r \in Requests, Crash(r) PROVE TypeOK'
    BY <2>47, ReturnType DEF Crash
  <2>48. CASE UNCHANGED vars
    BY <2>48 DEF vars
  <2> QED
    BY <2>1, <2>2, <2>3, <2>4, <2>5, <2>6, <2>7, <2>8, <2>9, <2>10,
       <2>11, <2>12, <2>13, <2>14, <2>15, <2>16, <2>17, <2>18, <2>19,
       <2>20, <2>21, <2>22, <2>23, <2>24, <2>25, <2>26, <2>27, <2>28,
       <2>29, <2>30, <2>31, <2>32, <2>33, <2>34, <2>35, <2>36, <2>37,
       <2>38, <2>39, <2>40, <2>41, <2>42, <2>43, <2>44, <2>45, <2>46,
       <2>47, <2>48 DEF Next, Surroundings, Create, Pause, Resume,
       Reconcile, Delete, Reap, Sweep, Webhook, Metering
<1> QED
  BY <1>1, <1>2, PTL DEF Spec

-----------------------------------------------------------------------------
(* The inductive invariant.  The safety properties relate the row to the   *)
(* instance; they survive a step only because of what is known of the      *)
(* handlers in between: one that has torn the instance down, and is about  *)
(* to write it into the row, finds the instance still gone.                *)

\* One creation at a time, of a row that is not there yet, and before it the
\* provider has no instance.
CreationOK ==
  /\ \A r, q \in Requests :
       req[r].op = "create" /\ req[q].op = "create" => r = q
  /\ \A r \in Requests :
       /\ At(r, "create", "provider") => instance = "none"
       /\ At(r, "create", "insert") => row.status = "absent" /\ instance # "none"
  /\ instance = "none" => row.status = "absent"
  /\ row.status = "absent" => ~row.ref

\* Which handlers are known to serve a row that exists, which of them meter,
\* and what the ones that write the status unconditionally have read.
ServedOK ==
  \A r \in Requests :
    /\ req[r].op \in {"pause", "restart", "ensure", "reconcile", "delete",
                      "reap", "webhook"}
         => row.status # "absent"
    /\ req[r].op = "create" /\ req[r].pc \notin {"provider", "insert"}
         => row.status # "absent"
    /\ req[r].op = "sweep" /\ req[r].pc \in {"provider", "clear"}
         => row.status # "absent"
    /\ req[r].pc \in {"select", "stop", "bill"}
         => req[r].op \in {"pause", "delete", "webhook"}
    /\ req[r].op \in {"pause", "restart", "ensure"}
         => req[r].snap # "terminated"

\* What a handler that was told that the instance is destroyed has left to
\* write is true.
TeardownOK ==
  /\ \A r \in Requests :
       /\ ReportsFailure /\ req[r].pc = "clear" => instance = "gone"
       /\ ReportsFailure /\ At(r, "reap", "write") => instance = "gone"
       /\ At(r, "delete", "write") /\ Provider # "aws" => ~row.ref
  /\ "gone" \in events => instance = "gone"

\* Railway sends no "gone" events: its terminated rows were cleared.
RailwayCleared ==
  Provider = "railway" /\ row.status = "terminated" => ~row.ref

Inv ==
  /\ CreationOK /\ ServedOK /\ TeardownOK /\ RailwayCleared
  /\ NoOrphanInstance /\ TerminatedMeansGone

\* After a step of r, its invocation is this and the others are as before.
Now(r, op, pc, snap) ==
  /\ \A q \in Requests \ {r} : req'[q] = req[q]
  /\ req'[r].op = op /\ req'[r].pc = pc /\ req'[r].snap = snap

\* An invocation begins with the status it read.
LEMMA BeginEffect ==
  ASSUME NEW r \in Requests, NEW op, NEW pc, ReqOK, Begin(r, op, pc)
  PROVE  Now(r, op, pc, row.status)
<1> DEFINE call == [NoCall EXCEPT !.op = op, !.pc = pc, !.snap = row.status]
<1>1. call.op = op /\ call.pc = pc /\ call.snap = row.status
  BY DEF NoCall
<1>2. req' = [req EXCEPT ![r] = call]
  BY DEF Begin
<1> HIDE DEF call
<1> QED
  BY <1>1, <1>2 DEF ReqOK, Now

\* It moves on without reading the status again.
LEMMA GotoEffect ==
  ASSUME NEW r \in Requests, NEW pc, ReqOK, Goto(r, pc)
  PROVE  Now(r, req[r].op, pc, req[r].snap)
BY DEF ReqOK, Goto, Now, Calls

\* It leaves nothing behind.
LEMMA ReturnEffect ==
  ASSUME NEW r \in Requests, ReqOK, Return(r)
  PROVE  Now(r, "none", "idle", "absent")
BY DEF ReqOK, Return, Now, NoCall

\* The end of closeUsageSession: what the handler does next.
LEMMA CloseEffect ==
  ASSUME NEW r \in Requests, ReqOK, CloseReturns(r)
  PROVE  \/ Now(r, "none", "idle", "absent")
         \/ Now(r, req[r].op, AfterClose(req[r].op), req[r].snap)
BY GotoEffect, ReturnEffect DEF CloseReturns

\* No provider call but the one of createWorkspace makes an instance, none
\* brings a destroyed one back, and "gone" is emitted of a destroyed one only.
Sound ==
  /\ instance' = "none" <=> instance = "none"
  /\ instance = "gone" => instance' = "gone"
  /\ "gone" \in events' => "gone" \in events \/ instance' = "gone"

\* Only the destruction of the instance is reported as one.
LEMMA EmittedGone == \A target : "gone" \in Emitted(target) => target = "gone"
BY DEF Emitted

\* The provider calls of the handlers are sound in that sense.
LEMMA BecomesSound ==
  ASSUME NEW target \in {"running", "stopped", "gone"},
         \/ MaybeBecomes(target)
         \/ Alive /\ Becomes(target)
         \/ instance # "none" /\ target = "gone" /\ Becomes(target)
  PROVE  Sound
BY EmittedGone DEF Sound, MaybeBecomes, Becomes, Alive

\* So is a call that the adapter reports as done, and it has done it unless
\* the adapter hides failures.
LEMMA ReportsSound ==
  ASSUME NEW target \in {"stopped", "gone"}, instance # "none", Reports(target)
  PROVE  /\ Sound
         /\ ReportsFailure => instance' = target
BY EmittedGone DEF Sound, Reports, Outcomes, Becomes, Alive, ReportsFailure

\* Inv is inductive: every step of every handler keeps it.
LEMMA Invariance == Spec => []Inv
<1>1. Init => Inv
  BY DEF Init, Inv, CreationOK, ServedOK, TeardownOK, RailwayCleared,
         NoOrphanInstance, TerminatedMeansGone, NoCall, NoRow, At
<1>2. TypeOK /\ Inv /\ [Next]_vars => Inv'
  <2> SUFFICES ASSUME TypeOK, Inv, [Next]_vars
               PROVE  Inv'
    OBVIOUS
  <2> USE DEF TypeOK, ReqOK, Rows, Inv, CreationOK, ServedOK, TeardownOK,
              RailwayCleared, NoOrphanInstance, TerminatedMeansGone, At
  <2>1. ASSUME AutoStop PROVE Inv'
    BY <2>1, BecomesSound DEF AutoStop, Sound, Alive
  <2>2. ASSUME AutoKill PROVE Inv'
    BY <2>2, BecomesSound DEF AutoKill, Sound, Becomes, Now, Alive,
       EventKinds
  <2>3. ASSUME DeployFails PROVE Inv'
    BY <2>3 DEF DeployFails, Alive, EventKinds
  <2>4. ASSUME ReaperList PROVE Inv'
    BY <2>4 DEF ReaperList
  <2>5. ASSUME Touch PROVE Inv'
    BY <2>5, AfterActivityType DEF Touch, Now
  <2>6. ASSUME RetentionElapses PROVE Inv'
    BY <2>6 DEF RetentionElapses
  <2>7. ASSUME NEW r \in Requests, CreateBegin(r) PROVE Inv'
    BY <2>7, BeginEffect DEF CreateBegin, Now
  <2>8. ASSUME NEW r \in Requests, CreateProvision(r) PROVE Inv'
    BY <2>8, GotoEffect, ReturnEffect, EmittedGone DEF CreateProvision,
       Now
  <2>9. ASSUME NEW r \in Requests, CreateInsert(r) PROVE Inv'
    <3>1. ASSUME row' = row, Return(r) PROVE Inv'
      BY <2>9, <3>1, ReturnEffect DEF CreateInsert, Now
    <3>2. ASSUME row'.status \in {"running", "pending"}, row'.ref, Goto(r, "routes")
          PROVE  Inv'
      BY <2>9, <3>2, GotoEffect DEF CreateInsert, Now
    <3> QED
      BY <2>9, <3>1, <3>2 DEF CreateInsert, NoRow
  <2>10. ASSUME NEW r \in Requests, CreateRoutes(r) PROVE Inv'
    BY <2>10, GotoEffect DEF CreateRoutes, Now
  <2>11. ASSUME NEW r \in Requests, PauseBegin(r) PROVE Inv'
    BY <2>11, BeginEffect DEF PauseBegin, Now
  <2>12. ASSUME NEW r \in Requests, PauseProvider(r) PROVE Inv'
    BY <2>12, GotoEffect, ReturnEffect, BecomesSound, ReportsSound, EmittedGone
       DEF PauseProvider, Sound, Now, Alive, PausesE2b
  <2>13. ASSUME NEW r \in Requests, PauseWrite(r) PROVE Inv'
    BY <2>13, ReturnEffect DEF PauseWrite, Now
  <2>14. ASSUME NEW r \in Requests, RestartBegin(r) PROVE Inv'
    BY <2>14, BeginEffect DEF RestartBegin, Now
  <2>15. ASSUME NEW r \in Requests, RestartProvider(r) PROVE Inv'
    BY <2>15, GotoEffect, ReturnEffect, BecomesSound DEF
       RestartProvider, Sound, Now, Alive
  <2>16. ASSUME NEW r \in Requests, EnsureBegin(r) PROVE Inv'
    BY <2>16, BeginEffect DEF EnsureBegin, Now
  <2>17. ASSUME NEW r \in Requests, EnsureClaim(r) PROVE Inv'
    BY <2>17, GotoEffect, ReturnEffect DEF EnsureClaim, Now
  <2>18. ASSUME NEW r \in Requests, EnsureCheck(r) PROVE Inv'
    BY <2>18, GotoEffect DEF EnsureCheck, Now
  <2>19. ASSUME NEW r \in Requests, EnsureProvider(r) PROVE Inv'
    BY <2>19, GotoEffect, BecomesSound DEF EnsureProvider, Sound, Now,
       Alive
  <2>20. ASSUME NEW r \in Requests, EnsureRelease(r) PROVE Inv'
    BY <2>20, ReturnEffect DEF EnsureRelease, Now
  <2>21. ASSUME NEW r \in Requests, ResumeWrite(r) PROVE Inv'
    BY <2>21, GotoEffect, AfterActivityType DEF ResumeWrite, Now,
       ResumedStatus
  <2>22. ASSUME NEW r \in Requests, ReconcileBegin(r) PROVE Inv'
    BY <2>22, BeginEffect DEF ReconcileBegin, Now
  <2>23. ASSUME NEW r \in Requests, ReconcileProbe(r) PROVE Inv'
    BY <2>23, GotoEffect, ReturnEffect, BecomesSound DEF ReconcileProbe,
       Sound, Now, Alive
  <2>24. ASSUME NEW r \in Requests, ReconcileWrite(r) PROVE Inv'
    <3>1. row'.ref = row.ref
      BY <2>24 DEF ReconcileWrite
    <3>2. row'.status = row.status \/ (row'.status = "running" /\ row.status # "absent")
      BY <2>24 DEF ReconcileWrite
    <3>3. "gone" \in events' => "gone" \in events
      BY <2>24, AfterActivityType DEF ReconcileWrite
    <3> QED
      BY <2>24, <3>1, <3>2, <3>3, ReturnEffect DEF ReconcileWrite, Now
  <2>25. ASSUME NEW r \in Requests, DeleteBegin(r) PROVE Inv'
    <3>1. PICK pc \in {"select", "write", "provider"} :
            Begin(r, "delete", pc) /\ (pc = "write" => Provider = "aws")
      BY <2>25 DEF DeleteBegin, AfterClose, Background
    <3> QED
      BY <2>25, <3>1, BeginEffect DEF DeleteBegin, Now
  <2>26. ASSUME NEW r \in Requests, DeleteProvider(r) PROVE Inv'
    BY <2>26, GotoEffect, ReturnEffect, BecomesSound, ReportsSound
       DEF DeleteProvider, Sound, Now
  <2>27. ASSUME NEW r \in Requests, DeleteClear(r) PROVE Inv'
    BY <2>27, GotoEffect, ReturnEffect DEF DeleteClear, Now, Background
  <2>28. ASSUME NEW r \in Requests, DeleteWrite(r) PROVE Inv'
    BY <2>28, GotoEffect DEF DeleteWrite, Now
  <2>29. ASSUME NEW r \in Requests, DropRoutes(r) PROVE Inv'
    BY <2>29, GotoEffect, ReturnEffect DEF DropRoutes, Now, Background
  <2>30. ASSUME NEW r \in Requests, ReapBegin(r) PROVE Inv'
    BY <2>30, BeginEffect DEF ReapBegin, Now
  <2>31. ASSUME NEW r \in Requests, ReapProvider(r) PROVE Inv'
    BY <2>31, GotoEffect, ReturnEffect, BecomesSound, ReportsSound
       DEF ReapProvider, Sound, Now
  <2>32. ASSUME NEW r \in Requests, ReapWrite(r) PROVE Inv'
    BY <2>32, GotoEffect DEF ReapWrite, Now
  <2>33. ASSUME NEW r \in Requests, SweepBegin(r) PROVE Inv'
    BY <2>33, BeginEffect DEF SweepBegin, Now
  <2>34. ASSUME NEW r \in Requests, SweepProvider(r) PROVE Inv'
    BY <2>34, GotoEffect, BecomesSound DEF SweepProvider, Sound,
       Becomes, Now
  <2>35. ASSUME NEW r \in Requests, SweepClear(r) PROVE Inv'
    BY <2>35, GotoEffect DEF SweepClear, Now
  <2>36. ASSUME NEW r \in Requests, SweepOrphans(r) PROVE Inv'
    BY <2>36, GotoEffect, ReturnEffect DEF SweepOrphans, Now
  <2>37. ASSUME NEW r \in Requests, SweepPurge(r) PROVE Inv'
    BY <2>37, ReturnEffect, BecomesSound DEF SweepPurge, Sound, Becomes,
       Now
  <2>38. ASSUME NEW dup \in BOOLEAN, WebhookUp(dup) PROVE Inv'
    BY <2>38 DEF WebhookUp, Consume, UpFrom
  <2>39. ASSUME NEW r \in Requests, NEW dup \in BOOLEAN, WebhookDown(r, dup) PROVE Inv'
    BY <2>39, BeginEffect DEF WebhookDown, Now, Consume
  <2>40. ASSUME NEW r \in Requests, NEW dup \in BOOLEAN, WebhookGone(r, dup) PROVE Inv'
    BY <2>40, BeginEffect DEF WebhookGone, Now, Consume, GoneFrom,
       EventKinds
  <2>41. ASSUME NEW dup \in BOOLEAN, WebhookFailed(dup) PROVE Inv'
    <3>1. Provider = "railway"
      BY <2>41 DEF WebhookFailed, EventKinds
    <3>2. "gone" \notin events
      BY <3>1 DEF EventKinds
    <3>3. events' \subseteq events /\ UNCHANGED <<instance, req>>
      BY <2>41 DEF WebhookFailed, Consume
    <3>4. CASE ~row.ref
      BY <2>41, <3>3, <3>4 DEF WebhookFailed
    <3>5. CASE row.ref
      <4>1. row'.status = "paused" /\ row'.ref
        BY <2>41, <3>5 DEF WebhookFailed
      <4>2. row.status # "absent"
        BY <3>5
      <4> QED
        BY <3>2, <3>3, <3>5, <4>1, <4>2
    <3> QED
      BY <3>4, <3>5
  <2>42. ASSUME NEW r \in Requests, DropRoutesEarly(r) PROVE Inv'
    BY <2>42 DEF DropRoutesEarly
  <2>43. ASSUME NEW r \in Requests, SelectSession(r) PROVE Inv'
    <3>1. CASE CloseReturns(r)
      BY <2>43, <3>1, CloseEffect DEF SelectSession, AfterClose, Background, Now
    <3>2. ASSUME NEW s \in OpenSessions,
                 req' = [req EXCEPT ![r].pc = "stop", ![r].held = s]
          PROVE  Inv'
      <4>1. Now(r, req[r].op, "stop", req[r].snap)
        BY <3>2 DEF Now, Calls
      <4> QED
        BY <2>43, <4>1 DEF SelectSession, Now
    <3> QED
      BY <2>43, <3>1, <3>2 DEF SelectSession
  <2>44. ASSUME NEW r \in Requests, StopSession(r) PROVE Inv'
    BY <2>44, GotoEffect DEF StopSession, Now
  <2>45. ASSUME NEW r \in Requests, BillSession(r) PROVE Inv'
    BY <2>45, CloseEffect DEF BillSession, AfterClose, Background, Now
  <2>46. ASSUME NEW r \in Requests, OpenSession(r) PROVE Inv'
    BY <2>46, ReturnEffect DEF OpenSession, Now
  <2>47. ASSUME NEW r \in Requests, Crash(r) PROVE Inv'
    BY <2>47, ReturnEffect DEF Crash, Now
  <2>48. CASE UNCHANGED vars
    BY <2>48 DEF vars
  <2> QED
    BY <2>1, <2>2, <2>3, <2>4, <2>5, <2>6, <2>7, <2>8, <2>9, <2>10,
       <2>11, <2>12, <2>13, <2>14, <2>15, <2>16, <2>17, <2>18, <2>19,
       <2>20, <2>21, <2>22, <2>23, <2>24, <2>25, <2>26, <2>27, <2>28,
       <2>29, <2>30, <2>31, <2>32, <2>33, <2>34, <2>35, <2>36, <2>37,
       <2>38, <2>39, <2>40, <2>41, <2>42, <2>43, <2>44, <2>45, <2>46,
       <2>47, <2>48 DEF Next, Surroundings, Create, Pause, Resume,
       Reconcile, Delete, Reap, Sweep, Webhook, Metering
<1> QED
  BY <1>1, <1>2, TypeCorrect, PTL DEF Spec

\* However handlers and webhooks interleave, with an adapter that reports a
\* failed teardown (every one but Cloudflare's), a row without a reference to
\* an instance is the row of a destroyed one.
THEOREM NothingIsOrphaned == Spec => []NoOrphanInstance
BY Invariance, PTL DEF Inv

\* With such an adapter, and not on AWS, a workspace shown as terminated has
\* been destroyed.
THEOREM TerminatedIsDestroyed == Spec => []TerminatedMeansGone
BY Invariance, PTL DEF Inv

\* Only a handler that read the row before its termination can revive it.
THEOREM StaleWritersOnly == Spec => OnlyStaleWritersRevive
<1> DEFINE Revives == row.status = "terminated" /\ row'.status # "terminated"
           Stale == \E r \in Requests : /\ req[r].snap # "terminated"
                                        /\ req[r].pc \in {"write", "release"}
<1>1. TypeOK /\ Inv /\ [Next]_vars => [Revives => Stale]_vars
  <2> SUFFICES ASSUME TypeOK, Inv, Next, Revives
               PROVE  Stale
    OBVIOUS
  <2> USE DEF TypeOK, Rows
  <2>1. ASSUME NEW r \in Requests, CreateInsert(r) PROVE Stale
    BY <2>1 DEF CreateInsert, At, Inv, CreationOK
  <2>2. ASSUME NEW r \in Requests, PauseWrite(r) PROVE Stale
    BY <2>2 DEF PauseWrite, At, Inv, ServedOK
  <2>3. ASSUME NEW r \in Requests, EnsureClaim(r) PROVE Stale
    BY <2>3 DEF EnsureClaim, At
  <2>4. ASSUME NEW r \in Requests, EnsureRelease(r) PROVE Stale
    BY <2>4 DEF EnsureRelease, At, Inv, ServedOK
  <2>5. ASSUME NEW r \in Requests, ResumeWrite(r) PROVE Stale
    BY <2>5 DEF ResumeWrite, Inv, ServedOK
  <2>6. ASSUME NEW r \in Requests, ReconcileWrite(r) PROVE Stale
    BY <2>6 DEF ReconcileWrite, At
  <2>7. ASSUME NEW dup \in BOOLEAN, WebhookUp(dup) PROVE Stale
    BY <2>7 DEF WebhookUp, UpFrom
  <2>8. ASSUME NEW r \in Requests, NEW dup \in BOOLEAN, WebhookDown(r, dup) PROVE Stale
    BY <2>8 DEF WebhookDown
  <2>9. ASSUME NEW dup \in BOOLEAN, WebhookFailed(dup) PROVE Stale
    <3>1. Provider = "railway"
      BY <2>9 DEF WebhookFailed, EventKinds
    <3>2. ~row.ref
      BY <3>1 DEF Inv, RailwayCleared
    <3> QED
      BY <2>9, <3>2 DEF WebhookFailed
  <2>10. Next => \/ Stale \/ row'.status \in {row.status, "terminated"}
    BY <2>1, <2>2, <2>3, <2>4, <2>5, <2>6, <2>7, <2>8, <2>9 DEF Next,
       Surroundings, Create, Pause, Resume, Reconcile, Delete, Reap,
       Sweep, Webhook, Metering, Crash, AutoStop, AutoKill, DeployFails,
       ReaperList, Touch, RetentionElapses, CreateBegin, CreateProvision,
       CreateRoutes, PauseBegin, PauseProvider, RestartBegin,
       RestartProvider, EnsureBegin, EnsureCheck, EnsureProvider,
       ReconcileBegin, ReconcileProbe, DeleteBegin, DeleteProvider,
       DeleteClear, DeleteWrite, DropRoutes, ReapBegin, ReapProvider,
       ReapWrite, SweepBegin, SweepProvider, SweepClear, SweepOrphans,
       SweepPurge, WebhookGone, DropRoutesEarly, SelectSession,
       StopSession, BillSession, OpenSession
  <2> QED
    BY <2>10
<1> QED
  BY <1>1, TypeCorrect, Invariance, PTL DEF Spec, OnlyStaleWritersRevive
-----------------------------------------------------------------------------
(* Handlers that do not overlap.  Metering and the clean-up of the route   *)
(* access are not safe against interleaving: they are correct as long as   *)
(* no handler starts before the one before it has returned and none dies.  *)
(* On Railway metering is wrong even then: the webhook of a deployment     *)
(* that failed pauses the row and leaves the session open.  `Serial` is a  *)
(* hypothesis about the behaviour, not about the number of requests; the   *)
(* provider's events still come at any moment.                             *)

\* At most one invocation of a handler is in flight.
Serial == \A r, q \in Requests : req[r] # NoCall /\ req[q] # NoCall => r = q

\* The invocation in flight, or NoCall.
call == IF Quiet THEN NoCall ELSE req[CHOOSE r \in Requests : req[r] # NoCall]

NoneOpen == \A s \in SessionIds : session[s] # "open"

\* A webhook stores first that the workspace stopped, then closes the session.
ClosesLate == call.op = "webhook" /\ call.pc \in {"select", "stop"}

\* An invocation that is yet to open a session, or has closed the open one.
FindsNoneOpen ==
  \/ call.op \in Openers \cup {"reap"}
  \/ call.op \in {"delete", "webhook"} /\ call.pc \notin {"select", "stop"}
  \/ call.op = "pause" /\ call.pc \in {"bill", "write"}

\* One session is open at most, and none while the workspace is stopped,
\* except the one that a webhook is about to close; a handler that opens one
\* serves a workspace that is not stopped.
MeteredOK ==
  /\ \A s, t \in SessionIds : session[s] = "open" /\ session[t] = "open" => s = t
  /\ row.status \in {"absent", "paused", "terminated"} /\ ~ClosesLate => NoneOpen
  /\ FindsNoneOpen => NoneOpen
  /\ call.op \in Openers /\ call.pc \in {"routes", "open"}
       => row.status \in {"running", "pending"}

\* The session that is being closed is open until it is stopped; a closed one
\* has been billed once, or is about to be.
BilledOK ==
  /\ call.pc = "stop" => call.held \in SessionIds /\ session[call.held] = "open"
  /\ call.pc = "bill" => call.held \in SessionIds /\ session[call.held] = "closed"
  /\ \A s \in SessionIds :
       billed[s] = IF session[s] = "closed" /\ ~(call.pc = "bill" /\ call.held = s)
                   THEN 1 ELSE 0

\* An invocation that is yet to drop the route access.
DropsRoutes ==
  \/ call.op \in {"delete", "reap", "webhook"} /\ call.pc = "routes"
  \/ call.op = "webhook" /\ call.pc \in {"select", "stop", "bill"} /\ ~call.dropped

\* The route access of a terminated workspace is dropped before the handler
\* returns, and none is granted to a terminated one.
RoutesOK ==
  /\ row.status = "terminated" /\ row.routes => DropsRoutes
  /\ call.op = "create" /\ call.pc = "routes" => row.status # "terminated"
  /\ call.dropped => call.op = "webhook"

\* Which handlers open and which close sessions.
ShapeOK ==
  /\ call.pc = "open" => call.op \in Openers
  /\ call.pc \in {"select", "stop", "bill"} => call.op \in {"pause", "delete", "webhook"}

SerialInv ==
  /\ Provider # "railway" => MeteredOK
  /\ BilledOK /\ RoutesOK /\ ShapeOK

\* Two invocations cannot both be the one in flight.
LEMMA TheCall ==
  ASSUME Serial, NEW r \in Requests, req[r] # NoCall
  PROVE  /\ call = req[r]
         /\ \A q \in Requests \ {r} : req[q] = NoCall
BY DEF Serial, call, Quiet

\* Before an invocation begins nothing is in flight; then it is.
LEMMA BeginCall ==
  ASSUME ReqOK, Serial', NEW r \in Requests, NEW op, NEW pc, op # "none",
         Begin(r, op, pc)
  PROVE  /\ Quiet /\ call = NoCall
         /\ call'.op = op /\ call'.pc = pc /\ ~call'.dropped
<1>1. /\ req[r] = NoCall
      /\ \A q \in Requests \ {r} : req'[q] = req[q]
      /\ req'[r].op = op /\ req'[r].pc = pc /\ ~req'[r].dropped
  <2> DEFINE new == [NoCall EXCEPT !.op = op, !.pc = pc, !.snap = row.status]
  <2>1. new.op = op /\ new.pc = pc /\ ~new.dropped
    BY DEF NoCall
  <2>2. req' = [req EXCEPT ![r] = new] /\ req[r] = NoCall
    BY DEF Begin
  <2> HIDE DEF new
  <2> QED
    BY <2>1, <2>2 DEF ReqOK
<1>2. req'[r] # NoCall
  BY <1>1 DEF NoCall
<1>3. \A q \in Requests \ {r} : req'[q] = NoCall
  BY <1>2 DEF Serial
<1>4. Quiet /\ call = NoCall
  BY <1>1, <1>3 DEF Quiet, call
<1>5. call' = req'[r]
  BY <1>2, <1>3 DEF call, Quiet
<1> QED
  BY <1>1, <1>4, <1>5

\* The invocation in flight moves on.
LEMMA GotoCall ==
  ASSUME ReqOK, Serial, NEW r \in Requests, NEW pc, req[r].pc # "idle", pc # "idle",
         Goto(r, pc)
  PROVE  /\ call = req[r] /\ call \in Calls
         /\ call'.op = call.op /\ call'.pc = pc
         /\ call'.held = call.held /\ call'.dropped = call.dropped
<1>1. req[r] # NoCall
  BY DEF NoCall
<1>2. /\ \A q \in Requests \ {r} : req'[q] = req[q]
      /\ req'[r].op = req[r].op /\ req'[r].pc = pc
      /\ req'[r].held = req[r].held /\ req'[r].dropped = req[r].dropped
  BY DEF ReqOK, Goto, Calls
<1>3. call = req[r] /\ \A q \in Requests \ {r} : req[q] = NoCall
  BY <1>1, TheCall
<1>4. req'[r] # NoCall
  BY <1>2 DEF NoCall
<1>5. call' = req'[r]
  BY <1>2, <1>3, <1>4 DEF call, Quiet
<1> QED
  BY <1>2, <1>3, <1>5 DEF ReqOK

\* The invocation in flight returns, and none is.
LEMMA ReturnCall ==
  ASSUME ReqOK, Serial, NEW r \in Requests, req[r].pc # "idle", Return(r)
  PROVE  /\ call = req[r] /\ call \in Calls
         /\ call' = NoCall
<1>1. req[r] # NoCall
  BY DEF NoCall
<1>2. call = req[r] /\ \A q \in Requests \ {r} : req[q] = NoCall
  BY <1>1, TheCall
<1>3. req' = [req EXCEPT ![r] = NoCall]
  BY DEF Return
<1>4. Quiet'
  BY <1>2, <1>3 DEF Quiet, ReqOK
<1> QED
  BY <1>2, <1>4 DEF call, ReqOK

\* The invocation in flight holds the session it has selected.
LEMMA HoldCall ==
  ASSUME ReqOK, Serial, NEW r \in Requests, req[r].pc # "idle", NEW s,
         req' = [req EXCEPT ![r].pc = "stop", ![r].held = s]
  PROVE  /\ call = req[r] /\ call \in Calls
         /\ call'.op = call.op /\ call'.pc = "stop"
         /\ call'.held = s /\ call'.dropped = call.dropped
<1>1. req[r] # NoCall
  BY DEF NoCall
<1>2. /\ \A q \in Requests \ {r} : req'[q] = req[q]
      /\ req'[r].op = req[r].op /\ req'[r].pc = "stop"
      /\ req'[r].held = s /\ req'[r].dropped = req[r].dropped
  BY DEF ReqOK, Calls
<1>3. call = req[r] /\ \A q \in Requests \ {r} : req[q] = NoCall
  BY <1>1, TheCall
<1>4. NoCall.pc = "idle"
  BY DEF NoCall
<1>5. \A q \in Requests : req'[q] # NoCall <=> q = r
  BY <1>2, <1>3, <1>4
<1>6. call' = req'[r]
  BY <1>5 DEF call, Quiet
<1> QED
  BY <1>2, <1>3, <1>6 DEF ReqOK

\* The invocation in flight has dropped the routes before its time.
LEMMA DropCall ==
  ASSUME ReqOK, Serial, NEW r \in Requests, req[r].pc # "idle",
         req' = [req EXCEPT ![r].dropped = TRUE]
  PROVE  /\ call = req[r] /\ call \in Calls
         /\ call'.op = call.op /\ call'.pc = call.pc
         /\ call'.held = call.held /\ call'.dropped
<1>1. req[r] # NoCall
  BY DEF NoCall
<1>2. /\ \A q \in Requests \ {r} : req'[q] = req[q]
      /\ req'[r].op = req[r].op /\ req'[r].pc = req[r].pc
      /\ req'[r].held = req[r].held /\ req'[r].dropped
  BY DEF ReqOK, Calls
<1>3. call = req[r] /\ \A q \in Requests \ {r} : req[q] = NoCall
  BY <1>1, TheCall
<1>4. NoCall.pc = "idle"
  BY DEF NoCall
<1>5. \A q \in Requests : req'[q] # NoCall <=> q = r
  BY <1>2, <1>3, <1>4
<1>6. call' = req'[r]
  BY <1>5 DEF call, Quiet
<1> QED
  BY <1>2, <1>3, <1>6 DEF ReqOK

\* A step that touches no invocation leaves the one in flight alone.
LEMMA SameCall == ASSUME UNCHANGED req PROVE UNCHANGED call
BY DEF call, Quiet

\* Every step of handlers that do not overlap keeps the invariant.
LEMMA SerialStep ==
  ASSUME ~CanCrash,
         TypeOK, Serial, Serial', SerialInv, [Next]_vars
  PROVE  SerialInv'
<1> USE DEF TypeOK, ReqOK, Rows, SerialInv, MeteredOK, BilledOK, RoutesOK, ShapeOK,
            NoneOpen, ClosesLate, FindsNoneOpen, DropsRoutes, Openers, NoCall, At
<1>1. ASSUME AutoStop PROVE SerialInv'
  BY <1>1, SameCall DEF AutoStop
<1>2. ASSUME AutoKill PROVE SerialInv'
  BY <1>2, SameCall DEF AutoKill
<1>3. ASSUME DeployFails PROVE SerialInv'
  BY <1>3, SameCall DEF DeployFails
<1>4. ASSUME ReaperList PROVE SerialInv'
  BY <1>4, SameCall DEF ReaperList
<1>5. ASSUME Touch PROVE SerialInv'
  BY <1>5, SameCall DEF Touch
<1>6. ASSUME RetentionElapses PROVE SerialInv'
  BY <1>6, SameCall DEF RetentionElapses
<1>7. ASSUME NEW r \in Requests, CreateBegin(r) PROVE SerialInv'
  BY <1>7, BeginCall DEF CreateBegin
<1>8. ASSUME NEW r \in Requests, CreateProvision(r) PROVE SerialInv'
  BY <1>8, GotoCall, ReturnCall DEF CreateProvision
<1>9. ASSUME NEW r \in Requests, CreateInsert(r) PROVE SerialInv'
  <2>1. ASSUME row' = row, Return(r) PROVE SerialInv'
    BY <1>9, <2>1, ReturnCall DEF CreateInsert
  <2>2. ASSUME row'.status \in {"running", "pending"}, Goto(r, "routes")
        PROVE  SerialInv'
    BY <1>9, <2>2, GotoCall DEF CreateInsert
  <2> QED
    BY <1>9, <2>1, <2>2 DEF CreateInsert, NoRow
<1>10. ASSUME NEW r \in Requests, CreateRoutes(r) PROVE SerialInv'
  BY <1>10, GotoCall DEF CreateRoutes
<1>11. ASSUME NEW r \in Requests, PauseBegin(r) PROVE SerialInv'
  BY <1>11, BeginCall DEF PauseBegin
<1>12. ASSUME NEW r \in Requests, PauseProvider(r) PROVE SerialInv'
  BY <1>12, GotoCall, ReturnCall DEF PauseProvider
<1>13. ASSUME NEW r \in Requests, PauseWrite(r) PROVE SerialInv'
  BY <1>13, ReturnCall DEF PauseWrite
<1>14. ASSUME NEW r \in Requests, RestartBegin(r) PROVE SerialInv'
  BY <1>14, BeginCall DEF RestartBegin
<1>15. ASSUME NEW r \in Requests, RestartProvider(r) PROVE SerialInv'
  BY <1>15, GotoCall, ReturnCall DEF RestartProvider
<1>16. ASSUME NEW r \in Requests, EnsureBegin(r) PROVE SerialInv'
  BY <1>16, BeginCall DEF EnsureBegin
<1>17. ASSUME NEW r \in Requests, EnsureClaim(r) PROVE SerialInv'
  BY <1>17, GotoCall, ReturnCall DEF EnsureClaim
<1>18. ASSUME NEW r \in Requests, EnsureCheck(r) PROVE SerialInv'
  BY <1>18, GotoCall DEF EnsureCheck
<1>19. ASSUME NEW r \in Requests, EnsureProvider(r) PROVE SerialInv'
  BY <1>19, GotoCall DEF EnsureProvider
<1>20. ASSUME NEW r \in Requests, EnsureRelease(r) PROVE SerialInv'
  BY <1>20, ReturnCall DEF EnsureRelease
<1>21. ASSUME NEW r \in Requests, ResumeWrite(r) PROVE SerialInv'
  BY <1>21, GotoCall DEF ResumeWrite, ResumedStatus
<1>22. ASSUME NEW r \in Requests, ReconcileBegin(r) PROVE SerialInv'
  BY <1>22, BeginCall DEF ReconcileBegin
<1>23. ASSUME NEW r \in Requests, ReconcileProbe(r) PROVE SerialInv'
  BY <1>23, GotoCall, ReturnCall DEF ReconcileProbe
<1>24. ASSUME NEW r \in Requests, ReconcileWrite(r) PROVE SerialInv'
  <2>1. /\ row'.status = row.status \/ row'.status = "running"
        /\ row'.routes = row.routes
    <3>1. CASE row.status \in {"paused", "pending"}
      BY <1>24, <3>1 DEF ReconcileWrite
    <3>2. CASE row.status \notin {"paused", "pending"}
      BY <1>24, <3>2 DEF ReconcileWrite
    <3> QED
      BY <3>1, <3>2
  <2>2. Return(r) /\ UNCHANGED <<session, billed>> /\ req[r].pc = "write"
    BY <1>24 DEF ReconcileWrite
  <2> QED
    BY <2>1, <2>2, ReturnCall
<1>25. ASSUME NEW r \in Requests, DeleteBegin(r) PROVE SerialInv'
  <2>1. PICK pc \in {"select", "write", "provider"} :
          /\ Begin(r, "delete", pc)
          /\ pc # "select" => row.status \in {"absent", "paused", "terminated"}
    BY <1>25 DEF DeleteBegin, AfterClose, Statuses
  <2> QED
    BY <1>25, <2>1, BeginCall DEF DeleteBegin
<1>26. ASSUME NEW r \in Requests, DeleteProvider(r) PROVE SerialInv'
  BY <1>26, GotoCall, ReturnCall DEF DeleteProvider
<1>27. ASSUME NEW r \in Requests, DeleteClear(r) PROVE SerialInv'
  BY <1>27, GotoCall, ReturnCall DEF DeleteClear, Background
<1>28. ASSUME NEW r \in Requests, DeleteWrite(r) PROVE SerialInv'
  BY <1>28, GotoCall DEF DeleteWrite
<1>29. ASSUME NEW r \in Requests, DropRoutes(r) PROVE SerialInv'
  BY <1>29, GotoCall, ReturnCall DEF DropRoutes, Background
<1>30. ASSUME NEW r \in Requests, ReapBegin(r) PROVE SerialInv'
  <2>1. CASE row.status = "paused"
    BY <1>30, <2>1, BeginCall DEF ReapBegin
  <2>2. CASE row.status # "paused"
    BY <1>30, <2>2, SameCall DEF ReapBegin
  <2> QED
    BY <2>1, <2>2
<1>31. ASSUME NEW r \in Requests, ReapProvider(r) PROVE SerialInv'
  BY <1>31, GotoCall, ReturnCall DEF ReapProvider
<1>32. ASSUME NEW r \in Requests, ReapWrite(r) PROVE SerialInv'
  BY <1>32, GotoCall DEF ReapWrite
<1>33. ASSUME NEW r \in Requests, SweepBegin(r) PROVE SerialInv'
  BY <1>33, BeginCall DEF SweepBegin
<1>34. ASSUME NEW r \in Requests, SweepProvider(r) PROVE SerialInv'
  BY <1>34, GotoCall DEF SweepProvider
<1>35. ASSUME NEW r \in Requests, SweepClear(r) PROVE SerialInv'
  BY <1>35, GotoCall DEF SweepClear
<1>36. ASSUME NEW r \in Requests, SweepOrphans(r) PROVE SerialInv'
  BY <1>36, GotoCall, ReturnCall DEF SweepOrphans
<1>37. ASSUME NEW r \in Requests, SweepPurge(r) PROVE SerialInv'
  BY <1>37, ReturnCall DEF SweepPurge
<1>38. ASSUME NEW dup \in BOOLEAN, WebhookUp(dup) PROVE SerialInv'
  BY <1>38, SameCall DEF WebhookUp, UpFrom
<1>39. ASSUME NEW r \in Requests, NEW dup \in BOOLEAN, WebhookDown(r, dup) PROVE SerialInv'
  BY <1>39, SameCall, BeginCall DEF WebhookDown
<1>40. ASSUME NEW r \in Requests, NEW dup \in BOOLEAN, WebhookGone(r, dup) PROVE SerialInv'
  BY <1>40, SameCall, BeginCall DEF WebhookGone, GoneFrom
<1>41. ASSUME NEW dup \in BOOLEAN, WebhookFailed(dup) PROVE SerialInv'
  BY <1>41, SameCall DEF WebhookFailed, EventKinds
<1>42. ASSUME NEW r \in Requests, DropRoutesEarly(r) PROVE SerialInv'
  <2>1. /\ call = req[r] /\ call \in Calls
        /\ call'.op = call.op /\ call'.pc = call.pc
        /\ call'.held = call.held /\ call'.dropped
    BY <1>42, DropCall DEF DropRoutesEarly
  <2>2. row'.status = row.status /\ ~row'.routes
    BY <1>42 DEF DropRoutesEarly
  <2> QED
    BY <1>42, <2>1, <2>2 DEF DropRoutesEarly
<1>43. ASSUME NEW r \in Requests, SelectSession(r) PROVE SerialInv'
  <2>1. CASE OpenSessions = {} /\ CloseReturns(r)
    <3>1. NoneOpen
      BY <2>1 DEF OpenSessions
    <3>2. CASE req[r].dropped /\ Return(r)
      BY <1>43, <3>1, <3>2, ReturnCall DEF SelectSession
    <3>3. CASE ~req[r].dropped /\ Goto(r, AfterClose(req[r].op))
      BY <1>43, <3>1, <3>3, GotoCall DEF SelectSession, AfterClose
    <3> QED
      BY <2>1, <3>2, <3>3 DEF CloseReturns
  <2>2. ASSUME NEW s \in OpenSessions,
               req' = [req EXCEPT ![r].pc = "stop", ![r].held = s]
        PROVE  SerialInv'
    <3>1. /\ call = req[r] /\ call \in Calls
          /\ call'.op = call.op /\ call'.pc = "stop"
          /\ call'.held = s /\ call'.dropped = call.dropped
      BY <1>43, <2>2, HoldCall DEF SelectSession
    <3>2. s \in SessionIds /\ session[s] = "open"
      BY DEF OpenSessions
    <3> QED
      BY <1>43, <3>1, <3>2 DEF SelectSession
  <2> QED
    BY <1>43, <2>1, <2>2 DEF SelectSession
<1>44. ASSUME NEW r \in Requests, StopSession(r) PROVE SerialInv'
  BY <1>44, GotoCall DEF StopSession
<1>45. ASSUME NEW r \in Requests, BillSession(r) PROVE SerialInv'
  BY <1>45, GotoCall, ReturnCall DEF BillSession, CloseReturns, AfterClose
<1>46. ASSUME NEW r \in Requests, OpenSession(r) PROVE SerialInv'
  BY <1>46, ReturnCall DEF OpenSession
<1>47. ASSUME NEW r \in Requests, Crash(r) PROVE SerialInv'
  BY <1>47 DEF Crash
<1>48. CASE UNCHANGED vars
  BY <1>48, SameCall DEF vars
<1> QED
  BY <1>1, <1>2, <1>3, <1>4, <1>5, <1>6, <1>7, <1>8, <1>9, <1>10, <1>11,
     <1>12, <1>13, <1>14, <1>15, <1>16, <1>17, <1>18, <1>19, <1>20, <1>21,
     <1>22, <1>23, <1>24, <1>25, <1>26, <1>27, <1>28, <1>29, <1>30, <1>31,
     <1>32, <1>33, <1>34, <1>35, <1>36, <1>37, <1>38, <1>39, <1>40, <1>41,
     <1>42, <1>43, <1>44, <1>45, <1>46, <1>47, <1>48 DEF Next, Surroundings, Create, Pause, Resume,
     Reconcile, Delete, Reap, Sweep, Webhook, Metering

\* The invariant holds of every behaviour whose handlers do not overlap.
LEMMA SerialInvariance ==
  ASSUME ~CanCrash
  PROVE  Spec /\ []Serial => []SerialInv
<1>1. Init => SerialInv
  BY DEF Init, SerialInv, MeteredOK, BilledOK, RoutesOK, ShapeOK, NoneOpen,
         FindsNoneOpen, Openers, call, Quiet, NoCall, NoRow
<1>2. TypeOK /\ Serial /\ Serial' /\ SerialInv /\ [Next]_vars => SerialInv'
  BY SerialStep
<1> QED
  BY <1>1, <1>2, TypeCorrect, PTL DEF Spec

\* When handlers do not overlap, a workspace that is paused or terminated has
\* no open usage session, and each closed one was added to the daily usage
\* exactly once.
THEOREM SerialStopsSettle ==
  ASSUME ~CanCrash, Provider # "railway"
  PROVE  Spec /\ []Serial => []StoppedIsSettled
<1>1. SerialInv => StoppedIsSettled
  BY DEF SerialInv, MeteredOK, BilledOK, NoneOpen, ClosesLate, StoppedIsSettled,
         OpenSessions, call, NoCall
<1> QED
  BY <1>1, SerialInvariance, PTL

\* When handlers do not overlap, closing the one session that is selected
\* closes all that are open.
THEOREM SerialMetersOnce ==
  ASSUME ~CanCrash, Provider # "railway"
  PROVE  Spec /\ []Serial => []OneOpenSession
<1>1. SerialInv => OneOpenSession
  <2> SUFFICES ASSUME SerialInv PROVE Cardinality(OpenSessions) <= 1
    BY DEF OneOpenSession
  <2>1. CASE OpenSessions = {}
    BY <2>1, FS_EmptySet
  <2>2. CASE OpenSessions # {}
    <3>1. PICK s : s \in OpenSessions
      BY <2>2
    <3>2. \A t \in OpenSessions : t = s
      BY <3>1 DEF SerialInv, MeteredOK, OpenSessions
    <3>3. OpenSessions = {s}
      BY <3>1, <3>2
    <3>4. Cardinality({s}) = 1
      BY FS_Singleton
    <3> QED
      BY <3>3, <3>4
  <2> QED
    BY <2>1, <2>2
<1> QED
  BY <1>1, SerialInvariance, PTL

\* When handlers do not overlap, the upstream credentials of a terminated
\* workspace are gone once its last handler has returned.
THEOREM SerialDropsRoutes ==
  ASSUME ~CanCrash
  PROVE  Spec /\ []Serial => []TerminatedHasNoRoutes
<1>1. SerialInv => TerminatedHasNoRoutes
  BY DEF SerialInv, RoutesOK, DropsRoutes, TerminatedHasNoRoutes, call, NoCall
<1> QED
  BY <1>1, SerialInvariance, PTL
=============================================================================
