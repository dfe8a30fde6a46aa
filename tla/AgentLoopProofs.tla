--------------------------- MODULE AgentLoopProofs ---------------------------
(***************************************************************************)
(* Proofs about AgentLoop, for any number of runs and handlers, any quota, *)
(* and handlers that overlap and die anywhere.                             *)
(*                                                                         *)
(* StartedRunsArePaid is not inductive: a refund takes a payment away, and *)
(* nothing in the row of a run tells whether it takes the last one.  The   *)
(* invariant counts, for every run, the handlers that have charged for it  *)
(* and not launched it yet; each of them may still give its charge back.   *)
(* What is paid covers them all and, if the run was launched, or can be    *)
(* launched by a restart that pays nothing, one charge more.               *)
(***************************************************************************)
EXTENDS AgentLoop, FiniteSetTheorems, TLAPS

-----------------------------------------------------------------------------
(* The inductive invariant.                                                *)

CreationPoints == {"deduct", "charge", "undo", "halt", "credential", "launch",
                   "refund", "credit", "fail"}

\* The handler that inserted r is not through with it.
Creates(q, r) ==
  req[q].run = r /\ req[q].op \in {"start", "callback"} /\ req[q].pc \in CreationPoints

\* The handler has charged for r, and has neither launched nor refunded it.
Pays(q, r) ==
  /\ req[q].run = r /\ req[q].op \in {"start", "callback", "rerun"}
  /\ req[q].pc \in {"credential", "launch", "refund", "credit"}

\* The handler is about to launch r without a charge.
Restarts(q, r) ==
  req[q].run = r /\ req[q].op = "restart" /\ req[q].pc \in {"credential", "launch"}

Payers(r) == {q \in Requests : Pays(q, r)}

\* Somebody else than a payer has launched r or can do so.
Owed(r) ==
  /\ r \notin cut
  /\ \/ r \in launched
     \/ \E q \in Requests : Restarts(q, r)
     \/ run[r].status = "pending" /\ \A q \in Requests : ~Creates(q, r)

Covered(r) == paid[r] >= Cardinality(Payers(r)) + IF Owed(r) THEN 1 ELSE 0

RunOK(r) ==
  /\ run[r].status = "absent" => r \notin launched \cup cut
  /\ run[r].status = "running" => r \in launched

\* What a handler relies on wherever it is.
CallOK(q) ==
  LET c == req[q]
  IN  /\ c.run \in Runs <=> c.pc \notin {"idle", "insert", "reset", "retire", "set"}
      /\ c.run \in Runs => run[c.run].status # "absent"
      /\ c.pc \in {"mark", "again"} => c.run \in launched
      /\ c.pc \in {"deduct", "charge", "refund", "credit"}
           => c.op \in {"start", "callback", "rerun"}
      /\ c.pc \in {"credential", "launch"} => c.op # "other"
      /\ c.pc \in {"undo", "fail"} => c.op = "start"
      /\ c.pc = "insert" => c.op \in {"start", "callback"}
      /\ c.pc \in {"halt", "finish"} => c.op = "callback"
      /\ c.pc = "charge" => Balance(c.held) >= 1
      /\ c.pc = "set" => c.goal \in {"active", "paused"}

\* A run in creation is nobody else's, but for somebody who is cancelling it.
CreationOK(q, r) ==
  Creates(q, r) =>
    /\ r \notin launched \cup cut
    /\ ~run[r].stale
    /\ run[r].status \in {"pending", "over", "deleted"}
    /\ req[q].pc \in {"refund", "credit", "fail"} => run[r].status # "pending"
    /\ \A p \in Requests \ {q} : req[p].run = r => req[p].pc = "cancel"

IInv ==
  /\ TypeOK
  /\ \A r \in Runs : RunOK(r) /\ Covered(r)
  /\ \A q \in Requests : CallOK(q) /\ \A r \in Runs : CreationOK(q, r)

-----------------------------------------------------------------------------
(* What the helpers do to the handlers and to the rows.                    *)

\* A handler that moves.
LEMMA Went ==
  ASSUME TypeOK, NEW q \in Requests, NEW pc \in Points \ {"idle"}, Goto(q, pc)
  PROVE  /\ \A p \in Requests \ {q} : req'[p] = req[p]
         /\ req'[q].pc = pc /\ req'[q].run = req[q].run /\ req'[q].op = req[q].op
         /\ req'[q].num = req[q].num
         /\ req' \in [Requests -> Calls]
  <1>1. req[q] \in Calls /\ NoQuota \in Quotas
    BY DEF TypeOK, NoQuota, Quotas
  <1>2. req' = [req EXCEPT ![q] = [req[q] EXCEPT !.pc = pc, !.held = NoQuota]]
    BY DEF Goto, TypeOK
  <1> QED
    BY <1>1, <1>2 DEF TypeOK, Calls

\* One that moves with what it has read of the quota.
LEMMA Holds ==
  ASSUME TypeOK, NEW q \in Requests, NEW pc \in Points \ {"idle"}, Hold(q, pc)
  PROVE  /\ \A p \in Requests \ {q} : req'[p] = req[p]
         /\ req'[q].pc = pc /\ req'[q].run = req[q].run /\ req'[q].op = req[q].op
         /\ req'[q].held = quota
         /\ req' \in [Requests -> Calls]
  <1>1. req[q] \in Calls /\ quota \in Quotas
    BY DEF TypeOK
  <1>2. req' = [req EXCEPT ![q] = [req[q] EXCEPT !.pc = pc, !.held = quota]]
    BY DEF Hold, TypeOK
  <1> QED
    BY <1>1, <1>2 DEF TypeOK, Calls

\* The record of no handler.
LEMMA NoCallType ==
  /\ NoCall \in Calls
  /\ NoCall.pc = "idle" /\ NoCall.run = NoRun /\ NoCall.op = "other"
  BY BoundsAssumption DEF NoCall, Calls, NoQuota, Quotas, Ops, Points, Goals

\* One that returns.
LEMMA Returned ==
  ASSUME TypeOK, NEW q \in Requests, Return(q)
  PROVE  /\ \A p \in Requests \ {q} : req'[p] = req[p]
         /\ req'[q] = NoCall
         /\ req' \in [Requests -> Calls]
  BY NoCallType DEF TypeOK, Return

\* One that begins.
LEMMA Begun ==
  ASSUME TypeOK, NEW q \in Requests, NEW call \in Calls, Begin(q, call)
  PROVE  /\ req[q] = NoCall
         /\ \A p \in Requests \ {q} : req'[p] = req[p]
         /\ req'[q] = call
         /\ req' \in [Requests -> Calls]
  BY DEF TypeOK, Begin

\* The writes to the row of one run: a row that is gone stays as it is.
LEMMA RowWritten ==
  ASSUME TypeOK, NEW r \in Runs, NEW status \in RunStatuses \ {"absent"},
         \/ SetRun(r, status)
         \/ StartedRun(r) /\ status = "running"
         \/ DeleteRun(r) /\ status = "deleted"
  PROVE  /\ run' \in [Runs -> RunRows]
         /\ \A s \in Runs \ {r} : run'[s] = run[s]
         /\ Exists(r) => run'[r].status = status /\ ~run'[r].stale
         /\ ~Exists(r) => run'[r] = run[r]
  <1>1. run[r] \in RunRows /\ NoRow \in RunRows
    BY BoundsAssumption DEF TypeOK, NoRow, RunRows, RunStatuses, ActiveStatuses
  <1>2. CASE ~Exists(r)
    BY <1>2 DEF SetRun, StartedRun, DeleteRun, TypeOK
  <1>3. CASE Exists(r)
    <2>1. PICK row \in RunRows : row.status = status /\ ~row.stale /\ run' = [run EXCEPT ![r] = row]
      <3>1. CASE SetRun(r, status) \/ (StartedRun(r) /\ status = "running")
        <4> DEFINE row == [run[r] EXCEPT !.status = status, !.stale = FALSE]
        <4>1. row \in RunRows /\ row.status = status /\ ~row.stale
          BY <1>1 DEF RunRows
        <4>2. run' = [run EXCEPT ![r] = row]
          BY <1>3, <3>1 DEF SetRun, StartedRun
        <4> HIDE DEF row
        <4> QED
          BY <4>1, <4>2
      <3>2. CASE DeleteRun(r) /\ status = "deleted"
        <4> DEFINE row == [NoRow EXCEPT !.status = "deleted"]
        <4>1. row \in RunRows /\ row.status = status /\ ~row.stale
          BY <1>1, <3>2 DEF NoRow, RunRows
        <4>2. run' = [run EXCEPT ![r] = row]
          BY <1>3, <3>2 DEF DeleteRun
        <4> HIDE DEF row
        <4> QED
          BY <4>1, <4>2
      <3> QED
        BY <3>1, <3>2
    <2> QED
      BY <1>3, <2>1 DEF TypeOK
  <1> QED
    BY <1>2, <1>3

\* A status written to the loop.
LEMMA LoopWritten ==
  ASSUME TypeOK, NEW status \in {"active", "paused", "completed", "archived"},
         SetLoop(status)
  PROVE  loop' \in LoopRows
  BY DEF TypeOK, SetLoop, LoopRows

-----------------------------------------------------------------------------
(* The count of the payers.                                                *)

\* The charge of q for r, in the count of what r must cover.
Share(q, r) == IF Pays(q, r) THEN 1 ELSE 0

\* The payers of a run are finitely many.
LEMMA PayersFinite ==
  ASSUME NEW r
  PROVE  IsFiniteSet(Payers(r)) /\ Cardinality(Payers(r)) \in Nat
  <1>1. Payers(r) \subseteq Requests
    BY DEF Payers
  <1> QED
    BY <1>1, RequestsAssumption, FS_Subset, FS_CardinalityType

\* One handler that moves changes their number by its own share.
LEMMA PayersCount ==
  ASSUME NEW q \in Requests, NEW r \in Runs,
         \A p \in Requests \ {q} : req'[p] = req[p]
  PROVE  /\ Cardinality(Payers(r)') = Cardinality(Payers(r)) - Share(q, r) + Share(q, r)'
         /\ Cardinality(Payers(r)) \in Nat /\ Cardinality(Payers(r)') \in Nat
  <1>1. IsFiniteSet(Payers(r)) /\ Cardinality(Payers(r)) \in Nat
    BY PayersFinite
  <1>2. \A p \in Requests \ {q} : Pays(p, r)' <=> Pays(p, r)
    BY DEF Pays
  <1>3. CASE Pays(q, r)' <=> Pays(q, r)
    <2>1. Payers(r)' = Payers(r)
      BY <1>2, <1>3 DEF Payers
    <2> QED
      BY <1>1, <1>3, <2>1 DEF Share
  <1>4. CASE Pays(q, r)' /\ ~Pays(q, r)
    <2>1. Payers(r)' = Payers(r) \cup {q} /\ q \notin Payers(r)
      BY <1>2, <1>4 DEF Payers
    <2>2. Cardinality(Payers(r)') = Cardinality(Payers(r)) + 1
      BY <1>1, <2>1, FS_AddElement
    <2> QED
      BY <1>1, <1>4, <2>2 DEF Share
  <1>5. CASE ~Pays(q, r)' /\ Pays(q, r)
    <2>1. Payers(r)' = Payers(r) \ {q} /\ q \in Payers(r)
      BY <1>2, <1>5 DEF Payers
    <2>2. Cardinality(Payers(r)') = Cardinality(Payers(r)) - 1
      BY <1>1, <2>1, FS_RemoveElement
    <2>3. Cardinality(Payers(r)) # 0
      BY <1>1, <2>1, FS_EmptySet
    <2> QED
      BY <1>1, <1>5, <2>2, <2>3 DEF Share
  <1> QED
    BY <1>3, <1>4, <1>5

\* A run stays covered if what is paid beyond the mover's share does not shrink,
\* and grows when the run becomes owed.
LEMMA StaysCovered ==
  ASSUME NEW q \in Requests, NEW r \in Runs,
         \A p \in Requests \ {q} : req'[p] = req[p],
         paid[r] \in Int, paid'[r] \in Int, Covered(r),
         paid'[r] - Share(q, r)' >= paid[r] - Share(q, r),
         Owed(r)' => \/ Owed(r)
                     \/ paid'[r] - Share(q, r)' >= paid[r] - Share(q, r) + 1
  PROVE  Covered(r)'
  <1>1. /\ Cardinality(Payers(r)') = Cardinality(Payers(r)) - Share(q, r) + Share(q, r)'
        /\ Cardinality(Payers(r)) \in Nat /\ Cardinality(Payers(r)') \in Nat
    BY PayersCount
  <1>2. Share(q, r) \in Int /\ Share(q, r)' \in Int
    BY DEF Share
  <1> QED
    BY <1>1, <1>2 DEF Covered

-----------------------------------------------------------------------------
(* One step of the invariant, for the handlers in general.                 *)

\* The facts of a handler that does not move.
LEMMA CallKept ==
  ASSUME NEW p \in Requests, CallOK(p), req'[p] = req[p],
         launched \subseteq launched',
         \A r \in Runs : run[r].status # "absent" => run'[r].status # "absent"
  PROVE  CallOK(p)'
  BY DEF CallOK

\* A step of a handler, or of nobody, that charges, refunds and launches
\* nothing, in which rows may be closed, and the handler may begin a call or return.
LEMMA QuietStep ==
  ASSUME IInv, TypeOK', UNCHANGED <<paid, launched, cut>>,
         NEW S \in SUBSET Requests, S = {} \/ \E q \in Requests : S = {q},
         \A p \in Requests \ S : req'[p] = req[p],
         \A r \in Runs :
           \/ run'[r] = run[r]
           \/ /\ run[r].status # "absent"
              /\ run'[r].status \in {"over", "deleted"} /\ ~run'[r].stale,
         \A q \in S :
           /\ req[q].run \notin Runs /\ CallOK(q)'
           /\ \A r \in Runs :
                /\ ~Creates(q, r)' /\ ~Pays(q, r)'
                /\ Restarts(q, r)' => Owed(r) \/ r \in cut
                /\ req'[q].run = r =>
                     req'[q].pc = "cancel" \/ \A p \in Requests : ~Creates(p, r)
  PROVE  IInv'
  <1>1. ASSUME NEW q \in S, NEW r \in Runs
        PROVE  ~Creates(q, r) /\ ~Pays(q, r) /\ ~Restarts(q, r)
    BY <1>1 DEF Creates, Pays, Restarts
  <1>2. ASSUME NEW p \in Requests
        PROVE  CallOK(p)'
    <2>1. CASE p \in S
      BY <2>1
    <2>2. CASE p \notin S
      BY <2>2, CallKept DEF IInv
    <2> QED
      BY <2>1, <2>2
  <1>3. ASSUME NEW p \in Requests, NEW r \in Runs
        PROVE  CreationOK(p, r)'
    <2> SUFFICES ASSUME Creates(p, r)'
                 PROVE  CreationOK(p, r)'
      BY DEF CreationOK
    <2>1. p \notin S /\ req'[p] = req[p] /\ Creates(p, r)
      BY DEF Creates
    <2>2. CreationOK(p, r)
      BY DEF IInv
    <2>3. \A q \in Requests \ {p} : req'[q].run = r => req'[q].pc = "cancel"
      BY <2>1, <2>2 DEF CreationOK
    <2>4. /\ ~run'[r].stale /\ run'[r].status \in {"pending", "over", "deleted"}
          /\ run'[r].status = "pending" => run[r].status = "pending"
      BY <2>1, <2>2 DEF CreationOK
    <2> QED
      BY <2>1, <2>2, <2>3, <2>4 DEF CreationOK
  <1>4. ASSUME NEW r \in Runs
        PROVE  RunOK(r)' /\ Covered(r)'
    <2>1. RunOK(r)'
      BY DEF IInv, RunOK
    <2>2. Owed(r)' => Owed(r)
      <3>1. \A p \in Requests : Creates(p, r) => Creates(p, r)'
        BY <1>1 DEF Creates
      <3>2. \A p \in Requests : Restarts(p, r)' => Restarts(p, r) \/ Owed(r) \/ r \in cut
        BY DEF Restarts
      <3>3. run'[r].status = "pending" => run[r].status = "pending"
        OBVIOUS
      <3> QED
        BY <3>1, <3>2, <3>3 DEF Owed
    <2>3. Payers(r)' = Payers(r)
      BY <1>1 DEF Payers, Pays
    <2>4. Cardinality(Payers(r)) \in Nat /\ paid[r] \in Int /\ Covered(r)
      BY PayersFinite DEF IInv, TypeOK
    <2>5. Covered(r)'
      BY <2>2, <2>3, <2>4 DEF Covered
    <2> QED
      BY <2>1, <2>5
  <1> QED
    BY <1>2, <1>3, <1>4 DEF IInv

\* The same for the one handler that moves.
LEMMA QuietHandler ==
  ASSUME IInv, TypeOK', UNCHANGED <<paid, launched, cut>>,
         NEW q \in Requests, \A p \in Requests \ {q} : req'[p] = req[p],
         \A r \in Runs :
           \/ run'[r] = run[r]
           \/ /\ run[r].status # "absent"
              /\ run'[r].status \in {"over", "deleted"} /\ ~run'[r].stale,
         req[q].run \notin Runs, CallOK(q)',
         \A r \in Runs :
           /\ ~Creates(q, r)' /\ ~Pays(q, r)'
           /\ Restarts(q, r)' => Owed(r) \/ r \in cut
           /\ req'[q].run = r =>
                req'[q].pc = "cancel" \/ \A p \in Requests : ~Creates(p, r)
  PROVE  IInv'
  <1> DEFINE S == {q}
  <1>1. S \in SUBSET Requests /\ \E p \in Requests : S = {p}
    OBVIOUS
  <1>2. \A p \in Requests \ S : req'[p] = req[p]
    OBVIOUS
  <1>3. \A p \in S :
          /\ req[p].run \notin Runs /\ CallOK(p)'
          /\ \A r \in Runs :
               /\ ~Creates(p, r)' /\ ~Pays(p, r)'
               /\ Restarts(p, r)' => Owed(r) \/ r \in cut
               /\ req'[p].run = r =>
                    req'[p].pc = "cancel" \/ \A x \in Requests : ~Creates(x, r)
    OBVIOUS
  <1> HIDE DEF S
  <1> QED
    BY <1>1, <1>2, <1>3, QuietStep

\* A step of a handler that works on a run, on the row and the payments of that
\* run: what has to be known of the run itself.
LEMMA OwnStep ==
  ASSUME IInv, TypeOK', NEW q \in Requests, NEW r \in Runs, req[q].run = r,
         \A p \in Requests \ {q} : req'[p] = req[p],
         req'[q].run \in {r, NoRun},
         \A s \in Runs \ {r} :
           /\ run'[s] = run[s] /\ paid'[s] = paid[s]
           /\ s \in launched' <=> s \in launched
           /\ s \in cut' <=> s \in cut,
         launched \subseteq launched',
         CallOK(q)', CreationOK(q, r)',
         run[r].status # "absent" => run'[r].status # "absent",
         run'[r].status = "running" => r \in launched',
         \/ req[q].pc # "cancel"
         \/ /\ req'[q].run # r /\ UNCHANGED <<launched, cut>>
            /\ \/ run'[r] = run[r]
               \/ run'[r].status \in {"over", "deleted"} /\ ~run'[r].stale,
         paid'[r] - Share(q, r)' >= paid[r] - Share(q, r),
         Owed(r)' => \/ Owed(r)
                     \/ paid'[r] - Share(q, r)' >= paid[r] - Share(q, r) + 1
  PROVE  IInv'
  <1>1. \A p \in Requests : req[p].run \in Runs => run[req[p].run].status # "absent"
    BY DEF IInv, CallOK
  <1>2. run[r].status # "absent" /\ run'[r].status # "absent"
    BY <1>1
  <1>3. ASSUME NEW p \in Requests
        PROVE  CallOK(p)'
    <2>1. CASE p = q
      BY <2>1
    <2>2. CASE p # q
      BY <1>2, <2>2, CallKept DEF IInv
    <2> QED
      BY <2>1, <2>2
  <1>4. ASSUME NEW p \in Requests, NEW s \in Runs
        PROVE  CreationOK(p, s)'
    <2>1. CASE p = q
      <3>1. s # r => ~Creates(p, s)'
        BY <2>1, RunsAssumption DEF Creates
      <3> QED
        BY <2>1, <3>1 DEF CreationOK
    <2>2. CASE p # q
      <3> SUFFICES ASSUME Creates(p, s)'
                   PROVE  CreationOK(p, s)'
        BY DEF CreationOK
      <3>1. req'[p] = req[p] /\ Creates(p, s) /\ CreationOK(p, s)
        BY <2>2 DEF Creates, IInv
      <3>2. CASE s # r
        BY <2>2, <3>1, <3>2, RunsAssumption DEF CreationOK
      <3>3. CASE s = r
        <4>1. req[q].pc = "cancel"
          BY <2>2, <3>1, <3>3 DEF CreationOK
        <4> QED
          BY <2>2, <3>1, <3>3, <4>1 DEF CreationOK
      <3> QED
        BY <3>2, <3>3
    <2> QED
      BY <2>1, <2>2
  <1>5. ASSUME NEW s \in Runs
        PROVE  RunOK(s)' /\ Covered(s)'
    <2>1. CASE s = r
      <3>1. paid[r] \in Int /\ paid'[r] \in Int /\ Covered(r) /\ RunOK(r)
        BY DEF IInv, TypeOK
      <3>2. Covered(r)'
        BY <3>1, StaysCovered
      <3> QED
        BY <1>2, <2>1, <3>2 DEF RunOK
    <2>2. CASE s # r
      <3>1. paid[s] \in Int /\ paid'[s] = paid[s] /\ Covered(s) /\ RunOK(s) /\ run'[s] = run[s]
        BY <2>2 DEF IInv, TypeOK
      <3>2. /\ ~Pays(q, s) /\ ~Pays(q, s)' /\ ~Creates(q, s)
            /\ ~Restarts(q, s)'
        BY <2>2, RunsAssumption DEF Pays, Creates, Restarts
      <3>3. Share(q, s) = 0 /\ Share(q, s)' = 0
        BY <3>2 DEF Share
      <3>4. Owed(s)' => Owed(s)
        <4>1. \A p \in Requests : Creates(p, s) => Creates(p, s)'
          BY <3>2 DEF Creates
        <4>2. \A p \in Requests : Restarts(p, s)' => Restarts(p, s)
          BY <3>2 DEF Restarts
        <4>3. s \in launched' <=> s \in launched
          BY <2>2
        <4>4. s \in cut' <=> s \in cut
          BY <2>2
        <4> QED
          BY <3>1, <4>1, <4>2, <4>3, <4>4 DEF Owed
      <3>5. Covered(s)'
        BY <3>1, <3>3, <3>4, StaysCovered
      <3> QED
        BY <2>2, <3>1, <3>5 DEF RunOK
    <2> QED
      BY <2>1, <2>2
  <1> QED
    BY <1>3, <1>4, <1>5 DEF IInv

\* A handler that has returned relies on nothing and owes nothing.
LEMMA Done ==
  ASSUME NEW q \in Requests, req'[q] = NoCall
  PROVE  /\ CallOK(q)'
         /\ \A r \in Runs : /\ ~Creates(q, r)' /\ ~Pays(q, r)' /\ ~Restarts(q, r)'
                            /\ CreationOK(q, r)' /\ req'[q].run # r
  BY NoCallType, RunsAssumption DEF CallOK, CreationOK, Creates, Pays, Restarts

-----------------------------------------------------------------------------
(* The steps that charge, refund and launch nothing.                       *)

\* startRun and the other handlers of the loop, as they begin.
LEMMA LoopBeginKeeps ==
  ASSUME IInv, NEW q \in Requests,
         \/ StartBegin(q) \/ QuotaRead(q) \/ ArchiveRuns(q)
         \/ \E goal \in {"active", "paused"} : StatusBegin(q, goal),
         UNCHANGED cut
  PROVE  IInv'
  <1>0. PICK call \in Calls :
          /\ Begin(q, call) /\ call.run = NoRun
          /\ call.pc \in {"insert", "reset", "retire", "set"}
          /\ call.pc = "insert" => call.op = "start"
          /\ call.pc = "set" => call.goal \in {"active", "paused"}
    <2>1. CASE StartBegin(q)
      <3> DEFINE call == [NoCall EXCEPT !.op = "start", !.pc = "insert", !.num = loop.total + 1]
      <3>1. loop.total + 1 \in 0..MaxRuns
        BY <2>1, BoundsAssumption DEF StartBegin, IInv, TypeOK, LoopRows
      <3>2. call \in Calls /\ call.run = NoRun /\ call.pc = "insert" /\ call.op = "start"
        BY <3>1, NoCallType DEF Calls, Ops, Points
      <3>3. Begin(q, call)
        BY <2>1 DEF StartBegin
      <3> HIDE DEF call
      <3> QED
        BY <3>2, <3>3
    <2>2. ASSUME NEW pc \in {"reset", "retire"}, Begin(q, [NoCall EXCEPT !.pc = pc])
          PROVE  \E call \in Calls :
                   /\ Begin(q, call) /\ call.run = NoRun
                   /\ call.pc \in {"insert", "reset", "retire", "set"}
                   /\ call.pc = "insert" => call.op = "start"
                   /\ call.pc = "set" => call.goal \in {"active", "paused"}
      <3> DEFINE call == [NoCall EXCEPT !.pc = pc]
      <3>1. call \in Calls /\ call.run = NoRun /\ call.pc = pc
        BY NoCallType DEF Calls, Points
      <3> HIDE DEF call
      <3> QED
        BY <2>2, <3>1 DEF call
    <2>3. ASSUME NEW goal \in {"active", "paused"}, StatusBegin(q, goal)
          PROVE  \E call \in Calls :
                   /\ Begin(q, call) /\ call.run = NoRun
                   /\ call.pc \in {"insert", "reset", "retire", "set"}
                   /\ call.pc = "insert" => call.op = "start"
                   /\ call.pc = "set" => call.goal \in {"active", "paused"}
      <3> DEFINE call == [NoCall EXCEPT !.pc = "set", !.goal = goal]
      <3>1. call \in Calls /\ call.run = NoRun /\ call.pc = "set" /\ call.goal = goal
        BY NoCallType DEF Calls, Points, Goals
      <3>2. Begin(q, call)
        BY <2>3 DEF StatusBegin
      <3> HIDE DEF call
      <3> QED
        BY <3>1, <3>2
    <2> QED
      BY <2>1, <2>2, <2>3 DEF QuotaRead, ArchiveRuns
  <1>1. /\ req[q] = NoCall /\ req'[q] = call
        /\ \A p \in Requests \ {q} : req'[p] = req[p]
        /\ req' \in [Requests -> Calls]
    BY <1>0, Begun DEF IInv
  <1>2. UNCHANGED <<loop, quota, due, ledger, paid, launched, cut>>
    BY DEF StartBegin, QuotaRead, ArchiveRuns, StatusBegin, KeepQuota
  <1>3. /\ run' \in [Runs -> RunRows]
        /\ \A r \in Runs :
             \/ run'[r] = run[r]
             \/ /\ run[r].status # "absent"
                /\ run'[r].status \in {"over", "deleted"} /\ ~run'[r].stale
    <2>1. CASE ArchiveRuns(q)
      <3> DEFINE f(r) == IF run[r].status = "pending"
                         THEN [run[r] EXCEPT !.status = "over", !.stale = FALSE] ELSE run[r]
      <3>1. run' = [r \in Runs |-> f(r)]
        BY <2>1 DEF ArchiveRuns
      <3>2. ASSUME NEW r \in Runs
            PROVE  /\ f(r) \in RunRows
                   /\ \/ f(r) = run[r]
                      \/ run[r].status # "absent" /\ f(r).status = "over" /\ ~f(r).stale
        <4>1. run[r] \in RunRows
          BY DEF IInv, TypeOK
        <4> QED
          BY <4>1 DEF RunRows, RunStatuses
      <3> HIDE DEF f
      <3> QED
        BY <3>1, <3>2
    <2>2. CASE ~ArchiveRuns(q)
      BY <2>2 DEF StartBegin, QuotaRead, StatusBegin, IInv, TypeOK
    <2> QED
      BY <2>1, <2>2
  <1>4. TypeOK'
    BY <1>1, <1>2, <1>3 DEF IInv, TypeOK
  <1>5. /\ CallOK(q)'
        /\ \A r \in Runs : /\ ~Creates(q, r)' /\ ~Pays(q, r)' /\ ~Restarts(q, r)'
                           /\ req'[q].run # r
    BY <1>0, <1>1, RunsAssumption DEF CallOK, Creates, Pays, Restarts
  <1>6. req[q].run \notin Runs
    BY <1>1, NoCallType, RunsAssumption
  <1> QED
    BY <1>1, <1>2, <1>3, <1>4, <1>5, <1>6, QuietHandler

\* A run that is stalled, halted or launched has no handler that creates it.
LEMMA NotInCreation ==
  ASSUME IInv, NEW r \in Runs,
         run[r].stale \/ run[r].status = "halted" \/ r \in launched
  PROVE  \A p \in Requests : ~Creates(p, r)
  BY DEF IInv, CreationOK

\* restartRun, the callback and cancelRun, as they begin.
LEMMA RunBeginKeeps ==
  ASSUME IInv, NEW q \in Requests, NEW r \in Runs,
         RestartBegin(q, r) \/ CallbackBegin(q, r) \/ CancelBegin(q, r),
         UNCHANGED cut
  PROVE  IInv'
  <1>r. run[r] \in RunRows
    BY DEF IInv, TypeOK
  <1>0. PICK call \in Calls :
          /\ Begin(q, call) /\ call.run = r
          /\ \/ /\ call.pc = "credential" /\ call.op = "restart"
                /\ Active(r) /\ run[r].stale
             \/ call.pc = "deduct" /\ call.op = "rerun" /\ run[r].status = "halted"
             \/ /\ call.pc = "finish" /\ call.op = "callback"
                /\ r \in launched /\ run[r].status # "absent"
             \/ call.pc = "cancel" /\ run[r].status # "absent"
    <2>1. CASE RestartBegin(q, r)
      <3>1. PICK op \in {"restart", "rerun"} :
              /\ op = "restart" => Active(r) /\ run[r].stale
              /\ op = "rerun" => run[r].status = "halted"
              /\ Begin(q, [NoCall EXCEPT !.op = op, !.pc = RestartPoint(op), !.run = r])
        BY <2>1 DEF RestartBegin
      <3> DEFINE call == [NoCall EXCEPT !.op = op, !.pc = RestartPoint(op), !.run = r]
      <3>2. call \in Calls /\ call.run = r /\ call.op = op /\ call.pc = RestartPoint(op)
        BY NoCallType DEF Calls, Ops, Points, RestartPoint
      <3>3. Begin(q, call)
        BY <3>1
      <3> HIDE DEF call
      <3> QED
        BY <3>1, <3>2, <3>3 DEF RestartPoint
    <2>2. CASE CallbackBegin(q, r)
      <3>1. PICK g \in {"end", "close", "next"} :
              /\ g = "next" => run[r].number < MaxRuns
              /\ Begin(q, [NoCall EXCEPT !.op = "callback", !.pc = "finish", !.run = r,
                                         !.goal = g,
                                         !.num = IF g = "next" THEN run[r].number + 1 ELSE 0])
        <4>1. run[r].number \in Nat /\ MaxRuns \in Nat
          BY <1>r, BoundsAssumption DEF RunRows
        <4>2. CASE run[r].number >= MaxRuns
          BY <2>2, <4>2 DEF CallbackBegin
        <4>3. CASE run[r].number < MaxRuns
          BY <2>2, <4>1, <4>3 DEF CallbackBegin
        <4> QED
          BY <4>1, <4>2, <4>3
      <3> DEFINE n == IF g = "next" THEN run[r].number + 1 ELSE 0
                 call == [NoCall EXCEPT !.op = "callback", !.pc = "finish", !.run = r,
                                        !.goal = g, !.num = n]
      <3>2. n \in 0..MaxRuns
        BY <1>r, <3>1, BoundsAssumption DEF RunRows
      <3>3. call \in Calls /\ call.run = r /\ call.pc = "finish" /\ call.op = "callback"
        <4> HIDE DEF n
        <4> QED
          BY <3>2, NoCallType DEF Calls, Ops, Points, Goals
      <3>4. Begin(q, call) /\ r \in launched /\ run[r].status # "absent"
        BY <2>2, <3>1 DEF CallbackBegin, Active, ActiveStatuses
      <3> HIDE DEF call
      <3> QED
        BY <3>3, <3>4
    <2>3. CASE CancelBegin(q, r)
      <3> DEFINE call == [NoCall EXCEPT !.pc = "cancel", !.run = r]
      <3>1. call \in Calls /\ call.run = r /\ call.pc = "cancel"
        BY NoCallType DEF Calls, Points
      <3>2. Begin(q, call) /\ run[r].status # "absent"
        BY <2>3 DEF CancelBegin, Active, ActiveStatuses
      <3> HIDE DEF call
      <3> QED
        BY <3>1, <3>2
    <2> QED
      BY <2>1, <2>2, <2>3
  <1>1. /\ req[q] = NoCall /\ req'[q] = call
        /\ \A p \in Requests \ {q} : req'[p] = req[p]
        /\ req' \in [Requests -> Calls]
    BY <1>0, Begun DEF IInv
  <1>2. UNCHANGED <<loop, run, quota, due, ledger, paid, launched, cut>>
    BY DEF RestartBegin, CallbackBegin, CancelBegin, KeepQuota
  <1>3. TypeOK'
    BY <1>1, <1>2 DEF IInv, TypeOK
  <1>4. CallOK(q)'
    BY <1>0, <1>1, <1>2 DEF CallOK, Active, ActiveStatuses
  <1>5. \A s \in Runs : ~Creates(q, s)' /\ ~Pays(q, s)'
    BY <1>0, <1>1, NoCallType DEF Creates, Pays, CreationPoints
  <1>6. ASSUME NEW s \in Runs, Restarts(q, s)'
        PROVE  Owed(s) \/ s \in cut
    <2>1. s = r /\ Active(r) /\ run[r].stale
      BY <1>0, <1>1, <1>6 DEF Restarts
    <2>2. \A p \in Requests : ~Creates(p, r)
      BY <2>1, NotInCreation
    <2>3. run[r].status = "running" => r \in launched
      BY DEF IInv, RunOK
    <2> QED
      BY <2>1, <2>2, <2>3 DEF Owed, Active, ActiveStatuses
  <1>7. ASSUME NEW s \in Runs, req'[q].run = s
        PROVE  req'[q].pc = "cancel" \/ \A p \in Requests : ~Creates(p, s)
    BY <1>0, <1>1, <1>7, NotInCreation
  <1>8. req[q].run \notin Runs
    BY <1>1, NoCallType, RunsAssumption
  <1> QED
    BY <1>1, <1>2, <1>3, <1>4, <1>5, <1>6, <1>7, <1>8, QuietHandler

\* A handler that works on no run, and returns.
LEMMA LoopEndKeeps ==
  ASSUME IInv, NEW q \in Requests,
         \/ UNCHANGED cut /\ (QuotaReset(q) \/ ArchiveLoop(q) \/ StatusWrite(q))
         \/ UNCHANGED cut /\ InsertRun(q) /\ Return(q) /\ run' = run
         \/ Crash(q) /\ req[q].run \notin Runs
  PROVE  IInv'
  <1>1. Return(q)
    BY DEF QuotaReset, ArchiveLoop, StatusWrite, Crash
  <1>2. /\ req'[q] = NoCall
        /\ \A p \in Requests \ {q} : req'[p] = req[p]
        /\ req' \in [Requests -> Calls]
    BY <1>1, Returned DEF IInv
  <1>3. CallOK(q) /\ req[q] \in Calls
    BY DEF IInv, TypeOK
  <1>4. req[q].run \notin Runs
    BY <1>3 DEF CallOK, QuotaReset, ArchiveLoop, StatusWrite, InsertRun, At
  <1>5. UNCHANGED <<run, paid, launched, cut>>
    BY <1>3 DEF CallOK, QuotaReset, ArchiveLoop, StatusWrite, InsertRun, Crash, KeepQuota
  <1>6. TypeOK'
    <2>1. CASE QuotaReset(q)
      <3>1. quota' \in Quotas /\ ledger' \in Int /\ due' \in BOOLEAN
        <4>1. quota \in Quotas /\ ledger \in Int
          BY DEF IInv, TypeOK
        <4>2. quota' = [quota EXCEPT !.monthly = MonthlyRuns]
          BY <2>1 DEF QuotaReset
        <4>3. MonthlyRuns - quota.monthly \in Int
          BY <4>1, BoundsAssumption DEF Quotas
        <4>4. quota' \in Quotas
          BY <4>1, <4>2, BoundsAssumption DEF Quotas
        <4>5. ledger' = ledger + MonthlyRuns - quota.monthly /\ due' = FALSE
          BY <2>1 DEF QuotaReset
        <4>6. quota.monthly \in Nat
          BY <4>1 DEF Quotas
        <4>7. ledger' \in Int
          BY <4>1, <4>5, <4>6, BoundsAssumption
        <4> QED
          BY <4>4, <4>5, <4>7
      <3> QED
        BY <1>2, <1>5, <2>1, <3>1 DEF QuotaReset, IInv, TypeOK
    <2>2. CASE ArchiveLoop(q)
      <3>1. loop' \in LoopRows
        BY <2>2, LoopWritten DEF ArchiveLoop, IInv
      <3> QED
        BY <1>2, <1>5, <2>2, <3>1 DEF ArchiveLoop, KeepQuota, IInv, TypeOK
    <2>3. CASE StatusWrite(q)
      <3>1. loop' \in LoopRows
        BY <1>3, <2>3, LoopWritten DEF StatusWrite, At, CallOK, IInv
      <3> QED
        BY <1>2, <1>5, <2>3, <3>1 DEF StatusWrite, KeepQuota, IInv, TypeOK
    <2>4. CASE InsertRun(q) \/ Crash(q)
      BY <1>2, <1>5, <2>4 DEF InsertRun, Crash, KeepQuota, IInv, TypeOK
    <2> QED
      BY <2>1, <2>2, <2>3, <2>4
  <1> QED
    BY <1>2, <1>4, <1>5, <1>6, Done, QuietHandler

\* completeLoop, updateLoop and deleteLoop.
LEMMA LoopKeeps ==
  ASSUME IInv, CompleteLoop \/ UpdateLoop \/ DeleteLoop, UNCHANGED cut
  PROVE  IInv'
  <1>1. UNCHANGED <<quota, due, ledger, paid, launched, cut, req>>
    BY DEF CompleteLoop, UpdateLoop, DeleteLoop, KeepQuota
  <1>2. loop' \in LoopRows
    <2>1. CASE CompleteLoop
      BY <2>1, LoopWritten DEF CompleteLoop, IInv
    <2>2. CASE UpdateLoop
      BY <2>2 DEF UpdateLoop, IInv, TypeOK, LoopRows
    <2>3. CASE DeleteLoop
      BY <2>3, BoundsAssumption DEF DeleteLoop, LoopRows
    <2> QED
      BY <2>1, <2>2, <2>3
  <1>3. /\ run' \in [Runs -> RunRows]
        /\ \A r \in Runs :
             \/ run'[r] = run[r]
             \/ /\ run[r].status # "absent"
                /\ run'[r].status \in {"over", "deleted"} /\ ~run'[r].stale
    <2>1. CASE DeleteLoop
      <3> DEFINE gone == [NoRow EXCEPT !.status = "deleted"]
                 f(r) == IF Exists(r) THEN gone ELSE run[r]
      <3>1. run' = [r \in Runs |-> f(r)]
        BY <2>1 DEF DeleteLoop
      <3>2. gone \in RunRows /\ gone.status = "deleted" /\ ~gone.stale
        <4>1. NoRow \in RunRows /\ ~NoRow.stale
          BY BoundsAssumption DEF NoRow, RunRows, RunStatuses
        <4>2. "deleted" \in RunStatuses
          BY DEF RunStatuses
        <4> QED
          BY <4>1, <4>2 DEF RunRows
      <3>3. \A r \in Runs : /\ f(r) \in RunRows
                            /\ \/ f(r) = run[r]
                               \/ run[r].status # "absent" /\ f(r) = gone
        <4> HIDE DEF gone
        <4> QED
          BY <3>2 DEF Exists, IInv, TypeOK
      <3> HIDE DEF f, gone
      <3> QED
        BY <3>1, <3>2, <3>3
    <2>2. CASE ~DeleteLoop
      BY <2>2 DEF CompleteLoop, UpdateLoop, IInv, TypeOK
    <2> QED
      BY <2>1, <2>2
  <1>4. TypeOK'
    BY <1>1, <1>2, <1>3 DEF IInv, TypeOK
  <1>5. /\ {} \in SUBSET Requests
        /\ \A p \in Requests \ {} : req'[p] = req[p]
    BY <1>1
  <1> QED
    BY <1>1, <1>3, <1>4, <1>5, QuietStep

\* Time passes for a run that nobody is working on.
LEMMA StallKeeps ==
  ASSUME IInv, NEW s \in Runs, Stalls(s), UNCHANGED cut
  PROVE  IInv'
  <1>1. UNCHANGED <<loop, quota, due, ledger, paid, launched, cut, req>>
    BY DEF Stalls, KeepQuota
  <1>u. req' = req /\ paid' = paid /\ launched' = launched /\ cut' = cut
    BY <1>1
  <1>2. run[s] \in RunRows /\ run' = [run EXCEPT ![s].stale = TRUE]
    BY DEF Stalls, IInv, TypeOK
  <1>3. /\ run' \in [Runs -> RunRows]
        /\ \A r \in Runs : /\ run'[r].status = run[r].status
                           /\ r # s => run'[r] = run[r]
    BY <1>2 DEF IInv, TypeOK, RunRows
  <1>4. TypeOK'
    BY <1>1, <1>3 DEF IInv, TypeOK
  <1>5. \A q \in Requests : req[q].run # s
    BY DEF Stalls
  <1>6. \A q \in Requests : CallOK(q)'
    BY <1>u, <1>3, CallKept DEF IInv
  <1>7. ASSUME NEW q \in Requests, NEW r \in Runs
        PROVE  CreationOK(q, r)'
    <2>1. CreationOK(q, r)
      BY DEF IInv
    <2>2. CASE r = s
      BY <1>u, <1>5, <2>2 DEF CreationOK, Creates
    <2>3. CASE r # s
      <3>1. run'[r] = run[r]
        BY <1>3, <2>3
      <3> QED
        BY <1>u, <2>1, <3>1 DEF CreationOK, Creates
    <2> QED
      BY <2>2, <2>3
  <1>8. ASSUME NEW r \in Runs
        PROVE  RunOK(r)' /\ Covered(r)'
    <2>1. Owed(r)' <=> Owed(r)
      <3>1. run'[r].status = run[r].status
        BY <1>3
      <3> QED
        BY <1>u, <3>1 DEF Owed, Creates, Restarts
    <2>2. Payers(r)' = Payers(r)
      BY <1>u DEF Payers, Pays
    <2>3. RunOK(r) /\ Covered(r) /\ run'[r].status = run[r].status
      BY <1>3 DEF IInv
    <2>4. RunOK(r)'
      BY <1>u, <2>3 DEF RunOK
    <2>5. Covered(r)'
      BY <1>u, <2>1, <2>2, <2>3 DEF Covered
    <2> QED
      BY <2>4, <2>5
  <1> QED
    BY <1>4, <1>6, <1>7, <1>8 DEF IInv

\* A run is inserted: it was nobody's, and is its creator's.
LEMMA InsertKeeps ==
  ASSUME IInv, NEW q \in Requests, InsertRun(q), loop.status # "deleted", UNCHANGED cut
  PROVE  IInv'
  <1>1. PICK r \in Runs :
          /\ run[r].status = "absent"
          /\ run' = [run EXCEPT ![r] = [status |-> "pending", number |-> req[q].num,
                                        stale |-> FALSE]]
          /\ req' = [req EXCEPT ![q].pc = "deduct", ![q].run = r]
    BY DEF InsertRun
  <1>2. UNCHANGED <<loop, quota, due, ledger, paid, launched, cut>>
    BY DEF InsertRun, KeepQuota
  <1>3. /\ req[q] \in Calls /\ req[q].pc = "insert" /\ req[q].run \notin Runs
        /\ req[q].op \in {"start", "callback"} /\ req[q].num \in 0..MaxRuns
    BY DEF IInv, TypeOK, InsertRun, At, CallOK, Calls
  <1>4. /\ req'[q].pc = "deduct" /\ req'[q].run = r /\ req'[q].op = req[q].op
        /\ \A p \in Requests \ {q} : req'[p] = req[p]
        /\ req' \in [Requests -> Calls]
    <2>1. req' = [req EXCEPT ![q] = [req[q] EXCEPT !.pc = "deduct", !.run = r]]
      BY <1>1 DEF IInv, TypeOK
    <2>2. [req[q] EXCEPT !.pc = "deduct", !.run = r] \in Calls
      BY <1>3 DEF Calls, Points
    <2> QED
      BY <1>3, <2>1, <2>2 DEF IInv, TypeOK, Calls
  <1>5. /\ run' \in [Runs -> RunRows]
        /\ run'[r].status = "pending" /\ ~run'[r].stale
        /\ \A s \in Runs \ {r} : run'[s] = run[s]
    <2>1. [status |-> "pending", number |-> req[q].num, stale |-> FALSE] \in RunRows
      BY <1>3 DEF RunRows, RunStatuses, ActiveStatuses
    <2> QED
      BY <1>1, <2>1 DEF IInv, TypeOK
  <1>6. TypeOK'
    BY <1>2, <1>4, <1>5 DEF IInv, TypeOK
  <1>7. \A p \in Requests : req[p].run # r
    BY <1>1 DEF IInv, CallOK
  <1>8. r \notin launched \cup cut
    BY <1>1 DEF IInv, RunOK
  <1>9. Creates(q, r)' /\ ~Restarts(q, r)' /\ ~Pays(q, r)'
    BY <1>3, <1>4 DEF Creates, Restarts, Pays, CreationPoints
  <1>10. \A p \in Requests : CallOK(p)'
    <2>1. CallOK(q)'
      BY <1>3, <1>4, <1>5 DEF CallOK
    <2>2. ASSUME NEW p \in Requests, p # q
          PROVE  CallOK(p)'
      <3>1. \A s \in Runs : run[s].status # "absent" => run'[s].status # "absent"
        BY <1>5
      <3> QED
        BY <1>2, <1>4, <2>2, <3>1, CallKept DEF IInv
    <2> QED
      BY <2>1, <2>2
  <1>11. ASSUME NEW p \in Requests, NEW s \in Runs
         PROVE  CreationOK(p, s)'
    <2>1. CASE s = r
      <3>1. p # q => ~Creates(p, s)'
        BY <1>4, <1>7, <2>1 DEF Creates
      <3>2. p = q => CreationOK(p, s)'
        BY <1>2, <1>4, <1>5, <1>7, <1>8, <2>1 DEF CreationOK
      <3> QED
        BY <3>1, <3>2 DEF CreationOK
    <2>2. CASE s # r
      <3>1. p = q => ~Creates(p, s)'
        BY <1>4, <2>2 DEF Creates
      <3>2. p # q => CreationOK(p, s)'
        BY <1>2, <1>4, <1>5, <2>2 DEF IInv, CreationOK, Creates
      <3> QED
        BY <3>1, <3>2 DEF CreationOK
    <2> QED
      BY <2>1, <2>2
  <1>12. ASSUME NEW s \in Runs
         PROVE  RunOK(s)' /\ Covered(s)'
    <2>1. Payers(s)' = Payers(s)
      BY <1>3, <1>4 DEF Payers, Pays
    <2>2. Owed(s)' => Owed(s)
      <3>1. CASE s = r
        BY <1>2, <1>4, <1>7, <1>8, <1>9, <3>1 DEF Owed, Restarts
      <3>2. CASE s # r
        <4>1. \A p \in Requests : /\ Creates(p, s)' <=> Creates(p, s)
                                  /\ Restarts(p, s)' <=> Restarts(p, s)
          BY <1>3, <1>4, <3>2 DEF Creates, Restarts
        <4>2. run'[s] = run[s] /\ launched' = launched /\ cut' = cut
          BY <1>2, <1>5, <3>2
        <4> QED
          BY <4>1, <4>2 DEF Owed
      <3> QED
        BY <3>1, <3>2
    <2>3. Cardinality(Payers(s)) \in Nat /\ paid[s] \in Int
      BY PayersFinite DEF IInv, TypeOK
    <2> QED
      BY <1>2, <1>5, <1>8, <2>1, <2>2, <2>3 DEF IInv, Covered, RunOK
  <1> QED
    BY <1>6, <1>10, <1>11, <1>12 DEF IInv

-----------------------------------------------------------------------------
(* The steps of a handler that works on a run.                             *)

\* What the invariant says of the handler and its run.
LEMMA Own ==
  ASSUME IInv, NEW q \in Requests,
         req[q].pc \notin {"idle", "insert", "reset", "retire", "set"}
  PROVE  /\ req[q] \in Calls /\ CallOK(q)
         /\ req[q].run \in Runs /\ req[q].run # NoRun
         /\ run[req[q].run] \in RunRows /\ run[req[q].run].status # "absent"
         /\ RunOK(req[q].run) /\ CreationOK(q, req[q].run)
  <1>1. req[q] \in Calls /\ CallOK(q)
    BY DEF IInv, TypeOK
  <1>2. req[q].run \in Runs /\ run[req[q].run].status # "absent"
    BY <1>1 DEF CallOK
  <1>3. run[req[q].run] \in RunRows
    BY <1>2 DEF IInv, TypeOK
  <1> QED
    BY <1>1, <1>2, <1>3, RunsAssumption DEF IInv

\* A step that makes nobody but the handler a debtor: a run is owed if it was.
LEMMA OwedKept ==
  ASSUME NEW q \in Requests, NEW r \in Runs,
         \A p \in Requests \ {q} : req'[p] = req[p],
         r \in cut => r \in cut',
         r \in launched' => r \in launched,
         Restarts(q, r)' => Restarts(q, r),
         run'[r].status = "pending" => run[r].status = "pending",
         Creates(q, r) /\ run'[r].status = "pending" /\ r \notin cut' => Creates(q, r)'
  PROVE  Owed(r)' => Owed(r)
  <1> SUFFICES ASSUME Owed(r)'
               PROVE  Owed(r)
    OBVIOUS
  <1>1. r \notin cut' /\ r \notin cut
    BY DEF Owed
  <1>2. CASE r \in launched'
    BY <1>1, <1>2 DEF Owed
  <1>3. ASSUME NEW p \in Requests, Restarts(p, r)'
        PROVE  Owed(r)
    BY <1>1, <1>3 DEF Owed, Restarts
  <1>4. CASE run'[r].status = "pending" /\ \A p \in Requests : ~Creates(p, r)'
    <2>1. \A p \in Requests : ~Creates(p, r)
      BY <1>1, <1>4 DEF Creates
    <2> QED
      BY <1>1, <1>4, <2>1 DEF Owed
  <1> QED
    BY <1>2, <1>3, <1>4 DEF Owed

\* A step of a handler, on the row of its run, that charges, refunds and
\* launches nothing.  A payer that leaves its run behind leaves it paid.
LEMMA OwnRowStep ==
  ASSUME IInv, TypeOK', NEW q \in Requests, NEW r \in Runs, req[q].run = r,
         \A p \in Requests \ {q} : req'[p] = req[p],
         req'[q].run \in {r, NoRun},
         \A s \in Runs \ {r} : run'[s] = run[s],
         UNCHANGED <<paid, launched, cut>>,
         CallOK(q)', CreationOK(q, r)',
         \/ run'[r] = run[r]
         \/ /\ run'[r].status \notin {"absent", "pending"}
            /\ run'[r].status = "running" => r \in launched,
         \/ req[q].pc # "cancel"
         \/ /\ req'[q].run # r
            /\ \/ run'[r] = run[r]
               \/ run'[r].status \in {"over", "deleted"} /\ ~run'[r].stale,
         Pays(q, r)' => Pays(q, r),
         Restarts(q, r)' => Restarts(q, r),
         Creates(q, r) /\ run'[r].status = "pending" =>
           Creates(q, r)' \/ (Pays(q, r) /\ ~Pays(q, r)')
  PROVE  IInv'
  <1>1. RunOK(r) /\ paid[r] \in Int
    BY DEF IInv, TypeOK
  <1>2. paid' = paid /\ launched' = launched /\ cut' = cut
    OBVIOUS
  <1>3. run'[r].status = "running" => r \in launched'
    BY <1>1, <1>2 DEF RunOK
  <1>4. paid'[r] - Share(q, r)' >= paid[r] - Share(q, r)
    BY <1>1, <1>2 DEF Share
  <1>5. Owed(r)' => \/ Owed(r)
                    \/ paid'[r] - Share(q, r)' >= paid[r] - Share(q, r) + 1
    <2>1. CASE Pays(q, r) /\ ~Pays(q, r)'
      BY <1>1, <1>2, <2>1 DEF Share
    <2>2. CASE ~(Pays(q, r) /\ ~Pays(q, r)')
      BY <1>2, <2>2, OwedKept
    <2> QED
      BY <2>1, <2>2
  <1>6. launched \subseteq launched'
    BY <1>2
  <1>7. \A s \in Runs \ {r} :
          /\ run'[s] = run[s] /\ paid'[s] = paid[s]
          /\ s \in launched' <=> s \in launched
          /\ s \in cut' <=> s \in cut
    BY <1>2
  <1>8. run[r].status # "absent" => run'[r].status # "absent"
    OBVIOUS
  <1>9. \/ req[q].pc # "cancel"
        \/ /\ req'[q].run # r /\ UNCHANGED <<launched, cut>>
           /\ \/ run'[r] = run[r]
              \/ run'[r].status \in {"over", "deleted"} /\ ~run'[r].stale
    OBVIOUS
  <1> QED
    BY <1>3, <1>4, <1>5, <1>6, <1>7, <1>8, <1>9, OwnStep

\* The return of a handler, on the same terms.
LEMMA OwnReturn ==
  ASSUME IInv, TypeOK', NEW q \in Requests, NEW r \in Runs, req[q].run = r, Return(q),
         \A s \in Runs \ {r} : run'[s] = run[s],
         UNCHANGED <<paid, launched, cut>>,
         \/ run'[r] = run[r]
         \/ /\ run'[r].status \notin {"absent", "pending"}
            /\ run'[r].status = "running" => r \in launched,
         \/ req[q].pc # "cancel"
         \/ run'[r] = run[r]
         \/ run'[r].status \in {"over", "deleted"} /\ ~run'[r].stale,
         Creates(q, r) /\ run'[r].status = "pending" => Pays(q, r)
  PROVE  IInv'
  <1>1. /\ req'[q] = NoCall
        /\ \A p \in Requests \ {q} : req'[p] = req[p]
    BY Returned DEF IInv
  <1>2. /\ CallOK(q)' /\ CreationOK(q, r)'
        /\ ~Pays(q, r)' /\ ~Restarts(q, r)' /\ req'[q].run # r
    BY <1>1, Done
  <1>3. req'[q].run = NoRun
    BY <1>1, NoCallType
  <1> QED
    BY <1>1, <1>2, <1>3, OwnRowStep

\* The handlers that finish with a write to the row of their run.
LEMMA ClosingKeeps ==
  ASSUME IInv, NEW q \in Requests,
         \/ StartUndo(q) \/ StartFail(q) \/ CallbackHalt(q) \/ CancelWrite(q)
         \/ MarkAgain(q),
         UNCHANGED cut
  PROVE  IInv'
  <1> DEFINE r == req[q].run
  <1>1. req[q].pc \in {"undo", "fail", "halt", "cancel", "again"} /\ Return(q)
    BY DEF StartUndo, StartFail, CallbackHalt, CancelWrite, MarkAgain, At
  <1>2. /\ r \in Runs /\ run[r].status # "absent"
        /\ req[q].pc = "again" => r \in launched
    BY <1>1, Own DEF CallOK
  <1>3. PICK status \in {"deleted", "over", "halted", "running"} :
          /\ \/ SetRun(r, status) \/ (StartedRun(r) /\ status = "running")
             \/ (DeleteRun(r) /\ status = "deleted")
          /\ status = "running" => req[q].pc = "again"
          /\ req[q].pc = "cancel" => status = "over"
    BY DEF StartUndo, StartFail, CallbackHalt, CancelWrite, MarkAgain, At
  <1>4. /\ run' \in [Runs -> RunRows]
        /\ \A s \in Runs \ {r} : run'[s] = run[s]
        /\ Exists(r) => run'[r].status = status /\ ~run'[r].stale
        /\ ~Exists(r) => run'[r] = run[r]
    BY <1>2, <1>3, RowWritten DEF IInv, RunStatuses, ActiveStatuses
  <1>5. UNCHANGED <<loop, quota, due, ledger, paid, launched, cut>>
    BY DEF StartUndo, StartFail, CallbackHalt, CancelWrite, MarkAgain, KeepQuota
  <1>6. req' \in [Requests -> Calls]
    BY <1>1, Returned DEF IInv
  <1>7. TypeOK'
    BY <1>4, <1>5, <1>6 DEF IInv, TypeOK
  <1>8. run'[r].status # "pending"
    BY <1>2, <1>4 DEF Exists
  <1>9. \/ run'[r] = run[r]
        \/ /\ run'[r].status = status /\ ~run'[r].stale
           /\ run'[r].status = "running" => r \in launched
    BY <1>2, <1>3, <1>4
  <1> HIDE DEF r
  <1> QED
    BY <1>1, <1>2, <1>3, <1>4, <1>5, <1>7, <1>8, <1>9, OwnReturn DEF r

\* The handlers that finish with a write to the loop.
LEMMA LoopWriteKeeps ==
  ASSUME IInv, NEW q \in Requests, SetTotal(q) \/ CallbackClose(q), UNCHANGED cut
  PROVE  IInv'
  <1> DEFINE r == req[q].run
  <1>1. req[q].pc \in {"total", "close"} /\ Return(q)
    BY DEF SetTotal, CallbackClose, At
  <1>2. r \in Runs /\ req[q] \in Calls
    BY <1>1, Own
  <1>3. UNCHANGED <<run, quota, due, ledger, paid, launched, cut>>
    BY DEF SetTotal, CallbackClose, KeepQuota
  <1>4. loop' \in LoopRows
    <2>1. CASE SetTotal(q)
      BY <1>2, <2>1 DEF SetTotal, IInv, TypeOK, LoopRows, Calls
    <2>2. CASE CallbackClose(q)
      BY <2>2, LoopWritten DEF CallbackClose, IInv
    <2> QED
      BY <2>1, <2>2
  <1>5. req' \in [Requests -> Calls]
    BY <1>1, Returned DEF IInv
  <1>6. TypeOK'
    BY <1>3, <1>4, <1>5 DEF IInv, TypeOK
  <1>7. ~Creates(q, r)
    BY <1>1 DEF Creates, CreationPoints
  <1> HIDE DEF r
  <1> QED
    BY <1>1, <1>2, <1>3, <1>6, <1>7, OwnReturn DEF r

\* The handlers that move on without a return, and write at most the row of
\* their run.
LEMMA OwnMove ==
  ASSUME IInv, NEW q \in Requests, NEW r \in Runs, req[q].run = r,
         NEW pc \in Points \ {"idle"},
         Goto(q, pc) \/ Hold(q, pc),
         req[q].pc \notin {"idle", "insert", "reset", "retire", "set", "cancel"},
         UNCHANGED <<loop, quota, due, ledger, paid, launched, cut>>,
         run' \in [Runs -> RunRows],
         \A s \in Runs \ {r} : run'[s] = run[s],
         \/ run'[r] = run[r]
         \/ /\ run'[r].status \notin {"absent", "pending"}
            /\ run'[r].status = "running" => r \in launched,
         CallOK(q)', CreationOK(q, r)',
         Pays(q, r)' => Pays(q, r),
         Restarts(q, r)' => Restarts(q, r),
         Creates(q, r) /\ run'[r].status = "pending" => Creates(q, r)'
  PROVE  IInv'
  <1>1. /\ \A p \in Requests \ {q} : req'[p] = req[p]
        /\ req'[q].run = req[q].run
        /\ req' \in [Requests -> Calls]
    BY Went, Holds DEF IInv
  <1>2. TypeOK'
    BY <1>1 DEF IInv, TypeOK
  <1> QED
    BY <1>1, <1>2, OwnRowStep

\* The two reads of the quota.
LEMMA QuotaReadKeeps ==
  ASSUME IInv, NEW q \in Requests, DeductRead(q) \/ RefundRead(q), UNCHANGED cut
  PROVE  IInv'
  <1>1. req[q].pc \in {"deduct", "refund"}
    BY DEF DeductRead, RefundRead, At
  <1>2. PICK r \in Runs :
          /\ req[q].run = r /\ run[r] \in RunRows /\ run[r].status # "absent"
          /\ CallOK(q) /\ CreationOK(q, r)
          /\ req[q].op \in {"start", "callback", "rerun"}
    BY <1>1, Own DEF CallOK
  <1>3. UNCHANGED <<loop, run, quota, due, ledger, paid, launched, cut>>
    BY DEF DeductRead, RefundRead, KeepQuota
  <1>4. ASSUME Return(q), req[q].op = "rerun"
        PROVE  IInv'
    <2>2. ~Creates(q, r)
      BY <1>4 DEF Creates
    <2>3. req' \in [Requests -> Calls]
      BY <1>4, Returned DEF IInv
    <2>4. TypeOK'
      BY <1>3, <2>3 DEF IInv, TypeOK
    <2> QED
      BY <1>1, <1>2, <1>3, <1>4, <2>2, <2>4, OwnReturn
  <1>5. ASSUME NEW pc \in {"undo", "halt", "charge", "credit"},
               Goto(q, pc) \/ Hold(q, pc),
               pc = "undo" => req[q].pc = "deduct" /\ req[q].op = "start",
               pc = "halt" => req[q].pc = "deduct" /\ req[q].op = "callback",
               pc = "charge" => /\ req[q].pc = "deduct" /\ Hold(q, pc)
                                /\ Balance(quota) >= 1,
               pc = "credit" => req[q].pc = "refund"
        PROVE  IInv'
    <2>1. pc \in Points \ {"idle"}
      BY DEF Points
    <2>2. /\ \A p \in Requests \ {q} : req'[p] = req[p]
          /\ req'[q].pc = pc /\ req'[q].run = r /\ req'[q].op = req[q].op
          /\ pc = "charge" => req'[q].held = quota
      BY <1>2, <1>5, <2>1, Went, Holds DEF IInv
    <2>3. CallOK(q)'
      BY <1>2, <1>3, <1>5, <2>2 DEF CallOK, Balance
    <2>4. CreationOK(q, r)'
      <3>1. req[q].op = "rerun" => ~Creates(q, r)'
        BY <2>2 DEF Creates
      <3>2. req[q].op # "rerun" => Creates(q, r)
        BY <1>1, <1>2 DEF Creates, CreationPoints
      <3> QED
        BY <1>2, <1>3, <1>5, <2>2, <3>1, <3>2 DEF CreationOK
    <2>5. /\ Pays(q, r)' => Pays(q, r)
          /\ ~Restarts(q, r)'
          /\ Creates(q, r) => Creates(q, r)'
      BY <1>2, <1>5, <2>2 DEF Pays, Restarts, Creates, CreationPoints
    <2>6. run' \in [Runs -> RunRows] /\ run' = run
      BY <1>3 DEF IInv, TypeOK
    <2>7. /\ req[q].pc \notin {"idle", "insert", "reset", "retire", "set", "cancel"}
          /\ \A s \in Runs \ {r} : run'[s] = run[s]
          /\ run'[r] = run[r]
      BY <1>1, <1>3
    <2> QED
      BY <1>2, <1>3, <1>5, <2>1, <2>3, <2>4, <2>5, <2>6, <2>7, OwnMove
  <1>6. CASE RefundRead(q)
    BY <1>5, <1>6 DEF RefundRead, At
  <1>7. CASE DeductRead(q) /\ Exhausted(quota)
    <2>1. Goto(q, Unpaid(req[q].op)) /\ req[q].pc = "deduct"
      BY <1>7 DEF DeductRead, At
    <2>2. CASE req[q].op = "rerun"
      BY <1>4, <2>1, <2>2 DEF Unpaid, Goto
    <2>3. CASE req[q].op = "start"
      BY <1>5, <2>1, <2>3 DEF Unpaid
    <2>4. CASE req[q].op = "callback"
      BY <1>5, <2>1, <2>4 DEF Unpaid
    <2> QED
      BY <1>2, <2>2, <2>3, <2>4
  <1>8. CASE DeductRead(q) /\ ~Exhausted(quota)
    <2>1. Balance(quota) >= 1
      BY <1>8 DEF Exhausted, Balance, IInv, TypeOK, Quotas
    <2> QED
      BY <1>5, <1>8, <2>1 DEF DeductRead, At
  <1> QED
    BY <1>6, <1>7, <1>8

\* The worker has been called: the run is written down as running.
LEMMA MarkKeeps ==
  ASSUME IInv, NEW q \in Requests, MarkRunning(q), UNCHANGED cut
  PROVE  IInv'
  <1>1. req[q].pc = "mark"
    BY DEF MarkRunning, At
  <1>2. PICK r \in Runs :
          /\ req[q].run = r /\ run[r].status # "absent" /\ CallOK(q)
          /\ r \in launched /\ StartedRun(r)
    BY <1>1, Own DEF CallOK, MarkRunning
  <1>3. /\ run' \in [Runs -> RunRows]
        /\ \A s \in Runs \ {r} : run'[s] = run[s]
        /\ run'[r] = run[r] \/ run'[r].status = "running"
    BY <1>1, <1>2, RowWritten DEF IInv, RunStatuses, ActiveStatuses
  <1>4. UNCHANGED <<loop, quota, due, ledger, paid, launched, cut>>
    BY DEF MarkRunning, KeepQuota
  <1>5. PICK pc \in {"total", "again"} : Goto(q, pc)
    BY DEF MarkRunning
  <1>6. pc \in Points \ {"idle"}
    BY DEF Points
  <1>7. /\ \A p \in Requests \ {q} : req'[p] = req[p]
        /\ req'[q].pc = pc /\ req'[q].run = r /\ req'[q].op = req[q].op
    BY <1>2, <1>5, <1>6, Went DEF IInv
  <1>8. run'[r].status # "absent"
    BY <1>2, <1>3
  <1>9. CallOK(q)'
    BY <1>2, <1>4, <1>5, <1>7, <1>8 DEF CallOK
  <1>10. /\ ~Creates(q, r) /\ ~Creates(q, r)' /\ CreationOK(q, r)'
         /\ ~Pays(q, r)' /\ ~Restarts(q, r)'
    BY <1>1, <1>5, <1>7 DEF Creates, CreationPoints, CreationOK, Pays, Restarts
  <1>11. /\ req[q].pc \notin {"idle", "insert", "reset", "retire", "set", "cancel"}
         /\ \/ run'[r] = run[r]
            \/ /\ run'[r].status \notin {"absent", "pending"}
               /\ run'[r].status = "running" => r \in launched
    BY <1>1, <1>2, <1>3
  <1> QED
    BY <1>2, <1>3, <1>4, <1>5, <1>6, <1>9, <1>10, <1>11, OwnMove

\* The callback closes its run and goes on to the loop or to the next run.
LEMMA FinishKeeps ==
  ASSUME IInv, NEW q \in Requests, CallbackFinish(q), UNCHANGED cut
  PROVE  IInv'
  <1>1. req[q].pc = "finish"
    BY DEF CallbackFinish, At
  <1>2. PICK r \in Runs :
          /\ req[q].run = r /\ run[r].status # "absent" /\ req[q] \in Calls
          /\ CallOK(q) /\ req[q].op = "callback" /\ SetRun(r, "over")
    BY <1>1, Own DEF CallOK, CallbackFinish
  <1>3. /\ run' \in [Runs -> RunRows]
        /\ \A s \in Runs \ {r} : run'[s] = run[s]
        /\ run'[r] = run[r] \/ run'[r].status = "over"
    BY <1>1, <1>2, RowWritten DEF IInv, RunStatuses
  <1>4. UNCHANGED <<loop, quota, due, ledger, paid, launched, cut>>
    BY DEF CallbackFinish, KeepQuota
  <1>5. ~Creates(q, r)
    BY <1>1 DEF Creates, CreationPoints
  <1>6. CASE Return(q)
    <2>1. req' \in [Requests -> Calls]
      BY <1>6, Returned DEF IInv
    <2>2. TypeOK'
      BY <1>3, <1>4, <2>1 DEF IInv, TypeOK
    <2> QED
      BY <1>1, <1>2, <1>3, <1>4, <1>5, <1>6, <2>2, OwnReturn
  <1>7. CASE \/ Goto(q, "close")
             \/ req' = [req EXCEPT ![q].pc = "insert", ![q].run = NoRun]
    <2>1. /\ \A p \in Requests \ {q} : req'[p] = req[p]
          /\ req'[q].op = "callback"
          /\ \/ req'[q].pc = "close" /\ req'[q].run = r
             \/ req'[q].pc = "insert" /\ req'[q].run = NoRun
          /\ req' \in [Requests -> Calls]
      <3>1. CASE Goto(q, "close")
        BY <1>2, <3>1, Went DEF IInv, Points
      <3>2. CASE req' = [req EXCEPT ![q].pc = "insert", ![q].run = NoRun]
        <4>1. req' = [req EXCEPT ![q] = [req[q] EXCEPT !.pc = "insert", !.run = NoRun]]
          BY <3>2 DEF IInv, TypeOK
        <4> QED
          BY <1>2, <4>1 DEF IInv, TypeOK, Calls, Points
      <3> QED
        BY <1>7, <3>1, <3>2
    <2>2. TypeOK'
      BY <1>3, <1>4, <2>1 DEF IInv, TypeOK
    <2>3. run'[r].status # "absent"
      BY <1>2, <1>3
    <2>4. CallOK(q)'
      BY <1>2, <2>1, <2>3, RunsAssumption DEF CallOK
    <2>5. CreationOK(q, r)' /\ ~Pays(q, r)' /\ ~Restarts(q, r)'
      BY <2>1 DEF Creates, CreationPoints, CreationOK, Pays, Restarts
    <2>6. /\ UNCHANGED <<paid, launched, cut>>
          /\ req'[q].run \in {r, NoRun}
          /\ req[q].pc # "cancel"
          /\ \/ run'[r] = run[r]
             \/ /\ run'[r].status \notin {"absent", "pending"}
                /\ run'[r].status = "running" => r \in launched
      BY <1>1, <1>3, <1>4, <2>1
    <2> QED
      BY <1>2, <1>3, <1>5, <2>1, <2>2, <2>4, <2>5, <2>6, OwnRowStep
  <1> QED
    BY <1>6, <1>7 DEF CallbackFinish

\* A handler that gives its launch up, with the row of its run closed: a payer
\* goes on to the refund, a restart returns.
LEMMA NotStartedKeeps ==
  ASSUME IInv, NEW q \in Requests, NEW r \in Runs, req[q].run = r,
         req[q].pc \in {"credential", "launch"}, Goto(q, NotStarted(req[q].op)),
         UNCHANGED <<loop, quota, due, ledger, paid, launched, cut>>,
         run' \in [Runs -> RunRows],
         \A s \in Runs \ {r} : run'[s] = run[s],
         \/ run'[r] = run[r]
         \/ run'[r].status \in {"over", "deleted"} /\ ~run'[r].stale,
         run'[r].status \notin {"absent", "pending"}
  PROVE  IInv'
  <1>1. CallOK(q) /\ CreationOK(q, r) /\ req[q] \in Calls
    BY Own
  <1>2. CASE req[q].op = "restart"
    <2>1. Return(q)
      BY <1>2 DEF NotStarted, Goto
    <2>2. TypeOK'
      BY <2>1, Returned DEF IInv, TypeOK
    <2>3. ~Creates(q, r)
      BY <1>2 DEF Creates
    <2>4. UNCHANGED <<paid, launched, cut>>
      OBVIOUS
    <2>5. \/ run'[r] = run[r]
          \/ /\ run'[r].status \notin {"absent", "pending"}
             /\ run'[r].status = "running" => r \in launched
      OBVIOUS
    <2> QED
      BY <2>1, <2>2, <2>3, <2>4, <2>5, OwnReturn
  <1>3. CASE req[q].op # "restart"
    <2>1. Goto(q, "refund") /\ "refund" \in Points \ {"idle"}
      BY <1>3 DEF NotStarted, Points
    <2>2. req[q].op \in {"start", "callback", "rerun"}
      BY <1>1, <1>3 DEF CallOK, Calls, Ops
    <2>3. /\ \A p \in Requests \ {q} : req'[p] = req[p]
          /\ req'[q].pc = "refund" /\ req'[q].run = r /\ req'[q].op = req[q].op
      BY <2>1, Went DEF IInv
    <2>4. CallOK(q)'
      BY <2>2, <2>3 DEF CallOK
    <2>5. CreationOK(q, r)'
      <3>1. Creates(q, r)' => Creates(q, r)
        BY <2>3 DEF Creates, CreationPoints
      <3>2. launched' = launched /\ cut' = cut
        OBVIOUS
      <3> QED
        BY <1>1, <2>3, <3>1, <3>2 DEF CreationOK
    <2>6. Pays(q, r) /\ ~Restarts(q, r)'
      BY <2>2, <2>3 DEF Pays, Restarts
    <2>7. /\ req[q].pc \notin {"idle", "insert", "reset", "retire", "set", "cancel"}
          /\ \/ run'[r] = run[r]
             \/ /\ run'[r].status \notin {"absent", "pending"}
                /\ run'[r].status = "running" => r \in launched
      OBVIOUS
    <2> QED
      BY <2>1, <2>4, <2>5, <2>6, <2>7, OwnMove
  <1> QED
    BY <1>2, <1>3

\* The credential and the status are checked.
LEMMA CheckKeeps ==
  ASSUME IInv, NEW q \in Requests, StartCheck(q), UNCHANGED cut
  PROVE  IInv'
  <1>1. req[q].pc = "credential"
    BY DEF StartCheck, At
  <1>2. PICK r \in Runs :
          /\ req[q].run = r /\ run[r] \in RunRows /\ run[r].status # "absent"
          /\ CallOK(q) /\ CreationOK(q, r) /\ req[q] \in Calls /\ RunOK(r)
    BY <1>1, Own
  <1>3. UNCHANGED <<loop, quota, due, ledger, paid, launched, cut>>
    BY DEF StartCheck, KeepQuota
  <1>4. Creates(q, r) => Pays(q, r)
    BY <1>1 DEF Creates, Pays
  <1>5. run \in [Runs -> RunRows]
    BY DEF IInv, TypeOK
  <1>6. CASE Goto(q, "launch") /\ run' = run
    <2>1. "launch" \in Points \ {"idle"}
      BY DEF Points
    <2>2. /\ \A p \in Requests \ {q} : req'[p] = req[p]
          /\ req'[q].pc = "launch" /\ req'[q].run = r /\ req'[q].op = req[q].op
      BY <1>2, <1>6, <2>1, Went DEF IInv
    <2>3. CallOK(q)'
      BY <1>1, <1>2, <1>6, <2>2 DEF CallOK
    <2>4. CreationOK(q, r)'
      <3>1. Creates(q, r)' => Creates(q, r)
        BY <1>1, <1>2, <2>2 DEF Creates, CreationPoints
      <3>2. launched' = launched /\ cut' = cut /\ run' = run
        BY <1>3, <1>6
      <3> QED
        BY <1>2, <2>2, <3>1, <3>2 DEF CreationOK
    <2>5. /\ Pays(q, r)' => Pays(q, r)
          /\ Restarts(q, r)' => Restarts(q, r)
          /\ Creates(q, r) => Creates(q, r)'
      BY <1>1, <1>2, <2>2 DEF Pays, Restarts, Creates, CreationPoints
    <2>6. /\ req[q].pc \notin {"idle", "insert", "reset", "retire", "set", "cancel"}
          /\ run' \in [Runs -> RunRows] /\ run'[r] = run[r]
          /\ \A s \in Runs \ {r} : run'[s] = run[s]
      BY <1>1, <1>5, <1>6
    <2> QED
      BY <1>2, <1>3, <1>6, <2>1, <2>3, <2>4, <2>5, <2>6, OwnMove
  <1>7. CASE Goto(q, NotStarted(req[q].op)) /\ ~Startable(r) /\ run' = run
    <2>1. run[r].status # "pending"
      BY <1>7 DEF Startable
    <2>2. /\ run' \in [Runs -> RunRows] /\ run'[r] = run[r]
          /\ \A s \in Runs \ {r} : run'[s] = run[s]
      BY <1>5, <1>7
    <2> QED
      BY <1>1, <1>2, <1>3, <1>7, <2>1, <2>2, NotStartedKeeps
  <1>8. CASE Return(q) /\ (run' = run \/ SetRun(r, "over"))
    <2>1. /\ run' \in [Runs -> RunRows]
          /\ \A s \in Runs \ {r} : run'[s] = run[s]
          /\ \/ run'[r] = run[r]
             \/ run'[r].status = "over" /\ ~run'[r].stale
      <3>1. CASE run' = run
        BY <1>5, <3>1
      <3>2. CASE SetRun(r, "over")
        BY <3>2, RowWritten DEF IInv, RunStatuses
      <3> QED
        BY <1>8, <3>1, <3>2
    <2>2. req' \in [Requests -> Calls]
      BY <1>8, Returned DEF IInv
    <2>3. TypeOK'
      BY <1>3, <2>1, <2>2 DEF IInv, TypeOK
    <2>4. \/ run'[r] = run[r]
          \/ /\ run'[r].status \notin {"absent", "pending"}
             /\ run'[r].status = "running" => r \in launched
      BY <2>1
    <2>5. UNCHANGED <<paid, launched, cut>>
      BY <1>3
    <2> QED
      BY <1>1, <1>2, <1>4, <1>8, <2>1, <2>3, <2>4, <2>5, OwnReturn
  <1> QED
    BY <1>2, <1>6, <1>7, <1>8 DEF StartCheck

\* The launch fails, and the row is deleted.
LEMMA LaunchFailsKeeps ==
  ASSUME IInv, NEW q \in Requests, LaunchFails(q), UNCHANGED cut
  PROVE  IInv'
  <1>1. req[q].pc = "launch"
    BY DEF LaunchFails, At
  <1>2. PICK r \in Runs :
          /\ req[q].run = r /\ run[r].status # "absent" /\ DeleteRun(r)
    BY <1>1, Own DEF LaunchFails
  <1>3. /\ run' \in [Runs -> RunRows]
        /\ \A s \in Runs \ {r} : run'[s] = run[s]
        /\ Exists(r) => run'[r].status = "deleted" /\ ~run'[r].stale
        /\ ~Exists(r) => run'[r] = run[r]
    BY <1>2, RowWritten DEF IInv, RunStatuses
  <1>4. run'[r].status \notin {"absent", "pending"}
    BY <1>2, <1>3 DEF Exists
  <1>5. \/ run'[r] = run[r]
        \/ run'[r].status \in {"over", "deleted"} /\ ~run'[r].stale
    BY <1>3
  <1>6. /\ UNCHANGED <<loop, quota, due, ledger, paid, launched, cut>>
        /\ Goto(q, NotStarted(req[q].op))
    BY DEF LaunchFails, KeepQuota
  <1> QED
    BY <1>1, <1>2, <1>3, <1>4, <1>5, <1>6, NotStartedKeeps

\* The worker is called: a payer's charge becomes the run's, and a restart's run
\* was paid for before.
LEMMA LaunchKeeps ==
  ASSUME IInv, NEW q \in Requests, Launch(q), UNCHANGED cut
  PROVE  IInv'
  <1>1. req[q].pc = "launch" /\ Goto(q, "mark")
    BY DEF Launch, At
  <1>2. PICK r \in Runs :
          /\ req[q].run = r /\ run[r].status # "absent" /\ req[q] \in Calls
          /\ CallOK(q) /\ launched' = launched \cup {r}
    BY <1>1, Own DEF Launch
  <1>3. run' = run /\ paid' = paid /\ cut' = cut /\ UNCHANGED <<loop, quota, due, ledger>>
    BY DEF Launch, KeepQuota
  <1>4. /\ \A p \in Requests \ {q} : req'[p] = req[p]
        /\ req'[q].pc = "mark" /\ req'[q].run = r /\ req'[q].op = req[q].op
        /\ req' \in [Requests -> Calls]
    BY <1>1, <1>2, Went DEF IInv, Points
  <1>5. TypeOK'
    BY <1>2, <1>3, <1>4 DEF IInv, TypeOK
  <1>6. CallOK(q)'
    BY <1>2, <1>3, <1>4 DEF CallOK
  <1>7. ~Creates(q, r)' /\ ~Pays(q, r)' /\ ~Restarts(q, r)'
    BY <1>4 DEF Creates, Pays, Restarts, CreationPoints
  <1>8. CreationOK(q, r)'
    BY <1>7 DEF CreationOK
  <1>9. paid[r] \in Int
    BY DEF IInv, TypeOK
  <1>10. paid'[r] - Share(q, r)' >= paid[r] - Share(q, r)
    BY <1>3, <1>7, <1>9 DEF Share
  <1>11. Owed(r)' => \/ Owed(r)
                     \/ paid'[r] - Share(q, r)' >= paid[r] - Share(q, r) + 1
    <2>1. CASE req[q].op = "restart"
      <3>1. Restarts(q, r)
        BY <1>1, <1>2, <2>1 DEF Restarts
      <3> QED
        BY <1>3, <3>1 DEF Owed
    <2>2. CASE req[q].op # "restart"
      <3>1. Pays(q, r)
        BY <1>1, <1>2, <2>2 DEF Pays, CallOK, Calls, Ops
      <3> QED
        BY <1>3, <1>7, <1>9, <3>1 DEF Share
    <2> QED
      BY <2>1, <2>2
  <1>12. /\ req'[q].run \in {r, NoRun}
         /\ \A s \in Runs \ {r} :
              /\ run'[s] = run[s] /\ paid'[s] = paid[s]
              /\ s \in launched' <=> s \in launched
              /\ s \in cut' <=> s \in cut
         /\ launched \subseteq launched'
         /\ run'[r].status # "absent"
         /\ r \in launched'
         /\ req[q].pc # "cancel"
    BY <1>1, <1>2, <1>3, <1>4
  <1> QED
    BY <1>2, <1>4, <1>5, <1>6, <1>8, <1>10, <1>11, <1>12, OwnStep

\* A charge is committed, or the transaction fails.
LEMMA DeductKeeps ==
  ASSUME IInv, NEW q \in Requests, DeductCommit(q), UNCHANGED cut
  PROVE  IInv'
  <1>1. req[q].pc = "charge"
    BY DEF DeductCommit, At
  <1>2. PICK r \in Runs :
          /\ req[q].run = r /\ run[r].status # "absent" /\ req[q] \in Calls
          /\ CallOK(q) /\ CreationOK(q, r) /\ req[q].op \in {"start", "callback", "rerun"}
          /\ RunOK(r)
    BY <1>1, Own DEF CallOK
  <1>3. UNCHANGED <<loop, run, due, launched, cut>>
    BY DEF DeductCommit
  <1>4. run \in [Runs -> RunRows] /\ paid \in [Runs -> Int] /\ ledger \in Int /\ quota \in Quotas
    BY DEF IInv, TypeOK
  <1>5. CASE EventAllowed(r)
    <2>1. /\ quota' = Deducted(req[q].held) /\ ledger' = ledger - 1
          /\ paid' = [paid EXCEPT ![r] = @ + 1] /\ Goto(q, "credential")
      BY <1>2, <1>5 DEF DeductCommit
    <2>2. quota' \in Quotas
      <3>1. req[q].held \in Quotas /\ Balance(req[q].held) >= 1
        BY <1>1, <1>2 DEF CallOK, Calls
      <3> QED
        BY <2>1, <3>1 DEF Deducted, Balance, Quotas
    <2>3. /\ \A p \in Requests \ {q} : req'[p] = req[p]
          /\ req'[q].pc = "credential" /\ req'[q].run = r /\ req'[q].op = req[q].op
          /\ req' \in [Requests -> Calls]
      BY <1>2, <2>1, Went DEF IInv, Points
    <2>4. /\ paid' \in [Runs -> Int] /\ paid'[r] = paid[r] + 1
          /\ \A s \in Runs \ {r} : paid'[s] = paid[s]
          /\ ledger' \in Int
      BY <1>4, <2>1
    <2>5. TypeOK'
      BY <1>3, <2>2, <2>3, <2>4 DEF IInv, TypeOK
    <2>6. CallOK(q)'
      BY <1>2, <1>3, <2>3 DEF CallOK
    <2>7. Creates(q, r)' <=> Creates(q, r)
      BY <1>1, <1>2, <2>3 DEF Creates, CreationPoints
    <2>8. CreationOK(q, r)'
      BY <1>2, <1>3, <2>3, <2>7 DEF CreationOK
    <2>9. ~Pays(q, r) /\ Pays(q, r)' /\ ~Restarts(q, r)'
      BY <1>1, <1>2, <2>3 DEF Pays, Restarts
    <2>10. paid'[r] - Share(q, r)' >= paid[r] - Share(q, r)
      BY <1>4, <2>4, <2>9 DEF Share
    <2>11. Owed(r)' => Owed(r)
      BY <1>2, <1>3, <2>3, <2>7, <2>9, OwedKept
    <2>12. /\ req'[q].run \in {r, NoRun}
           /\ \A s \in Runs \ {r} :
                /\ run'[s] = run[s] /\ paid'[s] = paid[s]
                /\ s \in launched' <=> s \in launched
                /\ s \in cut' <=> s \in cut
           /\ launched \subseteq launched'
           /\ run'[r].status # "absent"
           /\ run'[r].status = "running" => r \in launched'
           /\ req[q].pc # "cancel"
      BY <1>1, <1>2, <1>3, <2>3, <2>4 DEF RunOK
    <2> QED
      BY <1>2, <2>3, <2>5, <2>6, <2>8, <2>10, <2>11, <2>12, OwnStep
  <1>6. CASE ~EventAllowed(r)
    <2>1. UNCHANGED <<loop, quota, due, ledger, paid, launched, cut>>
          /\ Goto(q, Unpaid(req[q].op)) /\ run' = run
      BY <1>2, <1>3, <1>6 DEF DeductCommit
    <2>2. /\ run' \in [Runs -> RunRows] /\ run'[r] = run[r]
          /\ \A s \in Runs \ {r} : run'[s] = run[s]
      BY <1>4, <2>1
    <2>3. CASE req[q].op = "rerun"
      <3>1. Return(q)
        BY <2>1, <2>3 DEF Unpaid, Goto
      <3>2. req' \in [Requests -> Calls]
        BY <3>1, Returned DEF IInv
      <3>3. TypeOK'
        BY <2>1, <2>2, <3>2 DEF IInv, TypeOK
      <3>4. ~Creates(q, r)
        BY <2>3 DEF Creates
      <3>5. UNCHANGED <<paid, launched, cut>>
        BY <2>1
      <3> QED
        BY <1>1, <1>2, <2>2, <3>1, <3>3, <3>4, <3>5, OwnReturn
    <2>4. CASE req[q].op \in {"start", "callback"}
      <3>1. PICK pc \in {"undo", "halt"} :
              /\ Goto(q, pc)
              /\ pc = "undo" => req[q].op = "start"
              /\ pc = "halt" => req[q].op = "callback"
        BY <2>1, <2>4 DEF Unpaid
      <3>2. pc \in Points \ {"idle"}
        BY DEF Points
      <3>3. /\ \A p \in Requests \ {q} : req'[p] = req[p]
            /\ req'[q].pc = pc /\ req'[q].run = r /\ req'[q].op = req[q].op
        BY <1>2, <3>1, <3>2, Went DEF IInv
      <3>4. CallOK(q)'
        BY <1>2, <1>3, <3>1, <3>3 DEF CallOK
      <3>5. Creates(q, r)' /\ Creates(q, r)
        BY <1>1, <1>2, <2>4, <3>3 DEF Creates, CreationPoints
      <3>6. CreationOK(q, r)'
        BY <1>2, <1>3, <3>1, <3>3, <3>5 DEF CreationOK
      <3>7. ~Pays(q, r)' /\ ~Restarts(q, r)'
        BY <3>1, <3>3 DEF Pays, Restarts
      <3>8. req[q].pc \notin {"idle", "insert", "reset", "retire", "set", "cancel"}
        BY <1>1
      <3> QED
        BY <1>2, <2>1, <2>2, <3>1, <3>2, <3>4, <3>5, <3>6, <3>7, <3>8, OwnMove
    <2> QED
      BY <1>2, <2>3, <2>4
  <1> QED
    BY <1>5, <1>6

\* A charge is given back, by one who has charged, or the transaction fails.
LEMMA RefundKeeps ==
  ASSUME IInv, NEW q \in Requests, RefundCommit(q), UNCHANGED cut
  PROVE  IInv'
  <1>1. req[q].pc = "credit"
    BY DEF RefundCommit, At
  <1>2. PICK r \in Runs :
          /\ req[q].run = r /\ run[r].status # "absent" /\ req[q] \in Calls
          /\ CallOK(q) /\ CreationOK(q, r) /\ req[q].op \in {"start", "callback", "rerun"}
          /\ RunOK(r)
    BY <1>1, Own DEF CallOK
  <1>3. UNCHANGED <<loop, run, due, launched, cut>>
    BY DEF RefundCommit
  <1>4. run \in [Runs -> RunRows] /\ paid \in [Runs -> Int] /\ ledger \in Int /\ quota \in Quotas
        /\ req[q].held \in Quotas
    BY <1>2 DEF IInv, TypeOK, Calls
  <1>5. /\ quota' \in Quotas /\ ledger' \in Int /\ paid' \in [Runs -> Int]
        /\ paid'[r] >= paid[r] - 1
        /\ \A s \in Runs \ {r} : paid'[s] = paid[s]
    <2>1. CASE EventAllowed(r)
      <3>1. /\ quota' = [quota EXCEPT !.extra = req[q].held.extra + 1]
            /\ ledger' = ledger + 1
            /\ paid' = [paid EXCEPT ![r] = @ - 1]
        BY <1>2, <2>1 DEF RefundCommit
      <3> QED
        BY <1>4, <3>1 DEF Quotas
    <2>2. CASE ~EventAllowed(r)
      BY <1>2, <1>4, <2>2 DEF RefundCommit
    <2> QED
      BY <2>1, <2>2
  <1>6. Pays(q, r)
    BY <1>1, <1>2 DEF Pays
  <1>7. /\ \A p \in Requests \ {q} : req'[p] = req[p]
        /\ req' \in [Requests -> Calls]
        /\ \/ req'[q].pc = "fail" /\ req'[q].run = r /\ req'[q].op = "start" /\ req[q].op = "start"
           \/ req'[q] = NoCall
    <2>1. CASE req[q].op = "start"
      <3>1. Goto(q, "fail")
        BY <2>1 DEF RefundCommit
      <3> QED
        BY <1>2, <2>1, <3>1, Went DEF IInv, Points
    <2>2. CASE req[q].op # "start"
      <3>1. Return(q)
        BY <2>2 DEF RefundCommit, Goto
      <3> QED
        BY <3>1, Returned DEF IInv
    <2> QED
      BY <2>1, <2>2
  <1>8. TypeOK'
    BY <1>3, <1>5, <1>7 DEF IInv, TypeOK
  <1>9. CallOK(q)'
    <2>1. CASE req'[q] = NoCall
      BY <2>1, Done
    <2>2. CASE req'[q] # NoCall
      BY <1>2, <1>3, <1>7, <2>2 DEF CallOK
    <2> QED
      BY <2>1, <2>2
  <1>10. CreationOK(q, r)'
    <2>1. CASE req'[q] = NoCall
      BY <2>1, Done
    <2>2. CASE req'[q] # NoCall
      <3>1. Creates(q, r)
        BY <1>1, <1>2, <1>7, <2>2 DEF Creates, CreationPoints
      <3> QED
        BY <1>1, <1>2, <1>3, <1>7, <2>2, <3>1 DEF CreationOK
    <2> QED
      BY <2>1, <2>2
  <1>11. ~Pays(q, r)' /\ ~Restarts(q, r)'
    BY <1>7, NoCallType DEF Pays, Restarts
  <1>12. paid'[r] - Share(q, r)' >= paid[r] - Share(q, r)
    BY <1>4, <1>5, <1>6, <1>11 DEF Share
  <1>13. Owed(r)' => Owed(r)
    <2>1. Creates(q, r) => run'[r].status # "pending"
      BY <1>1, <1>2, <1>3 DEF CreationOK
    <2> QED
      BY <1>2, <1>3, <1>7, <1>11, <2>1, OwedKept
  <1>14. /\ req'[q].run \in {r, NoRun}
         /\ \A s \in Runs \ {r} :
              /\ run'[s] = run[s] /\ paid'[s] = paid[s]
              /\ s \in launched' <=> s \in launched
              /\ s \in cut' <=> s \in cut
         /\ launched \subseteq launched'
         /\ run'[r].status # "absent"
         /\ run'[r].status = "running" => r \in launched'
         /\ req[q].pc # "cancel"
    BY <1>1, <1>2, <1>3, <1>5, <1>7, NoCallType DEF RunOK
  <1> QED
    BY <1>2, <1>7, <1>8, <1>9, <1>10, <1>12, <1>13, <1>14, OwnStep

\* A handler dies.  A run that nobody else can delete or halt is cut off; any
\* other run that its creator leaves behind was paid for.
LEMMA CrashKeeps ==
  ASSUME IInv, NEW q \in Requests, Crash(q)
  PROVE  IInv'
  <1>1. CASE req[q].run \notin Runs
    BY <1>1, LoopEndKeeps
  <1>2. CASE req[q].run \in Runs
    <2>1. CallOK(q)
      BY DEF IInv
    <2>2. req[q].pc \notin {"idle", "insert", "reset", "retire", "set"}
      BY <1>2, <2>1 DEF CallOK
    <2>3. PICK r \in Runs :
            /\ req[q].run = r /\ run[r].status # "absent"
            /\ CreationOK(q, r) /\ RunOK(r)
      BY <2>2, Own
    <2>4. /\ req'[q] = NoCall
          /\ \A p \in Requests \ {q} : req'[p] = req[p]
          /\ req' \in [Requests -> Calls]
      BY Returned DEF Crash, IInv
    <2>5. /\ run' = run /\ launched' = launched /\ paid' = paid
          /\ UNCHANGED <<loop, quota, due, ledger>>
      BY DEF Crash, KeepQuota
    <2>6. /\ cut' \in {cut, cut \cup {r}}
          /\ req[q].pc = "cancel" => cut' = cut
          /\ Creates(q, r) /\ r \notin cut'
               => req[q].pc \in {"credential", "launch", "refund", "credit", "fail"}
      BY <2>3 DEF Crash, Creates, CreationPoints
    <2>7. TypeOK'
      BY <2>4, <2>5, <2>6 DEF IInv, TypeOK
    <2>8. /\ CallOK(q)' /\ CreationOK(q, r)'
          /\ ~Pays(q, r)' /\ ~Restarts(q, r)' /\ req'[q].run = NoRun
      BY <2>4, Done, NoCallType
    <2>9. paid[r] \in Int
      BY DEF IInv, TypeOK
    <2>10. paid'[r] - Share(q, r)' >= paid[r] - Share(q, r)
      BY <2>5, <2>8, <2>9 DEF Share
    <2>11. Owed(r)' => \/ Owed(r)
                       \/ paid'[r] - Share(q, r)' >= paid[r] - Share(q, r) + 1
      <3>1. CASE Pays(q, r)
        BY <2>5, <2>8, <2>9, <3>1 DEF Share
      <3>2. CASE ~Pays(q, r)
        <4>1. Creates(q, r) /\ r \notin cut' => req[q].pc = "fail"
          BY <2>6, <3>2 DEF Creates, Pays
        <4>2. Creates(q, r) /\ r \notin cut' => run'[r].status # "pending"
          BY <2>3, <2>5, <4>1 DEF CreationOK
        <4> QED
          BY <2>4, <2>5, <2>6, <2>8, <4>2, OwedKept
      <3> QED
        BY <3>1, <3>2
    <2>12. /\ req'[q].run \in {r, NoRun}
           /\ \A s \in Runs \ {r} :
                /\ run'[s] = run[s] /\ paid'[s] = paid[s]
                /\ s \in launched' <=> s \in launched
                /\ s \in cut' <=> s \in cut
           /\ launched \subseteq launched'
           /\ run'[r].status # "absent"
           /\ run'[r].status = "running" => r \in launched'
           /\ \/ req[q].pc # "cancel"
              \/ /\ req'[q].run # r /\ UNCHANGED <<launched, cut>>
                 /\ run'[r] = run[r]
      BY <2>3, <2>5, <2>6, <2>8, RunsAssumption DEF RunOK
    <2> QED
      BY <2>3, <2>4, <2>7, <2>8, <2>10, <2>11, <2>12, OwnStep
  <1> QED
    BY <1>1, <1>2

-----------------------------------------------------------------------------
(* The theorems.                                                           *)

\* The invariant holds in the first state.
LEMMA InitOK ==
  ASSUME Init
  PROVE  IInv
  <1>1. TypeOK
    <2>1. loop \in LoopRows
      BY BoundsAssumption DEF Init, LoopRows
    <2>2. run \in [Runs -> RunRows]
      BY BoundsAssumption DEF Init, NoRow, RunRows, RunStatuses
    <2>3. quota \in Quotas /\ ledger \in Int
      BY BoundsAssumption DEF Init, Quotas
    <2>4. req \in [Requests -> Calls]
      BY NoCallType DEF Init
    <2> QED
      BY <2>1, <2>2, <2>3, <2>4 DEF Init, TypeOK
  <1>2. ASSUME NEW q \in Requests
        PROVE  CallOK(q) /\ \A r \in Runs : CreationOK(q, r)
    <2>1. req[q] = NoCall
      BY DEF Init
    <2> QED
      BY <2>1, NoCallType, RunsAssumption DEF CallOK, CreationOK, Creates
  <1>3. ASSUME NEW r \in Runs
        PROVE  RunOK(r) /\ Covered(r)
    <2>1. run[r].status = "absent" /\ paid[r] = 0 /\ launched = {} /\ cut = {}
      BY <1>3 DEF Init, NoRow
    <2>2. \A q \in Requests : ~Pays(q, r) /\ ~Restarts(q, r)
      BY NoCallType DEF Init, Pays, Restarts
    <2>3. Payers(r) = {} /\ ~Owed(r)
      BY <2>1, <2>2 DEF Payers, Owed
    <2>4. Cardinality(Payers(r)) = 0
      BY <2>3, FS_EmptySet
    <2> QED
      BY <2>1, <2>3, <2>4 DEF RunOK, Covered
  <1> QED
    BY <1>1, <1>2, <1>3 DEF IInv

\* Every step keeps it.
LEMMA StepOK ==
  ASSUME IInv, [Next]_vars
  PROVE  IInv'
  <1>1. CASE UNCHANGED vars
    <2>1. \A r \in Runs : Payers(r)' = Payers(r) /\ (Owed(r)' <=> Owed(r))
      BY <1>1 DEF vars, Payers, Pays, Owed, Creates, Restarts
    <2>2. TypeOK'
      BY <1>1 DEF vars, TypeOK, IInv
    <2>3. \A r \in Runs : RunOK(r)' /\ Covered(r)'
      BY <1>1, <2>1 DEF vars, RunOK, Covered, IInv
    <2>4. \A q \in Requests : CallOK(q)' /\ \A r \in Runs : CreationOK(q, r)'
      BY <1>1 DEF vars, CallOK, CreationOK, Creates, IInv
    <2> QED
      BY <2>2, <2>3, <2>4 DEF IInv
  <1>2. ASSUME NEW q \in Requests, UNCHANGED cut,
               \/ StartBegin(q) \/ ArchiveRuns(q) \/ QuotaRead(q)
               \/ \E r \in Runs : RestartBegin(q, r) \/ CallbackBegin(q, r) \/ CancelBegin(q, r)
               \/ \E goal \in {"active", "paused"} : StatusBegin(q, goal)
        PROVE  IInv'
    BY <1>2, LoopBeginKeeps, RunBeginKeeps
  <1>3. ASSUME NEW q \in Requests, UNCHANGED cut, Handling(q)
        PROVE  IInv'
    <2>1. CASE InsertRun(q)
      <3>1. CASE loop.status = "deleted"
        BY <1>3, <2>1, <3>1, LoopEndKeeps DEF InsertRun
      <3>2. CASE loop.status # "deleted"
        BY <1>3, <2>1, <3>2, InsertKeeps
      <3> QED
        BY <3>1, <3>2
    <2>2. CASE \/ DeductRead(q) \/ DeductCommit(q) \/ RefundRead(q) \/ RefundCommit(q)
      BY <1>3, <2>2, QuotaReadKeeps, DeductKeeps, RefundKeeps
    <2>3. CASE \/ StartCheck(q) \/ LaunchFails(q) \/ Launch(q) \/ MarkRunning(q)
               \/ CallbackFinish(q)
      BY <1>3, <2>3, CheckKeeps, LaunchFailsKeeps, LaunchKeeps, MarkKeeps, FinishKeeps
    <2>4. CASE \/ StartUndo(q) \/ StartFail(q) \/ CallbackHalt(q) \/ CancelWrite(q)
               \/ MarkAgain(q)
      BY <1>3, <2>4, ClosingKeeps
    <2>5. CASE SetTotal(q) \/ CallbackClose(q)
      BY <1>3, <2>5, LoopWriteKeeps
    <2>6. CASE ArchiveLoop(q) \/ StatusWrite(q) \/ QuotaReset(q)
      BY <1>3, <2>6, LoopEndKeeps
    <2> QED
      BY <1>3, <2>1, <2>2, <2>3, <2>4, <2>5, <2>6 DEF Handling
  <1>4. ASSUME UNCHANGED cut,
               (\E r \in Runs : Stalls(r)) \/ CompleteLoop \/ UpdateLoop \/ DeleteLoop
        PROVE  IInv'
    BY <1>4, StallKeeps, LoopKeeps
  <1>5. ASSUME NEW q \in Requests, Crash(q)
        PROVE  IInv'
    BY <1>5, CrashKeeps
  <1> QED
    BY <1>1, <1>2, <1>3, <1>4, <1>5 DEF Next

LEMMA Invariance == Spec => []IInv
  <1>1. Init => IInv
    BY InitOK
  <1>2. IInv /\ [Next]_vars => IInv'
    BY StepOK
  <1> QED
    BY <1>1, <1>2, PTL DEF Spec

\* Whatever handlers race and wherever they die, no deduction overdraws the
\* quota, and no run is numbered beyond the loop's limit.
THEOREM TypeCorrect == Spec => []TypeOK
  <1>1. IInv => TypeOK
    BY DEF IInv
  <1> QED
    BY <1>1, Invariance, PTL

\* Whatever handlers race and wherever they die, a run that the worker was
\* called for has been paid for and not refunded, unless its creator died
\* before the charge; and no run is refunded more often than it was charged.
THEOREM RunsArePaidFor == Spec => []StartedRunsArePaid
  <1>1. IInv => StartedRunsArePaid
    <2> SUFFICES ASSUME IInv, NEW r \in Runs
                 PROVE  paid[r] >= 0 /\ (r \in launched \ cut => paid[r] > 0)
      BY DEF StartedRunsArePaid
    <2>1. Cardinality(Payers(r)) \in Nat /\ paid[r] \in Int /\ Covered(r)
      BY PayersFinite DEF IInv, TypeOK
    <2>2. r \in launched \ cut => Owed(r)
      BY DEF Owed
    <2> QED
      BY <2>1, <2>2 DEF Covered
  <1> QED
    BY <1>1, Invariance, PTL

\* A transaction that commits over what it has read moves the balance and the
\* events by the same amount.
LEMMA LedgerStep ==
  ASSUME IInv, [Next]_vars
  PROVE  Balance(quota') - ledger' = Balance(quota) - ledger \/ LostUpdate
  <1>0. quota \in Quotas /\ ledger \in Int /\ quota.monthly \in Nat /\ quota.extra \in Nat
    BY DEF IInv, TypeOK, Quotas
  <1>1. CASE UNCHANGED <<quota, ledger>>
    BY <1>1
  <1>2. ASSUME NEW q \in Requests, DeductCommit(q)
        PROVE  Balance(quota') - ledger' = Balance(quota) - ledger \/ LostUpdate
    <2>1. CASE req[q].held = quota
      <3>1. CASE EventAllowed(req[q].run)
        <4>1. quota' = Deducted(quota) /\ ledger' = ledger - 1
          BY <1>2, <2>1, <3>1 DEF DeductCommit
        <4> QED
          BY <1>0, <4>1 DEF Deducted, Balance, Quotas
      <3>2. CASE ~EventAllowed(req[q].run)
        BY <1>1, <1>2, <3>2 DEF DeductCommit
      <3> QED
        BY <3>1, <3>2
    <2>2. CASE req[q].held # quota
      <3>1. req[q].pc = "charge"
        BY <1>2 DEF DeductCommit, At
      <3>2. req'[q].pc \notin {"charge", "credit"}
        <4>1. req[q].op \in {"start", "callback", "rerun"}
          BY <3>1, Own DEF CallOK
        <4>2. PICK pc \in {"credential", "undo", "halt", "idle"} : Goto(q, pc)
          BY <1>2 DEF DeductCommit, Unpaid
        <4>3. CASE pc = "idle"
          BY <4>2, <4>3, Returned, NoCallType DEF Goto, IInv
        <4>4. CASE pc # "idle"
          BY <4>2, <4>4, Went DEF IInv, Points
        <4> QED
          BY <4>3, <4>4
      <3> QED
        BY <2>2, <3>1, <3>2 DEF LostUpdate
    <2> QED
      BY <2>1, <2>2
  <1>3. ASSUME NEW q \in Requests, RefundCommit(q)
        PROVE  Balance(quota') - ledger' = Balance(quota) - ledger \/ LostUpdate
    <2>1. CASE req[q].held = quota
      <3>1. CASE EventAllowed(req[q].run)
        <4>1. quota' = [quota EXCEPT !.extra = quota.extra + 1] /\ ledger' = ledger + 1
          BY <1>3, <2>1, <3>1 DEF RefundCommit
        <4> QED
          BY <1>0, <4>1 DEF Balance, Quotas
      <3>2. CASE ~EventAllowed(req[q].run)
        BY <1>1, <1>3, <3>2 DEF RefundCommit
      <3> QED
        BY <3>1, <3>2
    <2>2. CASE req[q].held # quota
      <3>1. req[q].pc = "credit"
        BY <1>3 DEF RefundCommit, At
      <3>2. PICK pc \in {"fail", "idle"} : Goto(q, pc)
        BY <1>3 DEF RefundCommit
      <3>3. CASE pc = "idle"
        BY <2>2, <3>1, <3>2, <3>3, Returned, NoCallType DEF Goto, IInv, LostUpdate
      <3>4. CASE pc # "idle"
        BY <2>2, <3>1, <3>2, <3>4, Went DEF IInv, Points, LostUpdate
      <3> QED
        BY <3>3, <3>4
    <2> QED
      BY <2>1, <2>2
  <1>4. ASSUME NEW q \in Requests, QuotaReset(q)
        PROVE  Balance(quota') - ledger' = Balance(quota) - ledger
    <2>1. /\ quota' = [quota EXCEPT !.monthly = MonthlyRuns]
          /\ ledger' = ledger + MonthlyRuns - quota.monthly
      BY <1>4 DEF QuotaReset
    <2> QED
      BY <1>0, <2>1, BoundsAssumption DEF Balance, Quotas
  <1>5. CASE /\ \A q \in Requests : ~DeductCommit(q) /\ ~RefundCommit(q) /\ ~QuotaReset(q)
    <2>1. ASSUME NEW q \in Requests, Handling(q)
          PROVE  UNCHANGED <<quota, ledger>>
      BY <1>5, <2>1 DEF Handling, InsertRun, DeductRead, StartUndo, StartCheck, LaunchFails,
         Launch, MarkRunning, MarkAgain, SetTotal, RefundRead, StartFail, CallbackFinish,
         CallbackClose, CallbackHalt, CancelWrite, ArchiveLoop, StatusWrite, KeepQuota
    <2>2. ASSUME NEW q \in Requests,
                 \/ StartBegin(q) \/ ArchiveRuns(q) \/ QuotaRead(q) \/ Crash(q)
                 \/ \E r \in Runs : RestartBegin(q, r) \/ CallbackBegin(q, r) \/ CancelBegin(q, r)
                 \/ \E goal \in {"active", "paused"} : StatusBegin(q, goal)
          PROVE  UNCHANGED <<quota, ledger>>
      BY <2>2 DEF StartBegin, ArchiveRuns, QuotaRead, Crash, RestartBegin, CallbackBegin,
         CancelBegin, StatusBegin, KeepQuota
    <2>3. (\E r \in Runs : Stalls(r)) \/ CompleteLoop \/ UpdateLoop \/ DeleteLoop
            => UNCHANGED <<quota, ledger>>
      BY DEF Stalls, CompleteLoop, UpdateLoop, DeleteLoop, KeepQuota
    <2>4. UNCHANGED vars => UNCHANGED <<quota, ledger>>
      BY DEF vars
    <2> QED
      BY <1>1, <2>1, <2>2, <2>3, <2>4 DEF Next
  <1> QED
    BY <1>2, <1>3, <1>4, <1>5

\* Whatever handlers race and wherever they die, the quota and the record of
\* events part only at a commit over a quota that has changed since its read.
THEOREM LedgerFollowsQuota == Spec => LedgerLosesToOverlapOnly
  <1>1. IInv /\ [Next]_vars =>
          [Balance(quota') - ledger' = Balance(quota) - ledger \/ LostUpdate]_vars
    BY LedgerStep
  <1> QED
    BY <1>1, Invariance, PTL DEF Spec, LedgerLosesToOverlapOnly
=============================================================================
