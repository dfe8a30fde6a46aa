------------------------------ MODULE AgentRun ------------------------------
(***************************************************************************)
(* The agent runs of one workspace: the rows of `agent_run`, the handlers  *)
(* that create, reconcile and cancel them, and the OpenCode server in the  *)
(* workspace, whose sessions and messages the rows refer to.               *)
(*                                                                         *)
(* A handler reads a row, talks to the OpenCode server, and writes the row *)
(* under a condition on its status; `req` holds the invocations in flight. *)
(* A run is identified by its idempotency key, which is unique in its      *)
(* workspace.  Status "running" also stands for "retrying": every          *)
(* condition treats the two alike.  Waiting for the setup and checking the *)
(* model credential precede the first write and are left out.              *)
(*                                                                         *)
(* An operator whose name ends in _Bug is no part of the model: it is the  *)
(* operator after it with a plausible mistake, and PROJECT.json says which *)
(* property catches it.                                                    *)
(***************************************************************************)
EXTENDS Naturals, FiniteSets

CONSTANTS
  Keys,       \* idempotency keys; a bound on the runs of the workspace
  Sessions,   \* bound: sessions that the OpenCode server can hand out
  Requests,   \* handler invocations that may be in flight at once
  CanCrash,   \* may an API process die in the middle of a handler?
  CanStop     \* may the workspace be paused and resumed?

NoRun == "no run"
NoSession == "no session"

ASSUME KeysAssumption == NoRun \notin Keys
ASSUME SessionsAssumption == NoSession \notin Sessions
ASSUME FlagsAssumption == CanCrash \in BOOLEAN /\ CanStop \in BOOLEAN

VARIABLES
  run,      \* the rows, "absent" before the insert
  native,   \* the server's sessions: "unused", "open" or "deleted"
  sent,     \* the session that a run's prompt was sent to
  work,     \* what became of a run's message in that session
  up,       \* workspace.status = "running", and the server answers
  req       \* the handler invocations

vars == <<run, native, sent, work, up, req>>

-----------------------------------------------------------------------------
ActiveStatuses == {"pending", "running"}
TerminalStatuses == {"completed", "failed", "cancelled"}
Statuses == {"absent"} \cup ActiveStatuses \cup TerminalStatuses

Rows == [status  : Statuses,
         session : Sessions \cup {NoSession},
         parent  : Keys \cup {NoRun}]

NoRow == [status |-> "absent", session |-> NoSession, parent |-> NoRun]

\* "none": there is no answer.  "cut": the server died in the middle of one.
WorkStates == {"none", "working", "done", "failed", "aborted", "cut"}

Points == {"idle", "context", "insert", "native", "claim", "submit", "check",
           "stop", "delete", "unset", "fail", "lost", "fetch", "write",
           "abort", "record"}

\* What an invocation remembers: of createAgentRun its arguments, its
\* session, whether it made that session and whether it is in its catch
\* block; of the others the session they read and the verdict they reached.
Calls == [pc      : Points,
          key     : Keys \cup {NoRun},
          parent  : Keys \cup {NoRun},
          session : Sessions \cup {NoSession},
          owns    : BOOLEAN,
          failing : BOOLEAN,
          verdict : {"none", "reusable"} \cup Statuses]

NoCall == [pc |-> "idle", key |-> NoRun, parent |-> NoRun,
           session |-> NoSession, owns |-> FALSE, failing |-> FALSE,
           verdict |-> "none"]

Init ==
  /\ run = [k \in Keys |-> NoRow]
  /\ native = [s \in Sessions |-> "unused"]
  /\ sent = [k \in Keys |-> NoSession]
  /\ work = [k \in Keys |-> "none"]
  /\ up = TRUE
  /\ req = [r \in Requests |-> NoCall]

Active(k) == run[k].status \in ActiveStatuses
Terminal(k) == run[k].status \in TerminalStatuses
Quiet == \A r \in Requests : req[r] = NoCall

At(r, pc) == req[r].pc = pc
Goto(r, pc) == req' = [req EXCEPT ![r].pc = pc]
Return(r) == req' = [req EXCEPT ![r] = NoCall]

-----------------------------------------------------------------------------
(* The OpenCode server.                                                    *)

Busy(s) == \E k \in Keys : sent[k] = s /\ work[k] = "working"

\* The sessions S stop working, some before they have begun an answer.
Interrupted(S, answer) ==
  \E w \in {answer, "none"} :
    work' = [k \in Keys |-> IF sent[k] \in S /\ work[k] = "working" THEN w ELSE work[k]]

\* session.abort stops whatever the session is doing; session.delete too.
Abort(s) ==
  up /\ native[s] = "open" /\ Interrupted({s}, "aborted") /\ UNCHANGED native

DeleteSession(s) ==
  /\ up /\ native[s] = "open"
  /\ native' = [native EXCEPT ![s] = "deleted"]
  /\ Interrupted({s}, "aborted")

Untouched == UNCHANGED <<native, work>>

\* Takes the state of the message for the status of the run.
NativeVerdicts_Bug(k, s) == IF Busy(s) THEN {"running"} ELSE {work[k]}

\* getOpencodeRun and mapOpencodeRunStatus.  A message nobody answered counts
\* as failed once MISSING_ASSISTANT_GRACE_MS have passed.
NativeVerdicts(k, s) ==
  IF work[k] = "aborted" THEN {"cancelled"}
  ELSE IF work[k] = "failed" THEN {"failed"}
  ELSE IF Busy(s) \/ work[k] = "cut" THEN {"running"}
  ELSE IF work[k] = "done" THEN {"completed"}
  ELSE {"running", "failed"}

WorkEnds(k) ==
  /\ up /\ work[k] = "working"
  /\ \E outcome \in {"done", "failed"} : work' = [work EXCEPT ![k] = outcome]
  /\ UNCHANGED <<run, native, sent, up, req>>

\* A pause freezes the server's processes or kills them.
WorkspaceStops ==
  /\ CanStop /\ up
  /\ up' = FALSE
  /\ work' = work \/ Interrupted(Sessions, "cut")
  /\ UNCHANGED <<run, native, sent, req>>

WorkspaceStarts ==
  /\ ~up
  /\ up' = TRUE
  /\ UNCHANGED <<run, native, sent, work, req>>

-----------------------------------------------------------------------------
(* reconcileRun, the body of getAgentRun, getAgentRunMessages and of       *)
(* createAgentRun for a key that is in use.                                *)

\* What reconcileRun does first with the row of k, which is active.
Reconciles(r, k) ==
  \E pc \in {"fail", "lost", "fetch"} :
    /\ pc = "fail" <=> run[k].status = "pending"           \* abandoned
    /\ pc = "lost" <=> run[k].status # "pending" /\ (~up \/ run[k].session = NoSession)
    /\ req' = [req EXCEPT ![r] = [NoCall EXCEPT !.pc = pc, !.key = k,
                                                !.session = run[k].session]]

Poll(r, k) ==
  /\ req[r] = NoCall /\ Active(k)
  /\ Reconciles(r, k)
  /\ UNCHANGED <<run, native, sent, work, up>>

\* getOpencodeRun throws for a server or a session that is not there.
PollFetch(r) ==
  /\ At(r, "fetch")
  /\ LET k == req[r].key
         s == req[r].session
     IN  \/ /\ up /\ native[s] = "open"
            /\ \E v \in NativeVerdicts(k, s) :
                 req' = [req EXCEPT ![r].pc = "write", ![r].verdict = v]
         \/ (~up \/ native[s] # "open") /\ Return(r)
  /\ UNCHANGED <<run, native, sent, work, up>>

\* Every verdict is written to an active row only.
Settle(k, status) ==
  run' = IF Active(k) THEN [run EXCEPT ![k].status = status] ELSE run

\* Writes whatever it has fetched.
PollWrite_Bug(r) ==
  /\ At(r, "write")
  /\ run' = [run EXCEPT ![req[r].key].status = req[r].verdict]
  /\ Return(r)
  /\ UNCHANGED <<native, sent, work, up>>

PollWrite(r) ==
  /\ At(r, "write")
  /\ Settle(req[r].key, req[r].verdict)
  /\ Return(r)
  /\ UNCHANGED <<native, sent, work, up>>

\* "Workspace stopped before the run completed".
PollLost(r) ==
  /\ At(r, "lost")
  /\ Settle(req[r].key, "cancelled")
  /\ Return(r)
  /\ UNCHANGED <<native, sent, work, up>>

\* failRun, here and in createAgentRun.
FailRun(r) ==
  /\ At(r, "fail")
  /\ Settle(req[r].key, "failed")
  /\ Return(r)
  /\ UNCHANGED <<native, sent, work, up>>

-----------------------------------------------------------------------------
(* createAgentRun.                                                         *)

CreateBegin(r, k, p) ==
  /\ req[r] = NoCall /\ up /\ run[k] = NoRow /\ p # k
  /\ req' = [req EXCEPT ![r] = [NoCall EXCEPT !.pc = "context", !.key = k,
                                              !.parent = p]]
  /\ UNCHANGED <<run, native, sent, work, up>>

\* Also a run that has not finished is continued.
Continuable_Bug(p) == run[p].session # NoSession

\* A continued run must be over, and have a session to share.
Continuable(p) == Terminal(p) /\ run[p].session # NoSession

CreateContext(r) ==
  /\ At(r, "context")
  /\ LET p == req[r].parent
     IN  IF p = NoRun THEN Goto(r, "insert")
         ELSE IF Continuable(p)
         THEN req' = [req EXCEPT ![r].pc = "insert",
                                 ![r].session = run[p].session]
         ELSE Return(r)
  /\ UNCHANGED <<run, native, sent, work, up>>

Continued(p) == p # NoRun /\ \E j \in Keys : run[j].parent = p

\* Looks for another continuation of the parent, but not for the key.
InsertableKey_Bug(k, p) == ~Continued(p)

\* ON CONFLICT DO NOTHING, over the unique indices on the key and the parent.
Insertable(k, p) == run[k] = NoRow /\ ~Continued(p)

CreateInsert(r) ==
  /\ At(r, "insert")
  /\ LET k == req[r].key
         p == req[r].parent
         s == req[r].session
     IN  IF Insertable(k, p)
         THEN /\ run' = [run EXCEPT ![k] = [status |-> "pending", session |-> s,
                                            parent |-> p]]
              /\ Goto(r, IF s = NoSession THEN "native" ELSE "claim")
         ELSE /\ run' = run
              /\ IF run[k].parent = p /\ Active(k) THEN Reconciles(r, k)
                 ELSE Return(r)
  /\ UNCHANGED <<native, sent, work, up>>

\* createOpencodeSession; one that throws may have made the session.
CreateNative(r) ==
  /\ At(r, "native")
  /\ \/ /\ up
        /\ \E s \in Sessions :
             /\ native[s] = "unused"
             /\ native' = [native EXCEPT ![s] = "open"]
             /\ \/ req' = [req EXCEPT ![r].pc = "claim", ![r].session = s,
                                      ![r].owns = TRUE]
                \/ Goto(r, "fail")
     \/ native' = native /\ Goto(r, "fail")
  /\ UNCHANGED <<run, sent, work, up>>

\* Only a row that is still pending is submitted.
CreateClaim(r) ==
  /\ At(r, "claim")
  /\ LET k == req[r].key
     IN  IF run[k].status = "pending"
         THEN /\ run' = [run EXCEPT ![k].status = "running",
                                    ![k].session = req[r].session]
              /\ Goto(r, "submit")
         ELSE /\ run' = run
              /\ IF req[r].owns THEN Goto(r, "stop") ELSE Return(r)
  /\ UNCHANGED <<native, sent, work, up>>

\* Tidies up and forgets to fail the run.
Catch_Bug(r) == req' = [req EXCEPT ![r].pc = "stop"]

Catch(r) == req' = [req EXCEPT ![r].pc = "stop", ![r].failing = TRUE]

\* submitOpencodePrompt; one that throws may have been accepted.
CreateSubmit(r) ==
  /\ At(r, "submit")
  /\ LET k == req[r].key
         s == req[r].session
     IN  \/ /\ up /\ native[s] = "open"
            /\ sent' = [sent EXCEPT ![k] = s]
            /\ work' = [work EXCEPT ![k] = "working"]
            /\ Goto(r, "check") \/ Catch(r)
         \/ UNCHANGED <<sent, work>> /\ Catch(r)
  /\ UNCHANGED <<run, native, up>>

\* The run may have been cancelled or failed while its prompt was under way.
CreateCheck(r) ==
  /\ At(r, "check")
  /\ IF Active(req[r].key) THEN Return(r) ELSE Goto(r, "stop")
  /\ UNCHANGED <<run, native, sent, work, up>>

\* cancelNativeRun and deleteNativeSession: their errors are swallowed.
CreateStop(r) ==
  /\ At(r, "stop")
  /\ Abort(req[r].session) \/ Untouched
  /\ IF req[r].owns THEN Goto(r, "delete")
     ELSE IF req[r].failing THEN Goto(r, "fail")
     ELSE Return(r)
  /\ UNCHANGED <<run, sent, up>>

CreateDelete(r) ==
  /\ At(r, "delete")
  /\ DeleteSession(req[r].session) \/ Untouched
  /\ IF req[r].failing THEN Goto(r, "unset") ELSE Return(r)
  /\ UNCHANGED <<run, sent, up>>

CreateUnset(r) ==
  /\ At(r, "unset")
  /\ run' = [run EXCEPT ![req[r].key].session = NoSession]
  /\ Goto(r, "fail")
  /\ UNCHANGED <<native, sent, work, up>>

-----------------------------------------------------------------------------
(* cancelAgentRun; finalizeWorkspaceAgentRuns is one call for each run     *)
(* that is active.                                                         *)

Cancel(r, k) ==
  /\ req[r] = NoCall /\ Active(k)
  /\ \E pc \in {"abort", "record"} :
       /\ pc = "abort" <=> run[k].session # NoSession /\ up
       /\ req' = [req EXCEPT ![r] = [NoCall EXCEPT !.pc = pc, !.key = k,
                                                   !.session = run[k].session]]
  /\ UNCHANGED <<run, native, sent, work, up>>

CancelAbort(r) ==
  /\ At(r, "abort")
  /\ \/ /\ Abort(req[r].session)
        /\ req' = [req EXCEPT ![r].pc = "record", ![r].verdict = "reusable"]
     \/ (Abort(req[r].session) \/ Untouched) /\ Goto(r, "record")
     \/ ~up /\ Untouched /\ Return(r)        \* getRuntimeTarget throws
  /\ UNCHANGED <<run, sent, up>>

CancelRecord(r) ==
  /\ At(r, "record")
  /\ LET k == req[r].key
     IN  run' = IF Active(k)
                THEN [run EXCEPT ![k].status = "cancelled",
                                 ![k].session = IF req[r].verdict = "reusable"
                                                THEN req[r].session ELSE NoSession]
                ELSE run
  /\ Return(r)
  /\ UNCHANGED <<native, sent, work, up>>

\* The process serving an invocation dies.
Crash(r) ==
  /\ CanCrash /\ req[r] # NoCall
  /\ Return(r)
  /\ UNCHANGED <<run, native, sent, work, up>>

-----------------------------------------------------------------------------
Creating(r) ==
  \/ CreateContext(r) \/ CreateInsert(r) \/ CreateNative(r) \/ CreateClaim(r)
  \/ CreateSubmit(r) \/ CreateCheck(r) \/ CreateStop(r) \/ CreateDelete(r)
  \/ CreateUnset(r) \/ FailRun(r)

Polling(r) == PollFetch(r) \/ PollWrite(r) \/ PollLost(r)

Cancelling(r) == CancelAbort(r) \/ CancelRecord(r)

Server ==
  \/ \E k \in Keys : WorkEnds(k)
  \/ WorkspaceStops \/ WorkspaceStarts

Next ==
  \/ Server
  \/ \E r \in Requests :
       \/ Creating(r) \/ Polling(r) \/ Cancelling(r) \/ Crash(r)
       \/ \E k \in Keys : Poll(r, k) \/ Cancel(r, k)
       \/ \E k \in Keys, p \in Keys \cup {NoRun} : CreateBegin(r, k, p)

Spec == Init /\ [][Next]_vars

-----------------------------------------------------------------------------
(* Fairness.  A handler that has begun goes on; a message the model answers *)
(* is answered; the client waits for its run, and so asks for it again and  *)
(* again, also after MISSING_ASSISTANT_GRACE_MS.                            *)

PollsToTheEnd(r, k) ==
  req[r].key = k /\ PollFetch(r) /\ req'[r].verdict \in TerminalStatuses

Fairness ==
  /\ \A r \in Requests : WF_vars(Creating(r) \/ Polling(r) \/ Cancelling(r))
  /\ \A k \in Keys :
       /\ WF_vars(WorkEnds(k))
       /\ SF_vars(\E r \in Requests : Poll(r, k))
       /\ SF_vars(\E r \in Requests : PollsToTheEnd(r, k))

FairSpec == Spec /\ Fairness

-----------------------------------------------------------------------------
(* Properties.                                                             *)

\* The rows, the server's records and the invocations have their shapes.
TypeOK ==
  /\ run \in [Keys -> Rows]
  /\ native \in [Sessions -> {"unused", "open", "deleted"}]
  /\ sent \in [Keys -> Sessions \cup {NoSession}]
  /\ work \in [Keys -> WorkStates]
  /\ up \in BOOLEAN
  /\ req \in [Requests -> Calls]

\* Two runs that have not finished never share a session, however the calls
\* that create, continue, cancel and reconcile them interleave: the parent is
\* read long before the row that continues it is inserted.
SequentialRuns ==
  \A j, k \in Keys :
    j # k /\ Active(j) /\ Active(k) /\ run[j].session # NoSession
      => run[j].session # run[k].session

\* Calls of createAgentRun with one idempotency key submit one prompt: a run
\* that was prompted is not prompted again, there or in another session.
PromptedOnce ==
  [][\A k \in Keys :
       sent[k] # NoSession =>
         /\ sent'[k] = sent[k]
         /\ work[k] # "working" => work'[k] # "working"]_vars

Ledger == INSTANCE RunLedger WITH
  Runs <- Keys, Contexts <- Sessions, None <- NoSession,
  status <- [k \in Keys |-> run[k].status],
  context <- [k \in Keys |-> run[k].session]

\* Every write to a row, a late one too, is a step that the abstract ledger of
\* runs allows: no finished run is revived, restarted or finished twice, and
\* none takes a context that an unfinished run holds.
ImplementsLedger == Ledger!Spec

\* While the workspace and the API stay up, an isolated run that its client
\* waits for finishes, whichever calls raced with its creation.
IsolatedRunsSettle ==
  \A k \in Keys : (Active(k) /\ run[k].parent = NoRun) ~> Terminal(k)

(* What the documentation says, and the code does not do.                  *)

\* Runs that share a session are prompted one after the other: no prompt is
\* submitted to a session that is at work on another one.
PromptsAreSequential ==
  [][\A j, k \in Keys :
       j # k /\ sent[j] # NoSession /\ sent[j] = sent'[k]
         => ~(work[j] = "working" /\ work'[j] = "working"
              /\ work[k] # "working" /\ work'[k] = "working")]_vars

\* A finished run that has a session can be continued: the session is there.
ReusableContextExists ==
  \A k \in Keys :
    Quiet /\ Terminal(k) /\ run[k].session # NoSession
      => native[run[k].session] = "open"

\* Once a run is recorded as cancelled and all calls have returned, the agent
\* has stopped working on it.
CancelledRunIsStopped ==
  \A k \in Keys : Quiet /\ run[k].status = "cancelled" => work[k] # "working"

=============================================================================
