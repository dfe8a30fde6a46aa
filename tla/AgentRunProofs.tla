--------------------------- MODULE AgentRunProofs ---------------------------
(***************************************************************************)
(* Proofs about AgentRun, for any number of keys, sessions and invocations *)
(* and with crashes and pauses: two unfinished runs never share a session, *)
(* the rows implement RunLedger, and a run is prompted once.               *)
(*                                                                         *)
(* SequentialRuns is not inductive: the session of a continued run passes  *)
(* through invocations, which hold it while rows change and may write it   *)
(* later.  The invariant therefore speaks of every run that holds a        *)
(* session or that an invocation may still give it back to, and says that  *)
(* at most one of those that share a session has not been continued.       *)
(***************************************************************************)
EXTENDS AgentRun, TLAPS

\* A call that begins, moves or returns keeps the shape of the invocations.
LEMMA CallType ==
  ASSUME req \in [Requests -> Calls], NEW r \in Requests, NEW c \in Calls
  PROVE  [req EXCEPT ![r] = c] \in [Requests -> Calls]
  OBVIOUS

\* No invocation and no row, and the records that differ from them in a field,
\* have the right shape.
LEMMA BeginType ==
  ASSUME NEW pc \in Points, NEW k \in Keys, NEW p \in Keys \cup {NoRun},
         NEW s \in Sessions \cup {NoSession}
  PROVE  /\ NoCall \in Calls
         /\ NoRow \in Rows
         /\ [NoCall EXCEPT !.pc = pc, !.key = k, !.parent = p] \in Calls
         /\ [NoCall EXCEPT !.pc = pc, !.key = k, !.session = s] \in Calls
  BY DEF NoCall, Calls, NoRow, Rows, Points, Statuses

\* Goto and Return keep the shape of the invocations.
LEMMA GotoType ==
  ASSUME req \in [Requests -> Calls], NEW r \in Requests, NEW pc \in Points,
         Goto(r, pc)
  PROVE  req' \in [Requests -> Calls]
  <1>1. [req[r] EXCEPT !.pc = pc] \in Calls
    BY DEF Calls
  <1> QED
    BY <1>1 DEF Goto

\* So does Return.
LEMMA ReturnType ==
  ASSUME req \in [Requests -> Calls], NEW r \in Requests, Return(r)
  PROVE  req' \in [Requests -> Calls]
  <1>1. NoCall \in Calls
    BY DEF NoCall, Calls, Points
  <1> QED
    BY <1>1 DEF Return

\* So does the first step of reconcileRun.
LEMMA ReconcileType ==
  ASSUME TypeOK, NEW r \in Requests, NEW k \in Keys, Reconciles(r, k)
  PROVE  req' \in [Requests -> Calls]
  <1>1. run[k].session \in Sessions \cup {NoSession}
    BY DEF TypeOK, Rows
  <1>2. PICK pc \in {"fail", "lost", "fetch"} :
          req' = [req EXCEPT ![r] = [NoCall EXCEPT !.pc = pc, !.key = k,
                                                   !.session = run[k].session]]
    BY DEF Reconciles
  <1>3. pc \in Points
    BY DEF Points
  <1> QED
    BY <1>1, <1>2, <1>3, BeginType, CallType DEF TypeOK

\* A verdict keeps the shape of the rows.
LEMMA SettleType ==
  ASSUME TypeOK, NEW k, NEW status \in Statuses, Settle(k, status)
  PROVE  run' \in [Keys -> Rows]
  BY DEF TypeOK, Settle, Rows

\* Stopping a session keeps the shape of the messages' states.
LEMMA WorkType ==
  ASSUME TypeOK, NEW S, NEW answer \in WorkStates, Interrupted(S, answer)
  PROVE  work' \in [Keys -> WorkStates]
  <1>1. PICK w \in {answer, "none"} :
          work' = [k \in Keys |-> IF sent[k] \in S /\ work[k] = "working"
                                  THEN w ELSE work[k]]
    BY DEF Interrupted
  <1>2. w \in WorkStates
    BY DEF WorkStates
  <1> QED
    BY <1>1, <1>2 DEF TypeOK

-----------------------------------------------------------------------------
(* TypeOK.                                                                 *)

\* The steps of an invocation that write no row and stop no message.
LEMMA QuietType ==
  ASSUME TypeOK, NEW r \in Requests,
         \/ CreateContext(r) \/ CreateCheck(r) \/ PollFetch(r) \/ Crash(r)
         \/ \E k \in Keys : Poll(r, k) \/ Cancel(r, k)
         \/ \E k \in Keys, p \in Keys \cup {NoRun} : CreateBegin(r, k, p)
  PROVE  TypeOK'
  <1> USE DEF TypeOK
  <1>1. CASE CreateContext(r)
    <2>1. CASE Goto(r, "insert")
      BY <1>1, <2>1, GotoType DEF CreateContext, Continuable, Points
    <2>2. CASE Return(r)
      BY <1>1, <2>2, ReturnType DEF CreateContext, Continuable
    <2>3. CASE /\ req[r].parent # NoRun /\ Terminal(req[r].parent)
               /\ req' = [req EXCEPT ![r].pc = "insert",
                                    ![r].session = run[req[r].parent].session]
      <3>1. run[req[r].parent].session \in Sessions \cup {NoSession}
        BY <2>3 DEF Calls, Rows
      <3>2. [req[r] EXCEPT !.pc = "insert",
                           !.session = run[req[r].parent].session] \in Calls
        BY <3>1, ZenonT(30) DEF Calls, Points
      <3> QED
        BY <1>1, <2>3, <3>2 DEF CreateContext, Continuable
    <2> QED
      BY <1>1, <2>1, <2>2, <2>3 DEF CreateContext, Continuable
  <1>2. CASE CreateCheck(r)
    BY <1>2, GotoType, ReturnType DEF CreateCheck, Points
  <1>3. CASE PollFetch(r)
    <2>1. CASE Return(r)
      BY <1>3, <2>1, ReturnType DEF PollFetch
    <2>2. CASE \E v \in NativeVerdicts(req[r].key, req[r].session) :
                 req' = [req EXCEPT ![r].pc = "write", ![r].verdict = v]
      <3>1. PICK v \in NativeVerdicts(req[r].key, req[r].session) :
              req' = [req EXCEPT ![r].pc = "write", ![r].verdict = v]
        BY <2>2
      <3>2. v \in Statuses
        BY <3>1 DEF NativeVerdicts, Statuses, ActiveStatuses, TerminalStatuses
      <3>3. [req[r] EXCEPT !.pc = "write", !.verdict = v] \in Calls
        BY <3>2, ZenonT(30) DEF Calls, Points
      <3> QED
        BY <1>3, <3>1, <3>3 DEF PollFetch
    <2> QED
      BY <1>3, <2>1, <2>2 DEF PollFetch
  <1>4. CASE Crash(r)
    BY <1>4, ReturnType DEF Crash
  <1>5. ASSUME NEW k \in Keys, Poll(r, k)
        PROVE  TypeOK'
    BY <1>5, ReconcileType DEF Poll
  <1>6. ASSUME NEW k \in Keys, Cancel(r, k)
        PROVE  TypeOK'
    <2>1. run[k].session \in Sessions \cup {NoSession}
      BY DEF Rows
    <2>2. PICK pc \in {"abort", "record"} :
            req' = [req EXCEPT ![r] = [NoCall EXCEPT !.pc = pc, !.key = k,
                                                     !.session = run[k].session]]
      BY <1>6 DEF Cancel
    <2>3. pc \in Points
      BY DEF Points
    <2> QED
      BY <1>6, <2>1, <2>2, <2>3, BeginType, CallType DEF Cancel
  <1>7. ASSUME NEW k \in Keys, NEW p \in Keys \cup {NoRun}, CreateBegin(r, k, p)
        PROVE  TypeOK'
    <2>1. "context" \in Points
      BY DEF Points
    <2> QED
      BY <1>7, <2>1, BeginType, CallType DEF CreateBegin
  <1> QED
    BY <1>1, <1>2, <1>3, <1>4, <1>5, <1>6, <1>7

\* The steps that record a verdict.
LEMMA VerdictType ==
  ASSUME TypeOK, NEW r \in Requests,
         \/ PollWrite(r) /\ req[r].verdict \in Statuses
         \/ PollLost(r) \/ FailRun(r)
  PROVE  TypeOK'
  <1>1. CASE PollWrite(r) /\ req[r].verdict \in Statuses
    BY <1>1, SettleType, ReturnType DEF PollWrite, TypeOK
  <1>2. "cancelled" \in Statuses /\ "failed" \in Statuses
    BY DEF Statuses, TerminalStatuses
  <1>3. CASE PollLost(r) \/ FailRun(r)
    BY <1>2, <1>3, SettleType, ReturnType DEF PollLost, FailRun, TypeOK
  <1> QED
    BY <1>1, <1>3

\* The steps of createAgentRun and cancelAgentRun that write a row or talk to
\* the server.
LEMMA CreateType ==
  ASSUME TypeOK, NEW r \in Requests,
         \/ CreateInsert(r) /\ req[r].key \in Keys
         \/ CreateNative(r) \/ CreateClaim(r) \/ CreateSubmit(r)
         \/ CreateStop(r) \/ CreateDelete(r) \/ CreateUnset(r)
         \/ CancelAbort(r) \/ CancelRecord(r)
  PROVE  TypeOK'
  <1> USE DEF TypeOK
  <1>p. \A pc \in {"native", "claim", "submit", "check", "stop", "delete", "unset",
                  "fail", "record"} : pc \in Points
    BY DEF Points
  <1>s. {"pending", "running", "cancelled"} \subseteq Statuses /\ "aborted" \in WorkStates
        /\ "working" \in WorkStates
    BY DEF Statuses, ActiveStatuses, TerminalStatuses, WorkStates
  <1>1. CASE CreateInsert(r) /\ req[r].key \in Keys
    <2> DEFINE k == req[r].key
               p == req[r].parent
               s == req[r].session
    <2>1. CASE Insertable(k, p)
      <3>1. [status |-> "pending", session |-> s, parent |-> p] \in Rows
        BY <1>s DEF Rows, Calls
      <3>2. run' \in [Keys -> Rows]
        BY <1>1, <2>1, <3>1 DEF CreateInsert
      <3>3. req' \in [Requests -> Calls]
        BY <1>1, <2>1, <1>p, GotoType DEF CreateInsert
      <3> QED
        BY <1>1, <3>2, <3>3 DEF CreateInsert
    <2>2. CASE ~Insertable(k, p)
      <3>1. CASE Active(k)
        BY <1>1, <2>2, <3>1, ReconcileType, ReturnType DEF CreateInsert
      <3>2. CASE ~Active(k)
        BY <1>1, <2>2, <3>2, ReturnType DEF CreateInsert
      <3> QED
        BY <3>1, <3>2
    <2> QED
      BY <2>1, <2>2
  <1>2. CASE CreateNative(r)
    <2>1. CASE Goto(r, "fail")
      BY <1>2, <1>p, <2>1, GotoType DEF CreateNative
    <2>2. CASE \E s \in Sessions :
                 /\ native' = [native EXCEPT ![s] = "open"]
                 /\ req' = [req EXCEPT ![r].pc = "claim", ![r].session = s,
                                      ![r].owns = TRUE]
      <3>1. PICK s \in Sessions :
              /\ native' = [native EXCEPT ![s] = "open"]
              /\ req' = [req EXCEPT ![r].pc = "claim", ![r].session = s,
                                   ![r].owns = TRUE]
        BY <2>2
      <3>2. [req[r] EXCEPT !.pc = "claim", !.session = s, !.owns = TRUE] \in Calls
        BY <1>p DEF Calls
      <3> QED
        BY <1>2, <3>1, <3>2 DEF CreateNative
    <2> QED
      BY <1>2, <2>1, <2>2 DEF CreateNative
  <1>3. CASE CreateClaim(r)
    <2>1. req[r].session \in Sessions \cup {NoSession}
      BY DEF Calls
    <2>2. run' \in [Keys -> Rows]
      BY <1>3, <1>s, <2>1 DEF CreateClaim, Rows
    <2> QED
      BY <1>3, <1>p, <2>2, GotoType, ReturnType DEF CreateClaim
  <1>4. CASE CreateSubmit(r)
    <2>1. req[r].session \in Sessions \cup {NoSession}
      BY DEF Calls
    <2>2. sent' \in [Keys -> Sessions \cup {NoSession}] /\ work' \in [Keys -> WorkStates]
      BY <1>4, <1>s, <2>1 DEF CreateSubmit
    <2>3. CASE Goto(r, "check")
      BY <1>4, <1>p, <2>2, <2>3, GotoType DEF CreateSubmit
    <2>4. CASE Catch(r)
      <3>1. [req[r] EXCEPT !.pc = "stop", !.failing = TRUE] \in Calls
        BY <1>p DEF Calls
      <3> QED
        BY <1>4, <2>2, <2>4, <3>1, CallType DEF CreateSubmit, Catch
    <2> QED
      BY <1>4, <2>3, <2>4 DEF CreateSubmit
  <1>5. CASE CreateStop(r)
    <2>1. work' \in [Keys -> WorkStates] /\ UNCHANGED native
      BY <1>5, <1>s, WorkType DEF CreateStop, Abort, Untouched
    <2> QED
      BY <1>5, <1>p, <2>1, GotoType, ReturnType DEF CreateStop
  <1>6. CASE CreateDelete(r)
    <2>1. work' \in [Keys -> WorkStates]
      BY <1>6, <1>s, WorkType DEF CreateDelete, DeleteSession, Untouched
    <2>2. native' \in [Sessions -> {"unused", "open", "deleted"}]
      BY <1>6 DEF CreateDelete, DeleteSession, Untouched
    <2> QED
      BY <1>6, <1>p, <2>1, <2>2, GotoType, ReturnType DEF CreateDelete
  <1>7. CASE CreateUnset(r)
    <2>1. run' \in [Keys -> Rows]
      BY <1>7 DEF CreateUnset, Rows
    <2> QED
      BY <1>7, <1>p, <2>1, GotoType DEF CreateUnset
  <1>8. CASE CancelAbort(r)
    <2>1. work' \in [Keys -> WorkStates] /\ UNCHANGED native
      BY <1>8, <1>s, WorkType DEF CancelAbort, Abort, Untouched
    <2>2. [req[r] EXCEPT !.pc = "record", !.verdict = "reusable"] \in Calls
      BY <1>p DEF Calls
    <2>3. req' \in [Requests -> Calls]
      BY <1>8, <1>p, <2>2, CallType, GotoType, ReturnType DEF CancelAbort
    <2> QED
      BY <1>8, <2>1, <2>3 DEF CancelAbort
  <1>9. CASE CancelRecord(r)
    <2>1. req[r].session \in Sessions \cup {NoSession}
      BY DEF Calls
    <2> DEFINE k == req[r].key
               s == IF req[r].verdict = "reusable" THEN req[r].session ELSE NoSession
    <2>2. CASE k \in Keys /\ Active(k)
      <3>1. [run[k] EXCEPT !.status = "cancelled", !.session = s] \in Rows
        BY <1>s, <2>1, <2>2, ZenonT(30) DEF Rows
      <3> QED
        BY <1>9, <2>2, <3>1, ReturnType DEF CancelRecord
    <2>3. CASE k \notin Keys \/ ~Active(k)
      <3>1. run' = run
        BY <1>9, <2>3 DEF CancelRecord
      <3> QED
        BY <1>9, <3>1, ReturnType DEF CancelRecord
    <2> QED
      BY <2>2, <2>3
  <1> QED
    BY <1>1, <1>2, <1>3, <1>4, <1>5, <1>6, <1>7, <1>8, <1>9

\* The steps of the server.
LEMMA ServerType ==
  ASSUME TypeOK, Server
  PROVE  TypeOK'
  <1>1. ASSUME NEW k \in Keys, WorkEnds(k)
        PROVE  TypeOK'
    BY <1>1 DEF TypeOK, WorkEnds, WorkStates
  <1>2. CASE WorkspaceStops
    <2>1. "cut" \in WorkStates
      BY DEF WorkStates
    <2>2. work' \in [Keys -> WorkStates]
      BY <1>2, <2>1, WorkType DEF WorkspaceStops, TypeOK
    <2> QED
      BY <1>2, <2>2 DEF TypeOK, WorkspaceStops
  <1>3. CASE WorkspaceStarts
    BY <1>3 DEF TypeOK, WorkspaceStarts
  <1> QED
    BY <1>1, <1>2, <1>3 DEF Server

-----------------------------------------------------------------------------
(* The inductive invariant.                                                *)

\* What an invocation relies on wherever it is.
CallOK(c) ==
  /\ c.pc # "idle" => c.key \in Keys
  /\ c.pc \notin {"idle", "context", "insert"} => run[c.key].status # "absent"
  /\ c.pc \in {"lost", "fetch", "write"} => run[c.key].status # "pending"
  /\ c.pc = "write" => c.verdict \in {"running"} \cup TerminalStatuses
  /\ c.pc = "context" => c.session = NoSession
  /\ c.pc = "insert" => IF c.parent = NoRun THEN c.session = NoSession
                                          ELSE Terminal(c.parent)
  /\ c.session # NoSession => native[c.session] # "unused"

CallsOK == \A r \in Requests : CallOK(req[r])

RowOK(k) ==
  /\ run[k].status = "absent" => run[k] = NoRow
  /\ run[k].parent # NoRun => Terminal(run[k].parent)
  /\ run[k].session # NoSession => native[run[k].session] # "unused"

RowsOK == \A k \in Keys : RowOK(k)

\* An invocation may yet give s to k, or to a run that continues k.
Claims(r, k, s) ==
  /\ req[r].session = s
  /\ \/ req[r].pc = "insert" /\ req[r].parent = k
     \/ req[r].pc \in {"claim", "abort", "record"} /\ req[r].key = k /\ Active(k)

Member(k, s) == run[k].session = s \/ \E r \in Requests : Claims(r, k, s)

Last(k) == \A j \in Keys : run[j].parent # k

\* Of the runs that share a session, one at most is not continued yet.
OneLast ==
  \A s \in Sessions : \A j, k \in Keys :
    Member(j, s) /\ Member(k, s) /\ Last(j) /\ Last(k) => j = k

IInv == TypeOK /\ CallsOK /\ RowsOK /\ OneLast

\* What every step does to what has been said about rows and sessions: a run
\* does not disappear, or become pending or unfinished again, and a session
\* that was handed out stays so.
Stable ==
  /\ \A k \in Keys :
       /\ run[k].status # "absent" => run'[k].status # "absent"
       /\ run[k].status \notin {"absent", "pending"}
            => run'[k].status \notin {"absent", "pending"}
       /\ Terminal(k) => Terminal(k)'
  /\ \A s \in Sessions : native[s] # "unused" => native'[s] # "unused"

\* An invocation's facts survive every step that leaves it where it is.
LEMMA CallStable ==
  ASSUME TypeOK, Stable, NEW q \in Requests, CallOK(req[q]), req'[q] = req[q]
  PROVE  CallOK(req[q])'
  <1> DEFINE c == req[q]
  <1>1. c.key \in Keys \cup {NoRun} /\ c.parent \in Keys \cup {NoRun}
        /\ c.session \in Sessions \cup {NoSession}
    BY DEF Calls, TypeOK
  <1>2. c' = c
    OBVIOUS
  <1>3. c.pc \notin {"idle", "context", "insert"} => run'[c.key].status # "absent"
    BY <1>1 DEF CallOK, Stable
  <1>4. c.pc \in {"lost", "fetch", "write"} => run'[c.key].status # "pending"
    BY <1>1 DEF CallOK, Stable
  <1>5. c.pc = "insert" /\ c.parent # NoRun => run'[c.parent].status \in TerminalStatuses
    BY <1>1 DEF CallOK, Stable, Terminal
  <1>6. c.session # NoSession => native'[c.session] # "unused"
    BY <1>1 DEF CallOK, Stable
  <1> QED
    BY <1>2, <1>3, <1>4, <1>5, <1>6 DEF CallOK, Terminal

\* A step that changes one invocation preserves the facts of all.
LEMMA CallsStable ==
  ASSUME TypeOK, CallsOK, Stable, NEW r \in Requests,
         \A q \in Requests \ {r} : req'[q] = req[q],
         CallOK(req[r])'
  PROVE  CallsOK'
  <1>1. ASSUME NEW q \in Requests, q # r
        PROVE  CallOK(req[q])'
    BY <1>1, CallStable DEF CallsOK
  <1> QED
    BY <1>1 DEF CallsOK

\* Rows whose parents stay the same and whose sessions are handed out.
LEMMA RowsStable ==
  ASSUME TypeOK, RowsOK, Stable,
         \A k \in Keys :
           /\ run'[k].parent = run[k].parent
           /\ \/ run'[k].session \in {run[k].session, NoSession}
              \/ native'[run'[k].session] # "unused"
           /\ run'[k].status = "absent" => run'[k] = run[k]
  PROVE  RowsOK'
  <1> SUFFICES ASSUME NEW k \in Keys
               PROVE  RowOK(k)'
    BY DEF RowsOK
  <1>1. run[k].session \in Sessions \cup {NoSession} /\ run[k].parent \in Keys \cup {NoRun}
    BY DEF TypeOK, Rows
  <1>2. RowOK(k)
    BY DEF RowsOK
  <1>3. run'[k].status = "absent" => run'[k] = NoRow
    BY <1>2 DEF Stable, RowOK
  <1>4. run'[k].parent # NoRun => run'[run'[k].parent].status \in TerminalStatuses
    BY <1>1, <1>2 DEF Stable, RowOK, Terminal
  <1>5. run'[k].session # NoSession => native'[run'[k].session] # "unused"
    BY <1>1, <1>2 DEF Stable, RowOK
  <1> QED
    BY <1>3, <1>4, <1>5 DEF RowOK, Terminal

\* No step that leaves the parents alone and hands out no session can give a
\* session a second last run.
LEMMA LastStable ==
  ASSUME OneLast,
         \A k \in Keys : run'[k].parent = run[k].parent,
         \A k \in Keys, s \in Sessions : Member(k, s)' => Member(k, s)
  PROVE  OneLast'
  BY DEF OneLast, Last

\* The part of the invariant that is not about types.
Rest == CallsOK /\ RowsOK /\ OneLast

\* The steps of one invocation that write no row, and after which it holds no
\* session that its run did not have.
LEMMA Beside ==
  ASSUME IInv, NEW r \in Requests, run' = run,
         \A s \in Sessions : native[s] # "unused" => native'[s] # "unused",
         \A q \in Requests \ {r} : req'[q] = req[q],
         CallOK(req[r])',
         \A k \in Keys, s \in Sessions : Claims(r, k, s)' => Member(k, s)
  PROVE  Rest'
  <1>1. Stable
    BY DEF Stable, Terminal
  <1>2. CallsOK'
    BY <1>1, CallsStable DEF IInv
  <1>3. RowsOK'
    BY <1>1, RowsStable DEF IInv
  <1>4. \A k \in Keys, s \in Sessions : Member(k, s)' => Member(k, s)
    <2> SUFFICES ASSUME NEW k \in Keys, NEW s \in Sessions, Member(k, s)'
                 PROVE  Member(k, s)
      OBVIOUS
    <2>1. CASE run'[k].session = s
      BY <2>1 DEF Member
    <2>2. ASSUME NEW q \in Requests, q # r, Claims(q, k, s)'
          PROVE  Member(k, s)
      BY <2>2 DEF Member, Claims, Active
    <2> QED
      BY <2>1, <2>2 DEF Member
  <1>5. OneLast'
    BY <1>4, LastStable DEF IInv
  <1> QED
    BY <1>2, <1>3, <1>5 DEF Rest

\* What Goto and Return leave in the place of an invocation.
LEMMA Went ==
  ASSUME TypeOK, NEW r \in Requests, NEW pc \in Points, Goto(r, pc)
  PROVE  /\ \A q \in Requests \ {r} : req'[q] = req[q]
         /\ req'[r].pc = pc
         /\ req'[r].key = req[r].key
         /\ req'[r].parent = req[r].parent
         /\ req'[r].session = req[r].session
         /\ req'[r].verdict = req[r].verdict
  <1>1. req[r] \in Calls
    BY DEF TypeOK
  <1>2. req'[r] = [req[r] EXCEPT !.pc = pc] /\ \A q \in Requests \ {r} : req'[q] = req[q]
    BY DEF TypeOK, Goto
  <1> QED
    BY <1>1, <1>2 DEF Calls

\* A return leaves no invocation.
LEMMA Returned ==
  ASSUME TypeOK, NEW r \in Requests, Return(r)
  PROVE  req'[r] = NoCall /\ \A q \in Requests \ {r} : req'[q] = req[q]
  BY DEF TypeOK, Return

\* Points at which an invocation only finishes what is already decided.
Tidying == {"check", "stop", "delete", "unset", "fail"}

\* An invocation that returns, or goes on to tidy up, writing no row.
LEMMA TidyStep ==
  ASSUME IInv, NEW r \in Requests, run' = run,
         \A s \in Sessions : native[s] # "unused" => native'[s] # "unused",
         \/ Return(r)
         \/ /\ req[r].pc \notin {"idle", "context", "insert"}
            /\ \E pc \in Tidying : Goto(r, pc)
  PROVE  Rest'
  <1>1. CASE Return(r)
    <2>1. req'[r] = NoCall /\ \A q \in Requests \ {r} : req'[q] = req[q]
      BY <1>1, Returned DEF IInv
    <2>2. CallOK(req[r])'
      BY <2>1 DEF CallOK, NoCall
    <2>3. \A k \in Keys, s \in Sessions : ~Claims(r, k, s)'
      BY <2>1 DEF Claims, NoCall
    <2> QED
      BY <2>1, <2>2, <2>3, Beside
  <1>2. CASE /\ req[r].pc \notin {"idle", "context", "insert"}
             /\ \E pc \in Tidying : Goto(r, pc)
    <2>1. PICK pc \in Tidying : Goto(r, pc)
      BY <1>2
    <2>2. /\ \A q \in Requests \ {r} : req'[q] = req[q]
          /\ req'[r].pc = pc
          /\ req'[r].key = req[r].key
          /\ req'[r].session = req[r].session
      BY <2>1, Went DEF IInv, Tidying, Points
    <2>3. CallOK(req[r]) /\ req[r].session \in Sessions \cup {NoSession}
      BY DEF IInv, CallsOK, TypeOK, Calls
    <2>4. CallOK(req[r])'
      BY <1>2, <2>1, <2>2, <2>3 DEF CallOK, Tidying
    <2>5. \A k \in Keys, s \in Sessions : ~Claims(r, k, s)'
      BY <2>1, <2>2 DEF Claims, Tidying
    <2> QED
      BY <2>2, <2>4, <2>5, Beside
  <1> QED
    BY <1>1, <1>2

\* A run that has not finished has not been continued.
LEMMA ActiveIsLast ==
  ASSUME IInv, NEW j \in Keys, Active(j)
  PROVE  Last(j)
  BY KeysAssumption DEF IInv, RowsOK, RowOK, Active, Terminal, Last, ActiveStatuses,
     TerminalStatuses

\* So nobody but the last run that may have a session can be using it.
LEMMA Exclusive ==
  ASSUME IInv, NEW k \in Keys, Last(k), NEW c \in Sessions, Member(k, c)
  PROVE  \A j \in Keys \ {k} : Active(j) => run[j].session # c
  BY ActiveIsLast DEF IInv, OneLast, Member

\* A write to the row of k that keeps its parent, does not revive it, and gives
\* it no session that it might not have had anyway.
LEMMA Wrote ==
  ASSUME IInv, NEW r \in Requests, NEW k \in Keys, NEW row \in Rows,
         run' = [run EXCEPT ![k] = row], UNCHANGED native,
         row.parent = run[k].parent,
         run[k].status # "absent", row.status # "absent",
         run[k].status # "pending" => row.status # "pending",
         Terminal(k) => row.status \in TerminalStatuses,
         row.session # NoSession => Member(k, row.session),
         row.session # NoSession => native[row.session] # "unused",
         \A q \in Requests \ {r} : req'[q] = req[q],
         CallOK(req[r])',
         \A j \in Keys, s \in Sessions : ~Claims(r, j, s)'
  PROVE  Rest'
  <1>1. run'[k] = row /\ \A j \in Keys \ {k} : run'[j] = run[j]
    BY DEF IInv, TypeOK
  <1>2. Stable
    BY <1>1 DEF Stable, Terminal
  <1>3. CallsOK'
    BY <1>2, CallsStable DEF IInv
  <1>4. RowsOK'
    BY <1>1, <1>2, RowsStable DEF IInv
  <1>5. \A j \in Keys : Active(j)' => Active(j)
    BY <1>1 DEF Active, Terminal, ActiveStatuses, TerminalStatuses, Rows, Statuses,
       IInv, TypeOK
  <1>6. \A j \in Keys, s \in Sessions : Member(j, s)' => Member(j, s)
    <2> SUFFICES ASSUME NEW j \in Keys, NEW s \in Sessions, Member(j, s)'
                 PROVE  Member(j, s)
      OBVIOUS
    <2>1. CASE run'[j].session = s
      BY <1>1, <2>1, SessionsAssumption DEF Member
    <2>2. ASSUME NEW q \in Requests, q # r, Claims(q, j, s)'
          PROVE  Member(j, s)
      BY <1>5, <2>2 DEF Member, Claims
    <2> QED
      BY <2>1, <2>2 DEF Member
  <1>7. OneLast'
    BY <1>1, <1>6, LastStable DEF IInv
  <1> QED
    BY <1>3, <1>4, <1>7 DEF Rest

\* The row that a verdict leaves is one that Wrote allows.
LEMMA SettleStep ==
  ASSUME IInv, NEW r \in Requests, NEW k \in Keys, run[k].status # "absent",
         NEW status \in {"running"} \cup TerminalStatuses,
         status = "running" => run[k].status # "pending",
         Settle(k, status), UNCHANGED native, Return(r)
  PROVE  Rest'
  <1>1. CASE ~Active(k)
    BY <1>1, TidyStep DEF Settle
  <1>2. CASE Active(k)
    <2> DEFINE row == [run[k] EXCEPT !.status = status]
    <2>1. run[k] \in Rows /\ row \in Rows /\ row.status = status
          /\ row.session = run[k].session /\ row.parent = run[k].parent
      BY DEF IInv, TypeOK, Rows, Statuses, ActiveStatuses
    <2>2. run' = [run EXCEPT ![k] = row]
      BY <1>2 DEF Settle
    <2>3. status # "absent" /\ (run[k].status # "pending" => status # "pending")
          /\ ~Terminal(k)
      BY <1>2 DEF Active, Terminal, ActiveStatuses, TerminalStatuses
    <2>4. row.session # NoSession => Member(k, row.session) /\ native[row.session] # "unused"
      BY <2>1 DEF IInv, RowsOK, RowOK, Member
    <2>5. req'[r] = NoCall /\ \A q \in Requests \ {r} : req'[q] = req[q]
      BY Returned DEF IInv
    <2>6. CallOK(req[r])' /\ \A j \in Keys, s \in Sessions : ~Claims(r, j, s)'
      BY <2>5 DEF CallOK, Claims, NoCall
    <2> HIDE DEF row
    <2> QED
      BY <2>1, <2>2, <2>3, <2>4, <2>5, <2>6, Wrote
  <1> QED
    BY <1>1, <1>2

\* The invariant's hold on the invocation that moves.
LEMMA Known ==
  ASSUME IInv, NEW r \in Requests
  PROVE  /\ req[r] \in Calls /\ CallOK(req[r])
         /\ req[r].pc # "idle" => req[r].key \in Keys /\ run[req[r].key] \in Rows
         /\ req[r].session \in Sessions \cup {NoSession}
         /\ req[r].parent \in Keys \cup {NoRun}
  <1>1. req[r] \in Calls /\ CallOK(req[r])
    BY DEF IInv, CallsOK, TypeOK
  <1>2. req[r].pc # "idle" => req[r].key \in Keys
    BY <1>1 DEF CallOK
  <1>3. \A k \in Keys : run[k] \in Rows
    BY DEF IInv, TypeOK
  <1> QED
    BY <1>1, <1>2, <1>3 DEF Calls

\* The read of a run, by reconcileRun and by cancelAgentRun.
LEMMA ReadStep ==
  ASSUME IInv, NEW r \in Requests, NEW k \in Keys, Active(k), UNCHANGED <<run, native>>,
         NEW pc \in {"fail", "lost", "fetch", "abort", "record"},
         pc \in {"lost", "fetch"} => run[k].status # "pending",
         req' = [req EXCEPT ![r] = [NoCall EXCEPT !.pc = pc, !.key = k,
                                                  !.session = run[k].session]]
  PROVE  Rest'
  <1>1. /\ \A q \in Requests \ {r} : req'[q] = req[q]
        /\ req'[r].pc = pc /\ req'[r].key = k /\ req'[r].session = run[k].session
    BY DEF IInv, TypeOK, NoCall
  <1>2. run[k].status # "absent"
        /\ (run[k].session # NoSession => native[run[k].session] # "unused")
    BY DEF IInv, RowsOK, RowOK, Active, ActiveStatuses
  <1>3. CallOK(req[r])'
    BY <1>1, <1>2 DEF CallOK
  <1>4. \A j \in Keys, s \in Sessions : Claims(r, j, s)' => Member(j, s)
    BY <1>1 DEF Claims, Member
  <1> QED
    BY <1>1, <1>3, <1>4, Beside

\* reconcileRun's read of an active run is such a read.
LEMMA ReconcileStep ==
  ASSUME IInv, NEW r \in Requests, NEW k \in Keys, Active(k), UNCHANGED <<run, native>>,
         Reconciles(r, k)
  PROVE  Rest'
  <1>1. PICK pc \in {"fail", "lost", "fetch"} :
          /\ pc \in {"lost", "fetch"} => run[k].status # "pending"
          /\ req' = [req EXCEPT ![r] = [NoCall EXCEPT !.pc = pc, !.key = k,
                                                      !.session = run[k].session]]
    BY DEF Reconciles
  <1> QED
    BY <1>1, ReadStep

\* The steps of reconcileRun keep the invariant.
LEMMA PollKeeps ==
  ASSUME IInv, NEW r \in Requests,
         Polling(r) \/ FailRun(r) \/ \E k \in Keys : Poll(r, k)
  PROVE  Rest'
  <1>1. ASSUME NEW k \in Keys, Poll(r, k)
        PROVE  Rest'
    BY <1>1, ReconcileStep DEF Poll
  <1>2. CASE PollFetch(r)
    <2>1. CASE Return(r)
      BY <1>2, <2>1, TidyStep DEF PollFetch
    <2>2. CASE \E v \in NativeVerdicts(req[r].key, req[r].session) :
                 req' = [req EXCEPT ![r].pc = "write", ![r].verdict = v]
      <3>1. PICK v \in NativeVerdicts(req[r].key, req[r].session) :
              req' = [req EXCEPT ![r].pc = "write", ![r].verdict = v]
        BY <2>2
      <3>2. v \in {"running"} \cup TerminalStatuses
        BY <3>1 DEF NativeVerdicts, TerminalStatuses
      <3>3. /\ \A q \in Requests \ {r} : req'[q] = req[q]
            /\ req'[r].pc = "write" /\ req'[r].verdict = v
            /\ req'[r].key = req[r].key /\ req'[r].session = req[r].session
        BY <3>1, Known DEF IInv, TypeOK, Calls
      <3>4. CallOK(req[r])'
        BY <1>2, <3>2, <3>3, Known DEF PollFetch, At, CallOK
      <3>5. \A j \in Keys, s \in Sessions : ~Claims(r, j, s)'
        BY <3>3 DEF Claims
      <3> QED
        BY <1>2, <3>3, <3>4, <3>5, Beside DEF PollFetch
    <2> QED
      BY <1>2, <2>1, <2>2 DEF PollFetch
  <1>3. CASE PollWrite(r)
    BY <1>3, Known, SettleStep DEF PollWrite, At, CallOK
  <1>4. CASE PollLost(r)
    BY <1>4, Known, SettleStep DEF PollLost, At, CallOK, TerminalStatuses
  <1>5. CASE FailRun(r)
    BY <1>5, Known, SettleStep DEF FailRun, At, CallOK, TerminalStatuses
  <1> QED
    BY <1>1, <1>2, <1>3, <1>4, <1>5 DEF Polling

\* The insert: a parent that is over and has not been continued was the last
\* run of its session, and its continuation takes that place.
LEMMA InsertKeeps ==
  ASSUME IInv, NEW r \in Requests, CreateInsert(r)
  PROVE  Rest'
  <1> DEFINE k == req[r].key
             p == req[r].parent
             s == req[r].session
             row == [status |-> "pending", session |-> s, parent |-> p]
  <1>1. /\ k \in Keys /\ run[k] \in Rows /\ req[r].pc = "insert"
        /\ p \in Keys \cup {NoRun} /\ s \in Sessions \cup {NoSession}
        /\ IF p = NoRun THEN s = NoSession ELSE Terminal(p)
        /\ s # NoSession => native[s] # "unused"
    BY Known DEF CreateInsert, At, CallOK
  <1>2. CASE ~Insertable(k, p)
    <2>1. CASE run[k].parent = p /\ Active(k)
      BY <1>1, <1>2, <2>1, ReconcileStep DEF CreateInsert
    <2>2. CASE ~(run[k].parent = p /\ Active(k))
      BY <1>2, <2>2, TidyStep DEF CreateInsert
    <2> QED
      BY <2>1, <2>2
  <1>3. CASE Insertable(k, p)
    <2>1. run' = [run EXCEPT ![k] = row] /\ UNCHANGED native
          /\ Goto(r, IF s = NoSession THEN "native" ELSE "claim")
      BY <1>3 DEF CreateInsert
    <2>2. run[k] = NoRow /\ (p # NoRun => Last(p))
      BY <1>3 DEF Insertable, Continued, Last
    <2> DEFINE pc == IF s = NoSession THEN "native" ELSE "claim"
    <2>3. /\ \A q \in Requests \ {r} : req'[q] = req[q]
          /\ req'[r].pc = pc /\ req'[r].key = k /\ req'[r].session = s
          /\ req'[r].parent = p
      BY <2>1, Went DEF IInv, Points
    <2>4. run'[k] = row /\ \A j \in Keys \ {k} : run'[j] = run[j]
      BY <1>1, <2>1 DEF IInv, TypeOK
    <2>5. Stable
      BY <2>1, <2>2, <2>4 DEF Stable, NoRow, Terminal, TerminalStatuses
    <2>6. CallOK(req[r])'
      BY <1>1, <2>1, <2>3, <2>4 DEF CallOK
    <2>7. CallsOK'
      BY <2>3, <2>5, <2>6, CallsStable DEF IInv
    <2>8. RowsOK'
      <3> SUFFICES ASSUME NEW j \in Keys
                   PROVE  RowOK(j)'
        BY DEF RowsOK
      <3>1. RowOK(j) /\ run[j].parent \in Keys \cup {NoRun}
            /\ run[j].session \in Sessions \cup {NoSession}
        BY DEF IInv, RowsOK, TypeOK, Rows
      <3>2. CASE j = k
        BY <1>1, <2>1, <2>4, <2>5, <3>2 DEF RowOK, Stable, Terminal
      <3>3. CASE j # k
        BY <2>1, <2>4, <2>5, <3>1, <3>3 DEF RowOK, Stable, Terminal
      <3> QED
        BY <3>2, <3>3
    <2>9. OneLast'
      <3> SUFFICES ASSUME NEW t \in Sessions, NEW i \in Keys, NEW j \in Keys,
                          Member(i, t)', Member(j, t)', Last(i)', Last(j)'
                   PROVE  i = j
        BY DEF OneLast
      <3>1. \A n \in Keys : Last(n)' => Last(n) /\ n # p
        <4> SUFFICES ASSUME NEW n \in Keys, Last(n)'
                     PROVE  Last(n) /\ n # p
          OBVIOUS
        <4>1. run'[k].parent = p /\ run[k].parent = NoRun
          BY <2>2, <2>4 DEF NoRow
        <4>2. n # p
          BY <1>1, <4>1 DEF Last
        <4>3. Last(n)
          BY <2>4, <4>1, KeysAssumption DEF Last
        <4> QED
          BY <4>2, <4>3
      <3>2. \A n \in Keys : Member(n, t)' => Member(n, t) \/ (n = k /\ t = s)
        <4> SUFFICES ASSUME NEW n \in Keys, Member(n, t)'
                     PROVE  Member(n, t) \/ (n = k /\ t = s)
          OBVIOUS
        <4>1. CASE run'[n].session = t
          BY <2>4, <4>1 DEF Member
        <4>2. CASE Claims(r, n, t)'
          BY <2>3, <4>2 DEF Claims
        <4>3. ASSUME NEW q \in Requests \ {r}, Claims(q, n, t)'
              PROVE  Member(n, t)
          <5>1. req'[q] = req[q] /\ CallOK(req[q])
            BY <2>3 DEF IInv, CallsOK
          <5>2. req[q].pc \in {"claim", "abort", "record"} => req[q].key # k
            BY <2>2, <5>1 DEF CallOK, NoRow
          <5>3. Claims(q, n, t)
            BY <2>4, <4>3, <5>1, <5>2 DEF Claims, Active
          <5> QED
            BY <5>3 DEF Member
        <4> QED
          BY <4>1, <4>2, <4>3 DEF Member
      <3>3. t = s => p \in Keys /\ Member(p, t)
        BY <1>1, SessionsAssumption DEF Member, Claims
      <3>4. CASE Member(i, t) /\ Member(j, t)
        BY <3>1, <3>4 DEF IInv, OneLast
      <3>5. CASE t = s /\ (i = k \/ j = k)
        <4>1. \A n \in Keys : ~(Member(n, t) /\ Last(n)')
          BY <2>2, <3>1, <3>3, <3>5, KeysAssumption DEF IInv, OneLast
        <4> QED
          BY <3>2, <4>1
      <3> QED
        BY <3>2, <3>4, <3>5
    <2> QED
      BY <2>7, <2>8, <2>9 DEF Rest
  <1> QED
    BY <1>2, <1>3

\* A new session belongs to nobody but the run it was made for.
LEMMA NativeKeeps ==
  ASSUME IInv, NEW r \in Requests, CreateNative(r)
  PROVE  Rest'
  <1>1. CASE Goto(r, "fail")
    BY <1>1, TidyStep DEF CreateNative, At, Tidying, IInv, TypeOK
  <1>2. CASE \E s \in Sessions :
               /\ native[s] = "unused"
               /\ native' = [native EXCEPT ![s] = "open"]
               /\ req' = [req EXCEPT ![r].pc = "claim", ![r].session = s,
                                    ![r].owns = TRUE]
    <2>1. PICK s \in Sessions :
            /\ native[s] = "unused"
            /\ native' = [native EXCEPT ![s] = "open"]
            /\ req' = [req EXCEPT ![r].pc = "claim", ![r].session = s,
                                 ![r].owns = TRUE]
      BY <1>2
    <2> DEFINE k == req[r].key
    <2>2. k \in Keys /\ req[r].pc = "native" /\ run' = run
      BY <1>2, Known DEF CreateNative, At
    <2>3. /\ \A q \in Requests \ {r} : req'[q] = req[q]
          /\ req'[r].pc = "claim" /\ req'[r].key = k /\ req'[r].session = s
      BY <2>1, Known DEF IInv, TypeOK, Calls
    <2>4. native'[s] = "open" /\ \A t \in Sessions \ {s} : native'[t] = native[t]
      BY <2>1 DEF IInv, TypeOK
    <2>5. Stable
      BY <2>2, <2>4 DEF Stable, Terminal
    <2>6. CallOK(req[r])'
      BY <2>2, <2>3, <2>4, Known DEF CallOK
    <2>7. CallsOK'
      BY <2>3, <2>5, <2>6, CallsStable DEF IInv
    <2>8. RowsOK'
      BY <2>2, <2>5, RowsStable DEF IInv
    <2>9. OneLast'
      <3>1. \A n \in Keys : ~Member(n, s)
        BY <2>1, SessionsAssumption, Known DEF IInv, RowsOK, RowOK, CallsOK, CallOK,
           Member, Claims
      <3>2. \A n \in Keys, t \in Sessions : Member(n, t)' => Member(n, t) \/ (n = k /\ t = s)
        <4> SUFFICES ASSUME NEW n \in Keys, NEW t \in Sessions, Member(n, t)'
                     PROVE  Member(n, t) \/ (n = k /\ t = s)
          OBVIOUS
        <4>1. CASE run'[n].session = t
          BY <2>2, <4>1 DEF Member
        <4>2. CASE Claims(r, n, t)'
          BY <2>3, <4>2 DEF Claims
        <4>3. ASSUME NEW q \in Requests \ {r}, Claims(q, n, t)'
              PROVE  Member(n, t)
          BY <2>2, <2>3, <4>3 DEF Claims, Active, Member
        <4> QED
          BY <4>1, <4>2, <4>3 DEF Member
      <3>3. \A n \in Keys : Last(n)' = Last(n)
        BY <2>2 DEF Last
      <3> QED
        BY <3>1, <3>2, <3>3 DEF IInv, OneLast
    <2> QED
      BY <2>7, <2>8, <2>9 DEF Rest
  <1> QED
    BY <1>1, <1>2 DEF CreateNative

\* The row that createAgentRun claims gets the session it may claim.
LEMMA ClaimKeeps ==
  ASSUME IInv, NEW r \in Requests, CreateClaim(r)
  PROVE  Rest'
  <1> DEFINE k == req[r].key
             s == req[r].session
             row == [run[k] EXCEPT !.status = "running", !.session = s]
  <1>1. /\ k \in Keys /\ run[k] \in Rows /\ req[r].pc = "claim" /\ CallOK(req[r])
        /\ s \in Sessions \cup {NoSession}
    BY Known DEF CreateClaim, At
  <1>2. CASE run[k].status # "pending"
    <2>1. Goto(r, "stop") \/ Return(r)
      BY <1>2 DEF CreateClaim
    <2> QED
      BY <1>1, <1>2, <2>1, TidyStep DEF CreateClaim, Tidying
  <1>3. CASE run[k].status = "pending"
    <2>1. run' = [run EXCEPT ![k] = row] /\ UNCHANGED native /\ Goto(r, "submit")
      BY <1>3 DEF CreateClaim
    <2>2. row \in Rows /\ row.parent = run[k].parent /\ row.status = "running"
          /\ row.session = s
      BY <1>1 DEF Rows, Statuses, ActiveStatuses
    <2>3. Member(k, s)
      BY <1>1, <1>3 DEF Member, Claims, Active, ActiveStatuses
    <2>4. s # NoSession => native[s] # "unused"
      BY <1>1 DEF CallOK
    <2>5. /\ \A q \in Requests \ {r} : req'[q] = req[q]
          /\ req'[r].pc = "submit" /\ req'[r].key = k /\ req'[r].session = s
      BY <2>1, Went DEF IInv, Points
    <2>6. run'[k] = row
      BY <1>1, <2>1 DEF IInv, TypeOK
    <2>7. CallOK(req[r])'
      BY <1>1, <2>1, <2>2, <2>4, <2>5, <2>6 DEF CallOK
    <2>8. \A j \in Keys, t \in Sessions : ~Claims(r, j, t)'
      BY <2>5 DEF Claims
    <2>9. ~Terminal(k)
      BY <1>3 DEF Terminal, TerminalStatuses
    <2> HIDE DEF row
    <2> QED
      BY <1>1, <1>3, <2>1, <2>2, <2>3, <2>4, <2>5, <2>7, <2>8, <2>9, Wrote
  <1> QED
    BY <1>2, <1>3

\* A run that gives up the session it could not use.
LEMMA UnsetKeeps ==
  ASSUME IInv, NEW r \in Requests, CreateUnset(r)
  PROVE  Rest'
  <1> DEFINE k == req[r].key
             row == [run[k] EXCEPT !.session = NoSession]
  <1>1. /\ k \in Keys /\ run[k] \in Rows /\ req[r].pc = "unset" /\ CallOK(req[r])
        /\ req[r].session \in Sessions \cup {NoSession}
    BY Known DEF CreateUnset, At
  <1>2. run' = [run EXCEPT ![k] = row] /\ UNCHANGED native /\ Goto(r, "fail")
    BY DEF CreateUnset
  <1>3. row \in Rows /\ row.parent = run[k].parent /\ row.status = run[k].status
        /\ row.session = NoSession
    BY <1>1 DEF Rows
  <1>4. run[k].status # "absent"
    BY <1>1 DEF CallOK
  <1>5. /\ \A q \in Requests \ {r} : req'[q] = req[q]
        /\ req'[r].pc = "fail" /\ req'[r].key = k /\ req'[r].session = req[r].session
    BY <1>2, Went DEF IInv, Points
  <1>6. run'[k] = row
    BY <1>1, <1>2 DEF IInv, TypeOK
  <1>7. CallOK(req[r])'
    BY <1>1, <1>2, <1>3, <1>4, <1>5, <1>6 DEF CallOK
  <1>8. \A j \in Keys, t \in Sessions : ~Claims(r, j, t)'
    BY <1>5 DEF Claims
  <1>9. Terminal(k) => row.status \in TerminalStatuses
    BY <1>3 DEF Terminal
  <1> HIDE DEF row
  <1> QED
    BY <1>1, <1>2, <1>3, <1>4, <1>5, <1>7, <1>8, <1>9, Wrote, ZenonT(30)

\* cancelAgentRun's write gives back the session it had read.
LEMMA RecordKeeps ==
  ASSUME IInv, NEW r \in Requests, CancelRecord(r)
  PROVE  Rest'
  <1> DEFINE k == req[r].key
             s == IF req[r].verdict = "reusable" THEN req[r].session ELSE NoSession
             row == [run[k] EXCEPT !.status = "cancelled", !.session = s]
  <1>1. /\ k \in Keys /\ run[k] \in Rows /\ req[r].pc = "record" /\ CallOK(req[r])
        /\ s \in Sessions \cup {NoSession}
    BY Known DEF CancelRecord, At
  <1>2. UNCHANGED native /\ Return(r)
    BY DEF CancelRecord
  <1>3. CASE ~Active(k)
    BY <1>2, <1>3, TidyStep DEF CancelRecord
  <1>4. CASE Active(k)
    <2>1. run' = [run EXCEPT ![k] = row]
      BY <1>4 DEF CancelRecord
    <2>2. row \in Rows /\ row.parent = run[k].parent /\ row.status = "cancelled"
          /\ row.session = s
      BY <1>1 DEF Rows, Statuses, TerminalStatuses
    <2>3. s # NoSession => Member(k, s) /\ native[s] # "unused"
      BY <1>1, <1>4 DEF Member, Claims, CallOK
    <2>4. req'[r] = NoCall /\ \A q \in Requests \ {r} : req'[q] = req[q]
      BY <1>2, Returned DEF IInv
    <2>5. CallOK(req[r])' /\ \A j \in Keys, t \in Sessions : ~Claims(r, j, t)'
      BY <2>4 DEF CallOK, Claims, NoCall
    <2>6. run[k].status # "absent" /\ row.status \in TerminalStatuses
      BY <1>4, <2>2 DEF Active, ActiveStatuses, TerminalStatuses
    <2> HIDE DEF row, s
    <2> QED
      BY <1>1, <1>2, <2>1, <2>2, <2>3, <2>4, <2>5, <2>6, Wrote
  <1> QED
    BY <1>3, <1>4

\* The other steps of createAgentRun and cancelAgentRun.
LEMMA OthersKeep ==
  ASSUME IInv, NEW r \in Requests,
         \/ CreateContext(r) \/ CreateSubmit(r) \/ CreateCheck(r) \/ CreateStop(r)
         \/ CreateDelete(r) \/ CancelAbort(r) \/ Crash(r)
         \/ \E k \in Keys : Cancel(r, k)
         \/ \E k \in Keys, p \in Keys \cup {NoRun} : CreateBegin(r, k, p)
  PROVE  Rest'
  <1>1. ASSUME NEW k \in Keys, NEW p \in Keys \cup {NoRun}, CreateBegin(r, k, p)
        PROVE  Rest'
    <2>1. /\ \A q \in Requests \ {r} : req'[q] = req[q]
          /\ req'[r].pc = "context" /\ req'[r].key = k /\ req'[r].session = NoSession
      BY <1>1 DEF CreateBegin, NoCall, IInv, TypeOK
    <2>2. CallOK(req[r])' /\ \A j \in Keys, t \in Sessions : ~Claims(r, j, t)'
      BY <2>1 DEF CallOK, Claims
    <2> QED
      BY <1>1, <2>1, <2>2, Beside DEF CreateBegin
  <1>2. CASE CreateContext(r)
    <2> DEFINE p == req[r].parent
    <2>1. /\ req[r].pc = "context" /\ req[r].key \in Keys /\ req[r].session = NoSession
          /\ run' = run /\ native' = native
      BY <1>2, Known DEF CreateContext, Continuable, At, CallOK
    <2>2. CASE p = NoRun
      <3>1. /\ \A q \in Requests \ {r} : req'[q] = req[q]
            /\ req'[r].pc = "insert" /\ req'[r].key = req[r].key
            /\ req'[r].session = NoSession /\ req'[r].parent = NoRun
        BY <1>2, <2>1, <2>2, Went DEF CreateContext, Continuable, IInv, Points
      <3>2. CallOK(req[r])' /\ \A j \in Keys, t \in Sessions : ~Claims(r, j, t)'
        BY <2>1, <3>1, KeysAssumption DEF CallOK, Claims
      <3> QED
        BY <2>1, <3>1, <3>2, Beside
    <2>3. CASE p # NoRun /\ Terminal(p) /\ run[p].session # NoSession
      <3>1. p \in Keys /\ native[run[p].session] # "unused"
        BY <2>3, Known DEF IInv, RowsOK, RowOK
      <3>2. /\ \A q \in Requests \ {r} : req'[q] = req[q]
            /\ req'[r].pc = "insert" /\ req'[r].key = req[r].key
            /\ req'[r].session = run[p].session /\ req'[r].parent = p
        BY <1>2, <2>3, Known DEF CreateContext, Continuable, IInv, TypeOK, Calls
      <3>3. CallOK(req[r])'
        BY <2>1, <2>3, <3>1, <3>2 DEF CallOK, Terminal
      <3>4. \A j \in Keys, t \in Sessions : Claims(r, j, t)' => Member(j, t)
        BY <3>2 DEF Claims, Member
      <3> QED
        BY <2>1, <3>2, <3>3, <3>4, Beside
    <2>4. CASE p # NoRun /\ ~(Terminal(p) /\ run[p].session # NoSession)
      BY <1>2, <2>1, <2>4, TidyStep DEF CreateContext, Continuable
    <2> QED
      BY <2>2, <2>3, <2>4
  <1>3. CASE CreateSubmit(r)
    <2>1. CASE Goto(r, "check")
      BY <1>3, <2>1, TidyStep DEF CreateSubmit, At, Tidying
    <2>2. CASE Catch(r)
      <3>1. /\ \A q \in Requests \ {r} : req'[q] = req[q]
            /\ req'[r].pc = "stop" /\ req'[r].key = req[r].key
            /\ req'[r].session = req[r].session
        BY <2>2, Known DEF Catch, IInv, TypeOK, Calls
      <3>2. CallOK(req[r])' /\ \A j \in Keys, t \in Sessions : ~Claims(r, j, t)'
        BY <1>3, <3>1, Known DEF CallOK, Claims, CreateSubmit, At
      <3> QED
        BY <1>3, <3>1, <3>2, Beside DEF CreateSubmit
    <2> QED
      BY <1>3, <2>1, <2>2 DEF CreateSubmit
  <1>4. CASE CreateCheck(r)
    BY <1>4, TidyStep DEF CreateCheck, At, Tidying
  <1>5. CASE CreateStop(r)
    BY <1>5, TidyStep DEF CreateStop, At, Tidying, Abort, Untouched
  <1>6. CASE CreateDelete(r)
    <2>1. \A s \in Sessions : native[s] # "unused" => native'[s] # "unused"
      BY <1>6 DEF CreateDelete, DeleteSession, Untouched, IInv, TypeOK
    <2> QED
      BY <1>6, <2>1, TidyStep DEF CreateDelete, At, Tidying
  <1>7. CASE CancelAbort(r)
    <2>1. /\ req[r].pc = "abort" /\ UNCHANGED <<run, native>>
          /\ \/ Goto(r, "record") \/ Return(r)
             \/ req' = [req EXCEPT ![r].pc = "record", ![r].verdict = "reusable"]
      BY <1>7 DEF CancelAbort, At, Abort, Untouched
    <2>2. CASE Return(r)
      BY <2>1, <2>2, TidyStep
    <2>3. CASE \/ Goto(r, "record")
               \/ req' = [req EXCEPT ![r].pc = "record", ![r].verdict = "reusable"]
      <3>1. /\ \A q \in Requests \ {r} : req'[q] = req[q]
            /\ req'[r].pc = "record" /\ req'[r].key = req[r].key
            /\ req'[r].session = req[r].session
        BY <2>3, Known DEF IInv, TypeOK, Calls, Goto
      <3>2. CallOK(req[r])'
        BY <2>1, <3>1, Known DEF CallOK
      <3>3. \A j \in Keys, t \in Sessions : Claims(r, j, t)' => Member(j, t)
        BY <2>1, <3>1 DEF Claims, Member, Active
      <3> QED
        BY <2>1, <3>1, <3>2, <3>3, Beside
    <2> QED
      BY <2>1, <2>2, <2>3
  <1>8. CASE Crash(r)
    BY <1>8, TidyStep DEF Crash
  <1>9. ASSUME NEW k \in Keys, Cancel(r, k)
        PROVE  Rest'
    <2>1. PICK pc \in {"abort", "record"} :
            req' = [req EXCEPT ![r] = [NoCall EXCEPT !.pc = pc, !.key = k,
                                                     !.session = run[k].session]]
      BY <1>9 DEF Cancel
    <2> QED
      BY <1>9, <2>1, ReadStep DEF Cancel
  <1> QED
    BY <1>1, <1>2, <1>3, <1>4, <1>5, <1>6, <1>7, <1>8, <1>9

\* The steps of the server touch neither rows nor invocations.
LEMMA ServerKeeps ==
  ASSUME IInv, Server \/ UNCHANGED vars
  PROVE  Rest'
  <1>1. UNCHANGED <<run, native, req>>
    BY DEF Server, WorkEnds, WorkspaceStops, WorkspaceStarts, vars
  <1> QED
    BY <1>1 DEF IInv, Rest, CallsOK, CallOK, RowsOK, RowOK, OneLast, Member, Claims, Last,
       Active, Terminal

\* The invariant holds in every state, and with it TypeOK.
LEMMA Invariance == Spec => []IInv
  <1>1. Init => IInv
    <2> SUFFICES ASSUME Init
                 PROVE  IInv
      OBVIOUS
    <2>1. TypeOK
      <3>1. NoCall \in Calls /\ NoRow \in Rows
        BY DEF NoCall, Calls, Points, NoRow, Rows, Statuses
      <3>2. "none" \in WorkStates
        BY DEF WorkStates
      <3> QED
        BY <3>1, <3>2 DEF Init, TypeOK
    <2>2. CallsOK /\ RowsOK
      BY DEF Init, CallsOK, CallOK, RowsOK, RowOK, NoCall, NoRow
    <2>3. \A k \in Keys, s \in Sessions : ~Member(k, s)
      BY SessionsAssumption DEF Init, Member, Claims, NoCall, NoRow
    <2> QED
      BY <2>1, <2>2, <2>3 DEF IInv, OneLast
  <1>2. IInv /\ [Next]_vars => IInv'
    <2> SUFFICES ASSUME IInv, [Next]_vars
                 PROVE  IInv'
      OBVIOUS
    <2>1. CASE Server \/ UNCHANGED vars
      <3>1. TypeOK'
        BY <2>1, ServerType DEF IInv, TypeOK, vars
      <3> QED
        BY <2>1, <3>1, ServerKeeps DEF IInv, Rest
    <2>2. ASSUME NEW r \in Requests,
                 Polling(r) \/ FailRun(r) \/ \E k \in Keys : Poll(r, k)
          PROVE  IInv'
      <3>1. PollWrite(r) => req[r].verdict \in Statuses
        BY Known DEF PollWrite, At, CallOK, Statuses, ActiveStatuses
      <3>2. TypeOK'
        BY <2>2, <3>1, QuietType, VerdictType DEF IInv, Polling
      <3> QED
        BY <2>2, <3>2, PollKeeps DEF IInv, Rest
    <2>3. ASSUME NEW r \in Requests,
                 \/ CreateContext(r) \/ CreateSubmit(r) \/ CreateCheck(r) \/ CreateStop(r)
                 \/ CreateDelete(r) \/ CancelAbort(r) \/ Crash(r)
                 \/ \E k \in Keys : Cancel(r, k)
                 \/ \E k \in Keys, p \in Keys \cup {NoRun} : CreateBegin(r, k, p)
          PROVE  IInv'
      <3>1. TypeOK'
        BY <2>3, QuietType, CreateType DEF IInv
      <3> QED
        BY <2>3, <3>1, OthersKeep DEF IInv, Rest
    <2>4. ASSUME NEW r \in Requests,
                 \/ CreateInsert(r) \/ CreateNative(r) \/ CreateClaim(r)
                 \/ CreateUnset(r) \/ CancelRecord(r)
          PROVE  IInv'
      <3>1. CreateInsert(r) => req[r].key \in Keys
        BY Known DEF CreateInsert, At
      <3>2. TypeOK'
        BY <2>4, <3>1, CreateType DEF IInv
      <3> QED
        BY <2>4, <3>2, InsertKeeps, NativeKeeps, ClaimKeeps, UnsetKeeps, RecordKeeps
           DEF IInv, Rest
    <2> QED
      BY <2>1, <2>2, <2>3, <2>4 DEF Next, Creating, Cancelling
  <1> QED
    BY <1>1, <1>2, PTL DEF Spec

\* Rows, sessions and invocations keep their shapes.
THEOREM TypeCorrect == Spec => []TypeOK
  <1>1. IInv => TypeOK
    BY DEF IInv
  <1> QED
    BY <1>1, Invariance, PTL

\* Runs that share the context of an OpenCode session are sequential: however
\* the calls interleave, no two of them are unfinished at a time.
THEOREM RunsAreSequential == Spec => []SequentialRuns
  <1>1. IInv => SequentialRuns
    <2> SUFFICES ASSUME IInv, NEW j \in Keys, NEW k \in Keys, j # k, Active(j), Active(k),
                        run[j].session # NoSession, run[j].session = run[k].session
                 PROVE  FALSE
      BY DEF SequentialRuns
    <2>1. run[j].session \in Sessions
      BY DEF IInv, TypeOK, Rows
    <2> QED
      BY <2>1, ActiveIsLast DEF IInv, OneLast, Member
  <1> QED
    BY <1>1, Invariance, PTL

-----------------------------------------------------------------------------
(* The rows implement RunLedger.                                           *)

\* A write to the row of k is a step of the ledger, if nobody else is using
\* the session it leaves there.
LEMMA Becomes ==
  ASSUME IInv, NEW k \in Keys, NEW row \in Rows, run' = [run EXCEPT ![k] = row],
         row.session # NoSession =>
           \A j \in Keys \ {k} : Active(j) => run[j].session # row.session
  PROVE  Ledger!Become(k, row.status, row.session)
  <1>1. run'[k] = row /\ \A j \in Keys \ {k} : run'[j] = run[j]
    BY DEF IInv, TypeOK
  <1>2. [j \in Keys |-> run'[j].status]
          = [[j \in Keys |-> run[j].status] EXCEPT ![k] = row.status]
    <2> DEFINE f == [j \in Keys |-> run[j].status]
    <2>1. \A j \in Keys : run'[j].status = [f EXCEPT ![k] = row.status][j]
      BY <1>1
    <2>2. DOMAIN [f EXCEPT ![k] = row.status] = Keys
      OBVIOUS
    <2> QED
      BY <2>1, <2>2
  <1>3. [j \in Keys |-> run'[j].session]
          = [[j \in Keys |-> run[j].session] EXCEPT ![k] = row.session]
    <2> DEFINE f == [j \in Keys |-> run[j].session]
    <2>1. \A j \in Keys : run'[j].session = [f EXCEPT ![k] = row.session][j]
      BY <1>1
    <2>2. DOMAIN [f EXCEPT ![k] = row.session] = Keys
      OBVIOUS
    <2> QED
      BY <2>1, <2>2
  <1>4. Ledger!Free(k, row.session)
    BY DEF Ledger!Free, Ledger!Unfinished, Active, ActiveStatuses
  <1> QED
    BY <1>2, <1>3, <1>4 DEF Ledger!Become

\* A step that writes no row is a stutter of the ledger.
LEMMA Stutters ==
  ASSUME run' = run
  PROVE  UNCHANGED Ledger!vars
  BY DEF Ledger!vars

\* A verdict on a run finishes it, or leaves it running.
LEMMA SettleRefines ==
  ASSUME IInv, NEW k \in Keys, NEW status \in {"running"} \cup TerminalStatuses,
         status = "running" => run[k].status # "pending",
         Settle(k, status)
  PROVE  [Ledger!Next]_(Ledger!vars)
  <1> DEFINE row == [run[k] EXCEPT !.status = status]
  <1>1. run[k] \in Rows
    BY DEF IInv, TypeOK
  <1>2. row \in Rows /\ row.status = status /\ row.session = run[k].session
    BY <1>1 DEF Rows, Statuses, ActiveStatuses
  <1>3. CASE ~Active(k) \/ run[k].status = status
    <2>1. run' = run
      BY <1>3 DEF Settle, IInv, TypeOK, Rows
    <2> QED
      BY <2>1, Stutters
  <1>4. CASE Active(k) /\ run[k].status # status
    <2>1. run' = [run EXCEPT ![k] = row]
      BY <1>4 DEF Settle
    <2>2. row.session # NoSession =>
            \A j \in Keys \ {k} : Active(j) => run[j].session # row.session
      BY <1>1, <1>2, <1>4, ActiveIsLast, Exclusive DEF Member, Rows
    <2>3. Ledger!Become(k, status, run[k].session)
      <3> HIDE DEF row
      <3>1. Ledger!Become(k, row.status, row.session)
        BY <1>2, <2>1, <2>2, Becomes DEF Ledger!Become, Ledger!Free
      <3> QED
        BY <1>2, <3>1 DEF Ledger!Become, Ledger!Free
    <2>4. status \in Ledger!Finished
      BY <1>4 DEF Active, ActiveStatuses, TerminalStatuses, Ledger!Finished
    <2>5. Ledger!Finish(k, run[k].session)
      BY <1>4, <2>3, <2>4 DEF Ledger!Finish, Ledger!Unfinished, Active, ActiveStatuses
    <2>6. run[k].session \in Sessions \cup {NoSession}
      BY <1>1 DEF Rows
    <2> QED
      BY <2>5, <2>6 DEF Ledger!Next
  <1> QED
    BY <1>3, <1>4

\* The insert accepts a run.
LEMMA InsertRefines ==
  ASSUME IInv, NEW r \in Requests, CreateInsert(r)
  PROVE  [Ledger!Next]_(Ledger!vars)
  <1> DEFINE k == req[r].key
             p == req[r].parent
             s == req[r].session
             row == [status |-> "pending", session |-> s, parent |-> p]
  <1>1. CASE ~Insertable(k, p)
    BY <1>1, Stutters DEF CreateInsert
  <1>2. CASE Insertable(k, p)
    <2>1. /\ k \in Keys /\ req[r].pc = "insert"
          /\ p \in Keys \cup {NoRun} /\ s \in Sessions \cup {NoSession}
          /\ IF p = NoRun THEN s = NoSession ELSE Terminal(p)
      BY Known DEF CreateInsert, At, CallOK
    <2>2. run' = [run EXCEPT ![k] = row] /\ row \in Rows
      BY <1>2, <2>1 DEF CreateInsert, Rows, Statuses, ActiveStatuses
    <2>3. ASSUME s # NoSession
          PROVE  \A j \in Keys \ {k} : Active(j) => run[j].session # s
      <3>1. p \in Keys /\ Last(p) /\ Member(p, s)
        BY <1>2, <2>1, <2>3 DEF Insertable, Continued, Last, Member, Claims
      <3>2. ~Active(p)
        BY <2>1, <3>1, KeysAssumption DEF Active, Terminal, ActiveStatuses, TerminalStatuses
      <3> QED
        BY <2>1, <2>3, <3>1, <3>2, Exclusive
    <2>3a. row.status = "pending" /\ row.session = s
      OBVIOUS
    <2>4. Ledger!Become(k, "pending", s)
      <3>1. row.session # NoSession =>
              \A j \in Keys \ {k} : Active(j) => run[j].session # row.session
        BY <2>3
      <3> HIDE DEF row, s, p, k
      <3>2. Ledger!Become(k, row.status, row.session)
        BY <2>1, <2>2, <3>1, Becomes DEF Ledger!Become, Ledger!Free
      <3> QED
        BY <2>3a, <3>2 DEF Ledger!Become, Ledger!Free
    <2>5. run[k].status = "absent"
      BY <1>2 DEF Insertable, NoRow
    <2>6. Ledger!Accept(k, s)
      BY <2>1, <2>4, <2>5 DEF Ledger!Accept
    <2> QED
      BY <2>1, <2>6 DEF Ledger!Next, Ledger!Accept, Ledger!Become, Ledger!Free
  <1> QED
    BY <1>1, <1>2

\* createAgentRun's claim starts the run.
LEMMA ClaimRefines ==
  ASSUME IInv, NEW r \in Requests, CreateClaim(r)
  PROVE  [Ledger!Next]_(Ledger!vars)
  <1> DEFINE k == req[r].key
             s == req[r].session
             row == [run[k] EXCEPT !.status = "running", !.session = s]
  <1>1. CASE run[k].status # "pending"
    BY <1>1, Stutters DEF CreateClaim
  <1>2. CASE run[k].status = "pending"
    <2>1. /\ k \in Keys /\ run[k] \in Rows /\ req[r].pc = "claim"
          /\ s \in Sessions \cup {NoSession}
      BY Known DEF CreateClaim, At
    <2>2. row \in Rows /\ row.status = "running" /\ row.session = s
      BY <2>1 DEF Rows, Statuses, ActiveStatuses
    <2>3. run' = [run EXCEPT ![k] = row]
      BY <1>2 DEF CreateClaim
    <2>4. Active(k) /\ Member(k, s) /\ Last(k)
      BY <1>2, <2>1, ActiveIsLast DEF Active, ActiveStatuses, Member, Claims
    <2>5. s # NoSession => \A j \in Keys \ {k} : Active(j) => run[j].session # s
      BY <2>1, <2>4, Exclusive
    <2>6. Ledger!Become(k, row.status, row.session)
      <3> HIDE DEF row, s, k
      <3> QED
        BY <2>1, <2>2, <2>3, <2>5, Becomes, ZenonT(30) DEF Ledger!Become, Ledger!Free
    <2>7. Ledger!Start(k, s)
      <3> HIDE DEF row, s, k
      <3> QED
        BY <1>2, <2>1, <2>2, <2>6 DEF Ledger!Start, Ledger!Become, Ledger!Free
    <2> QED
      BY <2>1, <2>7 DEF Ledger!Next, Ledger!Start, Ledger!Become, Ledger!Free
  <1> QED
    BY <1>1, <1>2

\* cancelAgentRun finishes it.
LEMMA RecordRefines ==
  ASSUME IInv, NEW r \in Requests, CancelRecord(r)
  PROVE  [Ledger!Next]_(Ledger!vars)
  <1> DEFINE k == req[r].key
             s == IF req[r].verdict = "reusable" THEN req[r].session ELSE NoSession
             row == [run[k] EXCEPT !.status = "cancelled", !.session = s]
  <1>1. CASE ~Active(k)
    BY <1>1, Stutters DEF CancelRecord
  <1>2. CASE Active(k)
    <2>1. /\ k \in Keys /\ run[k] \in Rows /\ req[r].pc = "record"
          /\ s \in Sessions \cup {NoSession}
      BY Known DEF CancelRecord, At
    <2>2. row \in Rows /\ row.status = "cancelled" /\ row.session = s
      BY <2>1 DEF Rows, Statuses, TerminalStatuses
    <2>3. run' = [run EXCEPT ![k] = row]
      BY <1>2 DEF CancelRecord
    <2>4. Last(k) /\ (s # NoSession => Member(k, s))
      BY <1>2, <2>1, ActiveIsLast DEF Member, Claims
    <2>5. s # NoSession => \A j \in Keys \ {k} : Active(j) => run[j].session # s
      BY <2>1, <2>4, Exclusive
    <2>6. Ledger!Become(k, row.status, row.session)
      <3> HIDE DEF row, s, k
      <3> QED
        BY <2>1, <2>2, <2>3, <2>5, Becomes, ZenonT(30) DEF Ledger!Become, Ledger!Free
    <2>7. run[k].status \in Ledger!Unfinished /\ "cancelled" \in Ledger!Finished
      BY <1>2 DEF Active, ActiveStatuses, Ledger!Unfinished, Ledger!Finished
    <2>8. Ledger!Finish(k, s)
      <3> HIDE DEF row, s, k
      <3> QED
        BY <2>1, <2>2, <2>6, <2>7 DEF Ledger!Finish, Ledger!Become, Ledger!Free
    <2> QED
      <3> HIDE DEF s, k
      <3> QED
        BY <2>1, <2>8 DEF Ledger!Next, Ledger!Finish, Ledger!Become, Ledger!Free
  <1> QED
    BY <1>1, <1>2

\* A run that could not be submitted forgets its session.
LEMMA UnsetRefines ==
  ASSUME IInv, NEW r \in Requests, CreateUnset(r)
  PROVE  [Ledger!Next]_(Ledger!vars)
  <1> DEFINE k == req[r].key
             row == [run[k] EXCEPT !.session = NoSession]
  <1>1. k \in Keys /\ run[k] \in Rows /\ run' = [run EXCEPT ![k] = row]
    BY Known DEF CreateUnset, At
  <1>2. row \in Rows /\ row.status = run[k].status /\ row.session = NoSession
    BY <1>1 DEF Rows
  <1>3. Ledger!Become(k, row.status, row.session)
    <2> HIDE DEF row, k
    <2> QED
      BY <1>1, <1>2, Becomes DEF Ledger!Become, Ledger!Free
  <1>4. [j \in Keys |-> run'[j].status] = [j \in Keys |-> run[j].status]
    BY <1>1, <1>2 DEF IInv, TypeOK
  <1>5. Ledger!Forget(k)
    <2> HIDE DEF row, k
    <2> QED
      BY <1>2, <1>3, <1>4 DEF Ledger!Forget, Ledger!Become
  <1> QED
    <2> HIDE DEF k
    <2> QED
      BY <1>1, <1>5 DEF Ledger!Next, Ledger!Forget

\* Whatever the calls of createAgentRun, reconcileRun and cancelAgentRun that
\* are in flight write, and when, each write is a step the ledger allows.
LEMMA StepRefines ==
  ASSUME IInv, [Next]_vars
  PROVE  [Ledger!Next]_(Ledger!vars)
  <1>1. CASE run' = run
    BY <1>1, Stutters
  <1>2. ASSUME NEW r \in Requests, CreateInsert(r)
        PROVE  [Ledger!Next]_(Ledger!vars)
    BY <1>2, InsertRefines
  <1>3. ASSUME NEW r \in Requests, CreateClaim(r)
        PROVE  [Ledger!Next]_(Ledger!vars)
    BY <1>3, ClaimRefines
  <1>4. ASSUME NEW r \in Requests, CancelRecord(r)
        PROVE  [Ledger!Next]_(Ledger!vars)
    BY <1>4, RecordRefines
  <1>5. ASSUME NEW r \in Requests, CreateUnset(r)
        PROVE  [Ledger!Next]_(Ledger!vars)
    BY <1>5, UnsetRefines
  <1>6. ASSUME NEW r \in Requests, PollWrite(r) \/ PollLost(r) \/ FailRun(r)
        PROVE  [Ledger!Next]_(Ledger!vars)
    <2>1. req[r].key \in Keys /\ CallOK(req[r])
      BY <1>6, Known DEF PollWrite, PollLost, FailRun, At
    <2>2. PICK status \in {"running"} \cup TerminalStatuses :
            /\ status = "running" => run[req[r].key].status # "pending"
            /\ Settle(req[r].key, status)
      BY <1>6, <2>1 DEF PollWrite, PollLost, FailRun, At, CallOK, TerminalStatuses
    <2> QED
      BY <2>1, <2>2, SettleRefines
  <1>7. ASSUME NEW r \in Requests,
               \/ CreateContext(r) \/ CreateNative(r) \/ CreateSubmit(r)
               \/ CreateCheck(r) \/ CreateStop(r) \/ CreateDelete(r) \/ PollFetch(r)
               \/ CancelAbort(r) \/ Crash(r)
               \/ \E k \in Keys : Poll(r, k) \/ Cancel(r, k)
               \/ \E k \in Keys, p \in Keys \cup {NoRun} : CreateBegin(r, k, p)
        PROVE  run' = run
    BY <1>7 DEF CreateContext, Continuable, CreateNative, CreateSubmit, CreateCheck, CreateStop,
       CreateDelete, PollFetch, CancelAbort, Crash, Poll, Cancel, CreateBegin
  <1>8. Server \/ UNCHANGED vars => run' = run
    BY DEF Server, WorkEnds, WorkspaceStops, WorkspaceStarts, vars
  <1> QED
    BY <1>1, <1>2, <1>3, <1>4, <1>5, <1>6, <1>7, <1>8
       DEF Next, Creating, Polling, Cancelling

\* The rows implement the abstract ledger of runs, whichever calls race.
THEOREM RunsImplementLedger == Spec => ImplementsLedger
  <1>1. Init => Ledger!Init
    BY DEF Init, Ledger!Init, NoRow
  <1> QED
    BY <1>1, StepRefines, Invariance, PTL DEF Spec, ImplementsLedger, Ledger!Spec

-----------------------------------------------------------------------------
(* PromptedOnce: only the invocation that moved a run from "pending" to    *)
(* "running" sends its prompt, and a run leaves "pending" once.            *)

NotStarted(k) == run[k].status \in {"absent", "pending"}

\* A run that has not started was not prompted, and one that is about to be
\* prompted has started, was not prompted before, and is prompted by one
\* invocation only.
PromptInv ==
  /\ \A k \in Keys : NotStarted(k) => sent[k] = NoSession
  /\ \A r \in Requests : At(r, "submit") =>
       /\ ~NotStarted(req[r].key)
       /\ sent[req[r].key] = NoSession
       /\ \A q \in Requests \ {r} : At(q, "submit") => req[q].key # req[r].key

\* That no run returns to a state before its start is part of what the ledger
\* promises.
LEMMA StartedStays ==
  ASSUME IInv, [Next]_vars, NEW k \in Keys, ~NotStarted(k)
  PROVE  ~NotStarted(k)'
  <1> DEFINE st == [j \in Keys |-> run[j].status]
  <1>1. CASE UNCHANGED Ledger!vars
    <2>1. st' = st
      BY <1>1 DEF Ledger!vars
    <2>2. st'[k] = run'[k].status /\ st[k] = run[k].status
      OBVIOUS
    <2> QED
      BY <2>1, <2>2 DEF NotStarted
  <1>2. CASE Ledger!Next
    <2>1. PICK j \in Keys :
            \/ Ledger!Forget(j)
            \/ \E c \in Sessions \cup {NoSession} :
                 Ledger!Accept(j, c) \/ Ledger!Start(j, c) \/ Ledger!Finish(j, c)
      BY <1>2 DEF Ledger!Next
    <2>2. \/ st' = st
          \/ st[j] = "absent" /\ st' = [st EXCEPT ![j] = "pending"]
          \/ \E s \in {"running"} \cup Ledger!Finished : st' = [st EXCEPT ![j] = s]
      BY <2>1 DEF Ledger!Forget, Ledger!Accept, Ledger!Start, Ledger!Finish, Ledger!Become
    <2>3. st[k] \notin {"absent", "pending"}
      BY DEF NotStarted
    <2>4. st'[k] \notin {"absent", "pending"}
      <3> HIDE DEF st
      <3>1. DOMAIN st = Keys
        BY DEF st
      <3> QED
        BY <2>2, <2>3, <3>1 DEF Ledger!Finished
    <2> QED
      BY <2>4 DEF NotStarted
  <1> QED
    BY <1>1, <1>2, StepRefines

\* An invocation that is changed and does not arrive at the submission.
Elsewhere(r) ==
  /\ \A q \in Requests \ {r} : req'[q] = req[q]
  /\ req'[r].pc # "submit"

\* Every step that neither claims a run nor submits its prompt leaves alone
\* what was prompted, sets nobody to work and brings nobody to the submission.
LEMMA PromptsNobody ==
  ASSUME IInv, [Next]_vars,
         \A r \in Requests : ~CreateClaim(r) /\ ~CreateSubmit(r)
  PROVE  /\ sent' = sent
         /\ \A k \in Keys : work'[k] = "working" => work[k] = "working"
         /\ UNCHANGED req \/ \E r \in Requests : Elsewhere(r)
  <1>w. ASSUME NEW S, NEW answer, answer # "working", Interrupted(S, answer)
        PROVE  \A k \in Keys : work'[k] = "working" => work[k] = "working"
    BY <1>w DEF Interrupted
  <1>g. ASSUME NEW r \in Requests, NEW pc \in Points \ {"submit"}, Goto(r, pc)
        PROVE  Elsewhere(r)
    BY <1>g, Went DEF IInv, Elsewhere
  <1>r. ASSUME NEW r \in Requests, Return(r)
        PROVE  Elsewhere(r)
    BY <1>r, Returned DEF IInv, Elsewhere, NoCall
  <1>c. ASSUME NEW r \in Requests, NEW c, c.pc # "submit", req' = [req EXCEPT ![r] = c]
        PROVE  Elsewhere(r)
    BY <1>c DEF IInv, TypeOK, Elsewhere
  <1>p. Points \ {"submit"} = {"idle", "context", "insert", "native", "claim", "check",
          "stop", "delete", "unset", "fail", "lost", "fetch", "write", "abort", "record"}
    BY DEF Points
  <1>n. ASSUME NEW r \in Requests, NEW k \in Keys, Reconciles(r, k)
        PROVE  Elsewhere(r)
    <2>1. PICK pc \in {"fail", "lost", "fetch"} :
            req' = [req EXCEPT ![r] = [NoCall EXCEPT !.pc = pc, !.key = k,
                                                     !.session = run[k].session]]
      BY <1>n DEF Reconciles
    <2>2. [NoCall EXCEPT !.pc = pc, !.key = k, !.session = run[k].session].pc = pc
      BY DEF NoCall
    <2> QED
      BY <1>c, <2>1, <2>2
  <1>1. CASE UNCHANGED vars
    BY <1>1 DEF vars
  <1>2. CASE Server
    <2>1. ASSUME NEW k \in Keys, WorkEnds(k)
          PROVE  \A j \in Keys : work'[j] = "working" => work[j] = "working"
      BY <2>1 DEF WorkEnds, IInv, TypeOK
    <2>2. CASE WorkspaceStops
      BY <2>2, <1>w DEF WorkspaceStops
    <2> QED
      BY <1>2, <2>1, <2>2 DEF Server, WorkEnds, WorkspaceStops, WorkspaceStarts
  <1>3. ASSUME NEW r \in Requests, Creating(r)
        PROVE  /\ sent' = sent
               /\ \A k \in Keys : work'[k] = "working" => work[k] = "working"
               /\ Elsewhere(r)
    <2>1. CASE CreateContext(r)
      <3>1. CASE req' = [req EXCEPT ![r].pc = "insert",
                                    ![r].session = run[req[r].parent].session]
        BY <2>1, <3>1, Known DEF CreateContext, Continuable, Elsewhere, IInv, TypeOK, Calls
      <3> QED
        BY <2>1, <3>1, <1>g, <1>r, <1>p DEF CreateContext, Continuable
    <2>2. CASE CreateInsert(r)
      <3>1. req[r].key \in Keys
        BY <2>2, Known DEF CreateInsert, At
      <3> QED
        BY <2>2, <3>1, <1>g, <1>r, <1>n, <1>p DEF CreateInsert
    <2>3. CASE CreateNative(r)
      <3>1. ASSUME NEW s \in Sessions,
                   req' = [req EXCEPT ![r].pc = "claim", ![r].session = s, ![r].owns = TRUE]
            PROVE  Elsewhere(r)
        BY <3>1, Known DEF Elsewhere, IInv, TypeOK, Calls
      <3>2. Goto(r, "fail") => Elsewhere(r)
        BY <1>g, <1>p
      <3> QED
        BY <2>3, <3>1, <3>2 DEF CreateNative
    <2>4. CASE CreateCheck(r) \/ CreateUnset(r) \/ FailRun(r)
      BY <2>4, <1>g, <1>r, <1>p DEF CreateCheck, CreateUnset, FailRun
    <2>5. CASE CreateStop(r)
      BY <2>5, <1>g, <1>r, <1>p, <1>w DEF CreateStop, Abort, Untouched
    <2>6. CASE CreateDelete(r)
      BY <2>6, <1>g, <1>r, <1>p, <1>w DEF CreateDelete, DeleteSession, Untouched
    <2> QED
      BY <1>3, <2>1, <2>2, <2>3, <2>4, <2>5, <2>6 DEF Creating
  <1>4. ASSUME NEW r \in Requests, Polling(r) \/ Crash(r)
        PROVE  UNCHANGED <<sent, work>> /\ Elsewhere(r)
    <2>1. CASE PollFetch(r)
      <3>1. ASSUME NEW v, req' = [req EXCEPT ![r].pc = "write", ![r].verdict = v]
            PROVE  Elsewhere(r)
        BY <3>1, Known DEF Elsewhere, IInv, TypeOK, Calls
      <3> QED
        BY <2>1, <3>1, <1>r DEF PollFetch
    <2> QED
      BY <1>4, <2>1, <1>r DEF Polling, PollWrite, PollLost, Crash
  <1>5. ASSUME NEW r \in Requests, Cancelling(r)
        PROVE  /\ sent' = sent
               /\ \A k \in Keys : work'[k] = "working" => work[k] = "working"
               /\ Elsewhere(r)
    <2>1. CASE CancelAbort(r)
      <3>1. CASE req' = [req EXCEPT ![r].pc = "record", ![r].verdict = "reusable"]
        <4>1. Elsewhere(r)
          BY <3>1, Known DEF Elsewhere, IInv, TypeOK, Calls
        <4> QED
          BY <2>1, <4>1, <1>w DEF CancelAbort, Abort, Untouched
      <3> QED
        BY <2>1, <3>1, <1>g, <1>r, <1>p, <1>w DEF CancelAbort, Abort, Untouched
    <2> QED
      BY <1>5, <2>1, <1>r DEF Cancelling, CancelRecord
  <1>6. ASSUME NEW r \in Requests, NEW k \in Keys, Poll(r, k) \/ Cancel(r, k)
        PROVE  UNCHANGED <<sent, work>> /\ Elsewhere(r)
    <2>1. CASE Poll(r, k)
      BY <2>1, <1>n DEF Poll
    <2>2. CASE Cancel(r, k)
      <3>1. PICK pc \in {"abort", "record"} :
              req' = [req EXCEPT ![r] = [NoCall EXCEPT !.pc = pc, !.key = k,
                                                       !.session = run[k].session]]
        BY <2>2 DEF Cancel
      <3>2. [NoCall EXCEPT !.pc = pc, !.key = k, !.session = run[k].session].pc = pc
        BY DEF NoCall
      <3> QED
        BY <2>2, <1>c, <3>1, <3>2 DEF Cancel
    <2> QED
      BY <1>6, <2>1, <2>2
  <1>7. ASSUME NEW r \in Requests, NEW k \in Keys, NEW p \in Keys \cup {NoRun},
               CreateBegin(r, k, p)
        PROVE  UNCHANGED <<sent, work>> /\ Elsewhere(r)
    <2>1. [NoCall EXCEPT !.pc = "context", !.key = k, !.parent = p].pc = "context"
      BY DEF NoCall
    <2> QED
      BY <1>7, <2>1, <1>c DEF CreateBegin
  <1> QED
    BY <1>1, <1>2, <1>3, <1>4, <1>5, <1>6, <1>7 DEF Next

\* The claim brings one invocation to the submission, of a run that nobody else
\* has claimed.
LEMMA ClaimPrompts ==
  ASSUME IInv, [Next]_vars, PromptInv, NEW r \in Requests, CreateClaim(r)
  PROVE  PromptInv' /\ UNCHANGED <<sent, work>>
  <1> DEFINE k == req[r].key
  <1>1. k \in Keys /\ UNCHANGED <<sent, work>>
    BY Known DEF CreateClaim, At
  <1>2. CASE run[k].status = "pending"
    <2>1. Goto(r, "submit")
      BY <1>2 DEF CreateClaim
    <2>2. /\ \A q \in Requests \ {r} : req'[q] = req[q]
          /\ req'[r].pc = "submit" /\ req'[r].key = k
      BY <2>1, Went DEF IInv, Points
    <2>3. run'[k].status = "running"
      BY <1>1, <1>2 DEF CreateClaim, IInv, TypeOK, Rows
    <2>4. sent[k] = NoSession /\ \A q \in Requests : At(q, "submit") => req[q].key # k
      BY <1>1, <1>2 DEF PromptInv, NotStarted
    <2>5. run'[k].status \notin {"absent", "pending"}
      BY <2>3
    <2>6. \A q \in Requests : At(q, "submit") => req[q].key \in Keys
      BY Known DEF At
    <2>7. \A j \in Keys : NotStarted(j)' => NotStarted(j)
      BY StartedStays
    <2> QED
      BY <1>1, <2>2, <2>4, <2>5, <2>6, <2>7 DEF PromptInv, At, NotStarted
  <1>3. CASE run[k].status # "pending"
    <2>1. Elsewhere(r)
      BY <1>3, Went, Returned DEF CreateClaim, IInv, Points, NoCall, Elsewhere
    <2>2. run' = run
      BY <1>3 DEF CreateClaim
    <2> QED
      BY <1>1, <2>1, <2>2 DEF PromptInv, At, NotStarted, Elsewhere
  <1> QED
    BY <1>2, <1>3

\* The submission prompts a run that was not prompted, and its invocation goes
\* on, whatever the server did with the prompt.
LEMMA SubmitPrompts ==
  ASSUME IInv, [Next]_vars, PromptInv, NEW r \in Requests, CreateSubmit(r)
  PROVE  /\ PromptInv'
         /\ \A k \in Keys : k # req[r].key => sent'[k] = sent[k] /\ work'[k] = work[k]
         /\ sent[req[r].key] = NoSession
  <1> DEFINE k == req[r].key
  <1>1. k \in Keys /\ ~NotStarted(k) /\ sent[k] = NoSession
    BY Known DEF CreateSubmit, At, PromptInv
  <1>2. \A j \in Keys : j # k => sent'[j] = sent[j] /\ work'[j] = work[j]
    BY DEF CreateSubmit, IInv, TypeOK
  <1>3. Elsewhere(r)
    <2>1. CASE Goto(r, "check")
      BY <2>1, Went DEF IInv, Points, Elsewhere
    <2>2. CASE Catch(r)
      BY <2>2, Known DEF Catch, Elsewhere, IInv, TypeOK, Calls
    <2> QED
      BY <2>1, <2>2 DEF CreateSubmit
  <1>4. run' = run
    BY DEF CreateSubmit
  <1>5. \A q \in Requests \ {r} : At(q, "submit") => req[q].key \in Keys /\ req[q].key # k
    BY Known DEF At, PromptInv, CreateSubmit
  <1>6. PromptInv'
    BY <1>1, <1>2, <1>3, <1>4, <1>5 DEF PromptInv, At, NotStarted, Elsewhere
  <1> QED
    BY <1>1, <1>2, <1>6

\* One step of PromptInv, and what it does to the prompts.
LEMMA PromptStep ==
  ASSUME IInv, [Next]_vars, PromptInv
  PROVE  /\ PromptInv'
         /\ \A k \in Keys :
              sent[k] # NoSession =>
                /\ sent'[k] = sent[k]
                /\ work[k] # "working" => work'[k] # "working"
  <1>1. CASE \E r \in Requests : CreateClaim(r)
    BY <1>1, ClaimPrompts
  <1>2. CASE \E r \in Requests : CreateSubmit(r)
    BY <1>2, SubmitPrompts
  <1>3. CASE \A r \in Requests : ~CreateClaim(r) /\ ~CreateSubmit(r)
    <2>1. /\ sent' = sent
          /\ \A k \in Keys : work'[k] = "working" => work[k] = "working"
          /\ UNCHANGED req \/ \E r \in Requests : Elsewhere(r)
      BY <1>3, PromptsNobody
    <2>2. \A q \in Requests : At(q, "submit")' => At(q, "submit") /\ req'[q] = req[q]
      BY <2>1 DEF Elsewhere, At
    <2>3. \A q \in Requests : At(q, "submit") => req[q].key \in Keys
      BY Known DEF At
    <2>4. \A j \in Keys : NotStarted(j)' => NotStarted(j)
      BY StartedStays
    <2>5. \A k \in Keys : NotStarted(k)' => sent'[k] = NoSession
      BY <2>1, <2>4 DEF PromptInv
    <2>6. ASSUME NEW r \in Requests, At(r, "submit")'
          PROVE  /\ ~NotStarted(req[r].key)'
                 /\ sent'[req'[r].key] = NoSession
                 /\ \A q \in Requests \ {r} : At(q, "submit")' => req'[q].key # req'[r].key
      <3>1. At(r, "submit") /\ req'[r] = req[r] /\ req[r].key \in Keys
        BY <2>2, <2>3, <2>6
      <3>2. ~NotStarted(req[r].key)'
        BY <2>4, <3>1 DEF PromptInv, NotStarted
      <3> QED
        BY <2>1, <2>2, <3>1, <3>2 DEF PromptInv
    <2> QED
      BY <2>1, <2>5, <2>6 DEF PromptInv
  <1> QED
    BY <1>1, <1>2, <1>3

\* However calls of createAgentRun for one key interleave with each other, with
\* reconciliations and with cancellations, and wherever a process dies, the
\* run's prompt is submitted once, to one session.
THEOREM RunsArePromptedOnce == Spec => PromptedOnce
  <1>1. Init => PromptInv
    BY DEF Init, PromptInv, At, NoCall
  <1>2. PromptInv /\ IInv /\ [Next]_vars => PromptInv'
    BY PromptStep
  <1>3. PromptInv /\ IInv /\ [Next]_vars =>
          [\A k \in Keys :
             sent[k] # NoSession =>
               /\ sent'[k] = sent[k]
               /\ work[k] # "working" => work'[k] # "working"]_vars
    BY PromptStep
  <1>4. Spec => []PromptInv
    BY <1>1, <1>2, Invariance, PTL DEF Spec
  <1> QED
    BY <1>3, <1>4, Invariance, PTL DEF Spec, PromptedOnce
=============================================================================
