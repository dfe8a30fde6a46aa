---------------------------- MODULE UsageMetering ----------------------------
(***************************************************************************)
(* The minutes of one user: the workspaces that run, their open usage      *)
(* sessions, the rows of `daily_usage`, the quota they are compared with   *)
(* when a workspace starts, and the quota pass of the reaper.              *)
(*                                                                         *)
(* The row of a day is looked up, and then inserted or updated with what   *)
(* was read; no index keeps a day to one row.  WorkspaceLifecycle has the  *)
(* steps of a start and of a stop in full; here no start and stop of one   *)
(* workspace overlap, and a stop of a workspace may be asked for twice.    *)
(*                                                                         *)
(* An operator whose name ends in _Bug is no part of the model: it is the  *)
(* operator after it with a plausible mistake, and PROJECT.json says which *)
(* property catches it.                                                    *)
(***************************************************************************)
EXTENDS Integers, Sequences, SequencesExt

CONSTANTS
  Workspaces,
  Requests,    \* starts and stops that may be in flight at once
  Reaper,      \* the stop the reaper waits for
  Quota,       \* minutes a day
  MaxSession,  \* bound on the minutes of a session
  MaxStarts,   \* bound on the sessions
  MaxDay       \* bound on the days

VARIABLES
  status,    \* of each workspace
  session,   \* minutes of the open session, begun ones included, or 0
  starts,    \* sessions so far
  usage,     \* the rows of daily_usage
  day,       \* today
  call,      \* the starts and stops in flight
  listed,    \* what is left of the list of the quota pass
  ran,       \* the minutes of the sessions that were closed, by day
  clashed    \* the days on which two accesses to the rows overlapped

vars == <<status, session, starts, usage, day, call, listed, ran, clashed>>

-----------------------------------------------------------------------------
Callers == Requests \cup {Reaper}
Days == 0..MaxDay
NoWorkspace == "none"

Rows == [day : Days, minutes : Nat]
Minutes == 0..MaxSession

\* row: the row that was found, 0 for none.  seen: its minutes.
Calls == [pc : {"idle", "quota", "create", "open", "provider", "select", "close", "look",
                "add", "pause"},
          workspace : Workspaces \cup {NoWorkspace},
          day : Days, minutes : Minutes, row : Nat, seen : Nat]
NoCall == [pc |-> "idle", workspace |-> NoWorkspace, day |-> 0, minutes |-> 0, row |-> 0,
           seen |-> 0]

Init ==
  /\ status = [w \in Workspaces |-> "paused"]
  /\ session = [w \in Workspaces |-> 0]
  /\ starts = 0
  /\ usage = <<>>
  /\ day = 0
  /\ call = [c \in Callers |-> NoCall]
  /\ listed = {}
  /\ ran = [d \in Days |-> 0]
  /\ clashed = {}

At(c, pc) == call[c].pc = pc
Goto(c, pc) == call' = [call EXCEPT ![c].pc = pc]
Return(c) == call' = [call EXCEPT ![c] = NoCall]

RowsOf(d) == {i \in DOMAIN usage : usage[i].day = d}

\* The rows a query for a day may return, 0 when there are none.
Found(d) == IF RowsOf(d) = {} THEN {0} ELSE RowsOf(d)

Insert(d, minutes) == usage' = Append(usage, [day |-> d, minutes |-> minutes])

\* Between the look at the rows of a day and the write that follows it.
Writing(c, d) == call[c].pc \in {"create", "add"} /\ call[c].day = d
Clash(d) == IF \E c \in Callers : Writing(c, d) THEN clashed \cup {d} ELSE clashed

Starting(w) == \E c \in Callers : call[c].workspace = w /\ call[c].pc \in {"quota", "create", "open"}
Stopping(w) == \E c \in Callers : call[c].workspace = w /\ ~Starting(w)

-----------------------------------------------------------------------------
(* Starts: hasRemainingQuota, then createUsageSession.                     *)

StartBegin(c, w) ==
  /\ At(c, "idle") /\ status[w] = "paused"
  /\ ~Starting(w) /\ ~Stopping(w) /\ starts < MaxStarts
  /\ call' = [call EXCEPT ![c] = [NoCall EXCEPT !.pc = "quota", !.workspace = w, !.day = day]]
  /\ starts' = starts + 1
  /\ UNCHANGED <<status, session, usage, day, listed, ran, clashed>>

\* getOrCreateDailyUsage
StartQuota(c) ==
  /\ At(c, "quota")
  /\ \E i \in Found(call[c].day) :
       IF i = 0 THEN Goto(c, "create") /\ clashed' = Clash(call[c].day)
       ELSE /\ IF usage[i].minutes < Quota THEN Goto(c, "open") ELSE Return(c)
            /\ UNCHANGED clashed
  /\ UNCHANGED <<status, session, starts, usage, day, listed, ran>>

StartCreate(c) ==
  /\ At(c, "create")
  /\ Insert(call[c].day, 0)
  /\ Goto(c, "open")
  /\ UNCHANGED <<status, session, starts, day, listed, ran, clashed>>

\* The provider resumes the workspace, or fails to.
StartOpen(c) ==
  /\ At(c, "open")
  /\ LET w == call[c].workspace
     IN  \/ /\ status' = [status EXCEPT ![w] = "running"]
            /\ session' = [session EXCEPT ![w] = 1]
         \/ UNCHANGED <<status, session>>
  /\ Return(c)
  /\ UNCHANGED <<starts, usage, day, listed, ran, clashed>>

-----------------------------------------------------------------------------
(* Stops: pauseWorkspace and pauseWorkspaceInternal, closeUsageSession.    *)

Stop(c, w) == call' = [call EXCEPT ![c] = [NoCall EXCEPT !.pc = "provider", !.workspace = w]]

StopBegin(c, w) ==
  /\ c # Reaper /\ At(c, "idle") /\ status[w] = "running" /\ ~Starting(w)
  /\ Stop(c, w)
  /\ UNCHANGED <<status, session, starts, usage, day, listed, ran, clashed>>

StopProvider(c) ==
  /\ At(c, "provider")
  /\ Goto(c, "select") \/ Return(c)
  /\ UNCHANGED <<status, session, starts, usage, day, listed, ran, clashed>>

StopSelect(c) ==
  /\ At(c, "select")
  /\ LET w == call[c].workspace
     IN  IF session[w] = 0 THEN Goto(c, "pause") /\ UNCHANGED clashed
         ELSE /\ call' = [call EXCEPT ![c].pc = "close", ![c].day = day, ![c].minutes = session[w]]
              /\ LET others == {o \in Callers : call[o].workspace = w /\ At(o, "close")}
                 IN  clashed' = IF others = {} THEN clashed
                                ELSE clashed \cup {day} \cup {call[o].day : o \in others}
  /\ UNCHANGED <<status, session, starts, usage, day, listed, ran>>

\* The update of usage_session: a session that is closed twice has run once.
StopClose(c) ==
  /\ At(c, "close")
  /\ LET w == call[c].workspace
         d == call[c].day
     IN  /\ session' = [session EXCEPT ![w] = 0]
         /\ ran' = IF session[w] = 0 THEN ran ELSE [ran EXCEPT ![d] = @ + call[c].minutes]
  /\ Goto(c, "look")
  /\ UNCHANGED <<status, starts, usage, day, listed, clashed>>

StopLook(c) ==
  /\ At(c, "look")
  /\ \E i \in Found(call[c].day) :
       call' = [call EXCEPT ![c].pc = "add", ![c].row = i,
                            ![c].seen = IF i = 0 THEN 0 ELSE usage[i].minutes]
  /\ clashed' = Clash(call[c].day)
  /\ UNCHANGED <<status, session, starts, usage, day, listed, ran>>

\* The minutes replace what was there.
Total_Bug(c) == call[c].minutes

\* The minutes are taken off, as from the quota.
Remaining_Bug(c) == call[c].seen - call[c].minutes

Total(c) == call[c].seen + call[c].minutes

StopAdd(c) ==
  /\ At(c, "add")
  /\ IF call[c].row = 0 THEN Insert(call[c].day, Total(c))
     ELSE usage' = [usage EXCEPT ![call[c].row].minutes = Total(c)]
  /\ Goto(c, "pause")
  /\ UNCHANGED <<status, session, starts, day, listed, ran, clashed>>

StopPause(c) ==
  /\ At(c, "pause")
  /\ status' = [status EXCEPT ![call[c].workspace] = "paused"]
  /\ Return(c)
  /\ UNCHANGED <<session, starts, usage, day, listed, ran, clashed>>

-----------------------------------------------------------------------------
(* The quota pass.                                                         *)

\* Only what is over the quota.
Exceeded_Bug(d) == \E i \in DOMAIN usage : usage[i].day = d /\ usage[i].minutes > Quota

Exceeded(d) == \E i \in DOMAIN usage : usage[i].day = d /\ usage[i].minutes >= Quota

\* getQuotaExceededWorkspaces: a workspace is joined with every row of its user.
QuotaList ==
  /\ listed = {} /\ At(Reaper, "idle") /\ Exceeded(day)
  /\ listed' = {w \in Workspaces : status[w] = "running"}
  /\ UNCHANGED <<status, session, starts, usage, day, call, ran, clashed>>

\* A workspace that no longer runs is skipped.
QuotaPause(w) ==
  /\ w \in listed /\ At(Reaper, "idle") /\ ~Starting(w)
  /\ listed' = listed \ {w}
  /\ IF status[w] = "running" THEN Stop(Reaper, w) ELSE UNCHANGED call
  /\ UNCHANGED <<status, session, starts, usage, day, ran, clashed>>

Tick ==
  /\ \E w \in Workspaces : session[w] > 0
  /\ \A w \in Workspaces : session[w] < MaxSession
  /\ session' = [w \in Workspaces |-> IF session[w] > 0 THEN session[w] + 1 ELSE 0]
  /\ UNCHANGED <<status, starts, usage, day, call, listed, ran, clashed>>

Midnight ==
  /\ day < MaxDay
  /\ day' = day + 1
  /\ UNCHANGED <<status, session, starts, usage, call, listed, ran, clashed>>

Start(c) == StartQuota(c) \/ StartCreate(c) \/ StartOpen(c)
StopStep(c) == StopSelect(c) \/ StopClose(c) \/ StopLook(c) \/ StopAdd(c) \/ StopPause(c)

Next ==
  \/ \E c \in Callers : Start(c) \/ StopProvider(c) \/ StopStep(c)
  \/ \E c \in Requests, w \in Workspaces : StartBegin(c, w) \/ StopBegin(c, w)
  \/ QuotaList \/ (\E w \in Workspaces : QuotaPause(w))
  \/ Tick \/ Midnight

Spec == Init /\ [][Next]_vars

-----------------------------------------------------------------------------
(* Properties.                                                             *)

Sum(d) == FoldSeq(LAMBDA r, total : total + (IF r.day = d THEN r.minutes ELSE 0), 0, usage)
Pending(d) == \E c \in Callers : call[c].day = d /\ call[c].pc \in {"look", "add"}

\* Every call holds what it has read, and a session is open only where one began.
TypeOK ==
  /\ status \in [Workspaces -> {"paused", "running"}]
  /\ session \in [Workspaces -> Minutes]
  /\ usage \in Seq(Rows)
  /\ day \in Days /\ starts \in 0..MaxStarts
  /\ call \in [Callers -> Calls]
  /\ listed \in SUBSET Workspaces
  /\ ran \in [Days -> Nat] /\ clashed \in SUBSET Days

\* A day has one row, which says the minutes of the sessions closed on it, or none and
\* no minutes, unless two accesses to its rows have overlapped.
UsageIsExact ==
  \A d \in Days \ clashed :
    ~Pending(d) => /\ \A i, j \in RowsOf(d) : i = j
                   /\ \A i \in RowsOf(d) : usage[i].minutes = ran[d]
                   /\ RowsOf(d) = {} => ran[d] = 0

\* While a row of the day is at the quota, workspace w does not keep running.
QuotaIsEnforced(w) ==
  []<>(\/ status[w] = "paused"
       \/ \A i \in DOMAIN usage : usage[i].day = day => usage[i].minutes < Quota)

\* "Daily cloud runtime minutes before the workspace is stopped.", features.ts:
\* the minutes of the sessions still open belong to them.
RuntimeIsLimited(w) == []<>(status[w] = "paused" \/ Sum(day) + session[w] < Quota)

\* What a day is charged is no more than was run.
NeverOverbilled == \A d \in Days : Sum(d) <= ran[d]

\* A day has one row.
OneRowPerDay ==
  \A i, j \in DOMAIN usage : usage[i].day = usage[j].day => i = j
=============================================================================
