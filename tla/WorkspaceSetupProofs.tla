------------------------ MODULE WorkspaceSetupProofs ------------------------
(***************************************************************************)
(* Proofs about WorkspaceSetup: its types and the forward movement of the  *)
(* row for every value of the constants; and, where a pause kills the      *)
(* script and restarts do not overlap, that the row is true and that a     *)
(* setup that is over stays over.                                          *)
(***************************************************************************)
EXTENDS WorkspaceSetup, TLAPS

-----------------------------------------------------------------------------
(* Types.                                                                  *)

\* A launch that moves keeps the shape of the program points.
LEMMA GotoType ==
  ASSUME pc \in [Launches -> Points], NEW l \in Launches, NEW p \in Points,
         Goto(l, p)
  PROVE  pc' \in [Launches -> Points]
  BY DEF Goto

\* What the initial values and the values that are written have for a shape.
LEMMA ValueType ==
  /\ NoClaim \in Claims
  /\ NoHandler \in HandlerStates
  /\ {"none", "zero", "other"} \subseteq Codes
  BY MaxBootAssumption DEF NoClaim, Claims, NoHandler, HandlerStates, Statuses, Codes

\* So does the end of all launches.
LEMMA KillType ==
  ASSUME TypeOK, KillAll
  PROVE  /\ pc' \in [Launches -> Points]
         /\ claim' \in Claims
         /\ pids' \subseteq Launches
  BY ValueType DEF TypeOK, KillAll, Points

\* A report speaks of a state that has been written.
Written == \A l \in Launches : pc[l] \in {"tell", "retell"} => files.state # "absent"

\* Every step of the script, of the workspace and of the API keeps the shapes
\* of the files, the claim, the row, the reports and the handlers.
LEMMA TypesAreKept == Spec => [](TypeOK /\ Written)
<1>1. Init => TypeOK
  BY ValueType, MaxBootAssumption
     DEF Init, TypeOK, Points, Codes, Statuses, Terminal
<1>2. TypeOK /\ Written /\ [Next]_vars => TypeOK'
  <2> SUFFICES ASSUME TypeOK, Written, [Next]_vars PROVE TypeOK'
    OBVIOUS
  <2> USE ValueType
  <2>1. ASSUME NEW l \in Launches, Script(l) PROVE TypeOK'
    <3> USE <2>1
    <3> SUFFICES /\ pc' \in [Launches -> Points]
                 /\ code' \in [Launches -> Codes]
                 /\ files' \in [state : Statuses \cup {"absent"}, exit : Codes]
                 /\ claim' \in Claims
                 /\ inflight' \subseteq Reports
                 /\ UNCHANGED <<world, record, handler>>
      BY DEF TypeOK, world
    <3>1. CASE Start(l) \/ Judge(l)
      BY <3>1, GotoType DEF Start, Judge, TypeOK, Points, api
    <3>2. CASE Claim(l) \/ Remake(l)
      BY <3>2, GotoType, ZenonT(30)
         DEF Claim, Remake, MakeClaim, TypeOK, Points, Claims, NoClaim, api
    <3>3. CASE Take(l)
      BY <3>3, GotoType DEF Take, TypeOK, Points, api
    <3>4. CASE Mark(l)
      BY <3>4, GotoType DEF Mark, TypeOK, Points, Claims, api
    <3>5. CASE Wait(l) \/ BeginRun(l)
      BY <3>5, GotoType DEF Wait, BeginRun, WriteState, TypeOK, Points, Statuses, api
    <3>6. CASE Ready(l) \/ RunCommands(l)
      BY <3>6, GotoType DEF Ready, RunCommands, TypeOK, Points, Codes, api
    <3>7. CASE ReportRunning(l)
      BY <3>7, GotoType DEF ReportRunning, Send, TypeOK, Points, Reports, Statuses
    <3>8. CASE WriteCode(l)
      BY <3>8, GotoType DEF WriteCode, TypeOK, Points, api
    <3>9. CASE Finish(l)
      BY <3>9, GotoType DEF Finish, WriteState, TypeOK, Points, Statuses, Terminal, api
    <3>10. CASE Tell(l)
      <4>1. inflight' \subseteq Reports
        BY <3>10 DEF Tell, Send, At, Written, TypeOK, Reports
      <4> QED
        BY <3>10, <4>1, GotoType DEF Tell, Send, TypeOK, Points
    <3>11. CASE Retell(l)
      <4>1. inflight' \subseteq Reports
        BY <3>11 DEF Retell, Send, At, Written, TypeOK, Reports
      <4> QED
        BY <3>11, <4>1, GotoType DEF Retell, Send, TypeOK, Points
    <3> QED
      BY <3>1, <3>2, <3>3, <3>4, <3>5, <3>6, <3>7, <3>8, <3>9, <3>10, <3>11 DEF Script
  <2>2. ASSUME Workspace PROVE TypeOK'
    <3> USE <2>2
    <3>1. CASE InsertRecord
      BY <3>1 DEF InsertRecord, TypeOK, world, script, Statuses
    <3>2. CASE Pause
      BY <3>2, KillType DEF Pause, TypeOK, api
    <3>3. CASE Resume
      BY <3>3, MaxBootAssumption DEF Resume, TypeOK, script, api
    <3>4. CASE Terminate
      BY <3>4, KillType DEF Terminate, TypeOK, api
    <3>5. ASSUME NEW l \in Launches, Provision(l) \/ ShellExits(l) PROVE TypeOK'
      BY <3>5, GotoType DEF Provision, Launch, ShellExits, TypeOK, Points, script, api
    <3>6. ASSUME NEW l \in Launches, Relaunch(l) PROVE TypeOK'
      BY <3>6, GotoType DEF Relaunch, Launch, TypeOK, Points, api
    <3> QED
      BY <3>1, <3>2, <3>3, <3>4, <3>5, <3>6 DEF Workspace
  <2>3. ASSUME NEW m \in inflight, Lose(m) PROVE TypeOK'
    BY <2>3 DEF Lose, TypeOK, world, script
  <2>4. ASSUME NEW h \in Handlers, PollState(h) \/ PollExit(h) PROVE TypeOK'
    BY <2>4 DEF PollState, PollExit, TypeOK, HandlerStates, Statuses, Codes, Terminal,
                world, script
  <2>5. ASSUME NEW h \in Handlers, Update(h) PROVE TypeOK'
    BY <2>5 DEF Update, TypeOK, HandlerStates, world, script
  <2>6. ASSUME NEW h \in Handlers, NEW m \in inflight, Receive(h, m) PROVE TypeOK'
    BY <2>6 DEF Receive, TypeOK, HandlerStates, Reports, world, script
  <2>7. CASE UNCHANGED vars
    BY <2>7 DEF vars, TypeOK
  <2> QED
    BY <2>1, <2>2, <2>3, <2>4, <2>5, <2>6, <2>7 DEF Next, Handle
<1>3. TypeOK /\ Written /\ [Next]_vars => Written'
  <2> SUFFICES ASSUME TypeOK, Written, [Next]_vars PROVE Written'
    OBVIOUS
  <2>1. ASSUME NEW l \in Launches, Start(l) PROVE Written'
    BY <2>1 DEF Start, Goto, Written, TypeOK, Terminal
  <2>2. ASSUME NEW l \in Launches, Finish(l) \/ Wait(l) \/ BeginRun(l) PROVE Written'
    BY <2>2 DEF Finish, Wait, BeginRun, WriteState, Goto, Written, TypeOK
  <2>3. ASSUME NEW l \in Launches, Script(l), ~Start(l),
               ~(Finish(l) \/ Wait(l) \/ BeginRun(l))
        PROVE  Written'
    BY <2>3 DEF Script, Claim, Judge, Take, Remake, MakeClaim, Mark, Ready, ReportRunning,
                RunCommands, WriteCode, Tell, Retell, Send, Goto, Written, TypeOK
  <2>4. ASSUME Workspace PROVE Written'
    BY <2>4 DEF Workspace, InsertRecord, Pause, Resume, Terminate, KillAll, Provision,
                ShellExits, Relaunch, Launch, Goto, Written, TypeOK, script
  <2>5. CASE UNCHANGED script
    BY <2>5 DEF script, Written
  <2> QED
    BY <2>1, <2>2, <2>3, <2>4, <2>5
       DEF Next, Handle, Lose, PollState, PollExit, Update, Receive, vars, script
<1>4. Init => Written
  BY DEF Init, Written
<1> QED
  BY <1>1, <1>2, <1>3, <1>4, PTL DEF Spec

\* The state is well typed, for every value of the constants.
THEOREM TypeCorrect == Spec => []TypeOK
  BY TypesAreKept, PTL

-----------------------------------------------------------------------------
(* The row moves forward.                                                  *)

\* A handler in flight never carries "waiting".
Told == {"running"} \cup Terminal

HandlersTold == \A h \in Handlers : handler[h].pc # "idle" => handler[h].status \in Told

\* Only reports and polls that carry a later status reach an update.
LEMMA HandlersAreTold == Spec => [](TypeOK /\ HandlersTold)
<1>1. Init => HandlersTold
  BY DEF Init, HandlersTold, NoHandler
<1>2. TypeOK /\ HandlersTold /\ [Next]_vars => HandlersTold'
  <2> SUFFICES ASSUME TypeOK, HandlersTold, [Next]_vars PROVE HandlersTold'
    OBVIOUS
  <2>1. CASE UNCHANGED handler
    BY <2>1 DEF HandlersTold
  <2>2. ASSUME NEW h \in Handlers, PollState(h) \/ PollExit(h) \/ Update(h)
        PROVE  HandlersTold'
    <3>1. handler[h] \in HandlerStates
      BY DEF TypeOK
    <3>2. CASE PollState(h)
      BY <3>2 DEF PollState, HandlersTold, Told, TypeOK
    <3>3. CASE PollExit(h)
      BY <3>1, <3>3 DEF PollExit, HandlersTold, TypeOK, HandlerStates, NoHandler
    <3>4. CASE Update(h)
      BY <3>4 DEF Update, HandlersTold, TypeOK, NoHandler
    <3> QED
      BY <2>2, <3>2, <3>3, <3>4
  <2>3. ASSUME NEW h \in Handlers, NEW m \in inflight, Receive(h, m)
        PROVE  HandlersTold'
    BY <2>3 DEF Receive, HandlersTold, Told, TypeOK
  <2>4. ASSUME NEW l \in Launches, Script(l) PROVE UNCHANGED handler
    BY <2>4 DEF Script, Start, Claim, Judge, Take, Remake, Mark, Wait, Ready, BeginRun,
                ReportRunning, RunCommands, WriteCode, Finish, Tell, Retell, WriteState, api
  <2>5. ASSUME Workspace PROVE UNCHANGED handler
    BY <2>5 DEF Workspace, InsertRecord, Pause, Resume, Terminate, Provision, ShellExits,
                Relaunch, api
  <2>6. ASSUME NEW m \in inflight, Lose(m) PROVE UNCHANGED handler
    BY <2>6 DEF Lose
  <2> QED
    BY <2>1, <2>2, <2>3, <2>4, <2>5, <2>6 DEF Next, Handle, vars
<1> QED
  BY <1>1, <1>2, TypeCorrect, PTL DEF Spec

\* In every mode, with any number of launches, handlers, polls and reports,
\* the row only moves forward and keeps its result.
THEOREM RecordAdvances == Spec => RecordOnlyAdvances
<1>1. TypeOK /\ HandlersTold /\ [Next]_vars =>
        [/\ record.status \in Terminal => record' = record
         /\ record.status = "running" => record'.status # "waiting"]_vars
  <2> SUFFICES ASSUME TypeOK, HandlersTold, [Next]_vars
               PROVE  /\ record.status \in Terminal => record' = record
                      /\ record.status = "running" => record'.status # "waiting"
    OBVIOUS
  <2>1. CASE UNCHANGED record
    BY <2>1
  <2>2. CASE InsertRecord
    BY <2>2 DEF InsertRecord, Terminal
  <2>3. ASSUME NEW h \in Handlers, Update(h)
        PROVE  /\ record.status \in Terminal => record' = record
               /\ record.status = "running" => record'.status # "waiting"
    BY <2>3 DEF Update, AllowedStatuses, HandlersTold, Told, Terminal
  <2>4. ASSUME NEW l \in Launches, Script(l) PROVE UNCHANGED record
    BY <2>4 DEF Script, Start, Claim, Judge, Take, Remake, Mark, Wait, Ready, BeginRun,
                ReportRunning, RunCommands, WriteCode, Finish, Tell, Retell, WriteState, api
  <2>5. ASSUME Workspace, ~InsertRecord PROVE UNCHANGED record
    BY <2>5 DEF Workspace, Pause, Resume, Terminate, Provision, ShellExits, Relaunch, api
  <2>6. ASSUME NEW m \in inflight, Lose(m) PROVE UNCHANGED record
    BY <2>6 DEF Lose
  <2>7. ASSUME NEW h \in Handlers, PollState(h) \/ PollExit(h) PROVE UNCHANGED record
    BY <2>7 DEF PollState, PollExit
  <2>8. ASSUME NEW h \in Handlers, NEW m \in inflight, Receive(h, m)
        PROVE  UNCHANGED record
    BY <2>8 DEF Receive
  <2> QED
    BY <2>1, <2>2, <2>3, <2>4, <2>5, <2>6, <2>7, <2>8 DEF Next, Handle, vars
<1> QED
  BY <1>1, HandlersAreTold, PTL DEF Spec, RecordOnlyAdvances

-----------------------------------------------------------------------------
(* Where a pause kills the script and restarts do not overlap.             *)

Live(l) == pc[l] \notin {"idle", "over"}

\* One launch at most is alive, and none while a restart still owes one.
OneLives ==
  /\ \A k, l \in Launches : Live(k) /\ Live(l) => k = l
  /\ phase # "running" \/ due > 0 => \A l \in Launches : ~Live(l)
  /\ phase = "paused" \/ due > 0 => Launched
  /\ due \in 0..1

\* What the place of a launch says of its exit code and of the files.
Progress(l) ==
  /\ pc[l] \in {"code", "state"} => code[l] # "none"
  /\ pc[l] \in {"state", "tell"} => files.exit = code[l]
  /\ pc[l] \in {"tell", "retell"} => files.state \in Terminal
  /\ files.state \in Terminal => pc[l] \in {"idle", "start", "tell", "retell", "over"}

FilesTrue ==
  files.state \in Terminal =>
    /\ files.exit # "none"
    /\ files.exit = "zero" <=> files.state = "succeeded"

\* Reports and handlers that say the setup is over say what the files say.
ReportsTrue ==
  \A m \in inflight :
    m.status \in Terminal => m = [status |-> files.state, exit |-> files.exit]

HandlersTrue ==
  \A h \in Handlers :
    handler[h].pc # "idle" /\ handler[h].status \in Terminal =>
      /\ files.state = handler[h].status
      /\ handler[h].pc = "write" => handler[h].exit = files.exit

RecordTrue ==
  record.status \in Terminal => record = [status |-> files.state, exit |-> files.exit]

\* Whoever says that the setup is over says what the files say.
AllTrue == FilesTrue /\ ReportsTrue /\ HandlersTrue /\ RecordTrue

IInv == TypeOK /\ Written /\ OneLives /\ (\A l \in Launches : Progress(l)) /\ AllTrue

\* A live launch that moves is still the only one.
LEMMA OneMoves ==
  ASSUME TypeOK, OneLives, NEW l \in Launches, NEW p \in Points \ {"idle", "over"},
         NEW q \in Points \ {"idle"}, At(l, p), Goto(l, q), UNCHANGED <<phase, due>>
  PROVE  /\ OneLives'
         /\ \A k \in Launches \ {l} : pc'[k] \in {"idle", "over"}
         /\ pc[l] = p /\ pc'[l] = q
  <1>1. /\ pc[l] = p /\ pc'[l] = q /\ phase = "running"
        /\ \A k \in Launches \ {l} : pc'[k] = pc[k]
    BY DEF TypeOK, At, Goto
  <1>2. Live(l) /\ \A k \in Launches \ {l} : ~Live(k) /\ ~Live(k)'
    BY <1>1 DEF OneLives, Live
  <1>3. Launched /\ Launched'
    BY <1>1, <1>2 DEF Launched, Live
  <1>4. due = 0 /\ due' = 0 /\ phase' = "running"
    BY <1>1, <1>2 DEF OneLives
  <1>5. \A k \in Launches \ {l} : pc'[k] \in {"idle", "over"}
    BY <1>2 DEF Live
  <1> QED
    BY <1>1, <1>2, <1>3, <1>4, <1>5 DEF OneLives

\* A launch that is not alive says nothing of the files.
LEMMA Silent ==
  ASSUME NEW k \in Launches, pc'[k] \in {"idle", "over"}
  PROVE  Progress(k)'
  BY DEF Progress

\* While the files and what was told of them stay, what was told is true.
LEMMA TrueStays ==
  ASSUME AllTrue, UNCHANGED <<files, record, handler>>, ReportsTrue'
  PROVE  AllTrue'
  BY DEF AllTrue, FilesTrue, HandlersTrue, RecordTrue

\* While no setup is over, nothing that says so has been told.
LEMMA TrueBefore ==
  ASSUME AllTrue, TypeOK, files.state \notin Terminal, UNCHANGED api, FilesTrue'
  PROVE  AllTrue'
  <1>1. /\ record.status \notin Terminal
        /\ \A m \in inflight : m.status \notin Terminal
        /\ \A h \in Handlers : handler[h].pc # "idle" => handler[h].status \notin Terminal
    BY DEF AllTrue, RecordTrue, ReportsTrue, HandlersTrue
  <1> QED
    BY <1>1 DEF AllTrue, RecordTrue, ReportsTrue, HandlersTrue, api

\* A launch that moves without touching the files or telling anything.
LEMMA MovesQuietly ==
  ASSUME IInv, NEW l \in Launches, NEW p \in Points \ {"idle", "over"},
         NEW q \in Points \ {"idle"}, At(l, p), Goto(l, q),
         UNCHANGED <<phase, due, files, api>>, Progress(l)'
  PROVE  OneLives' /\ (\A k \in Launches : Progress(k)') /\ AllTrue'
  <1>1. OneLives' /\ \A k \in Launches \ {l} : pc'[k] \in {"idle", "over"}
    BY OneMoves DEF IInv
  <1>2. \A k \in Launches : Progress(k)'
    BY <1>1, Silent
  <1>3. AllTrue'
    BY TrueStays DEF IInv, AllTrue, ReportsTrue, api
  <1> QED
    BY <1>1, <1>2, <1>3

\* A launch that writes the files before the setup is over.
LEMMA Writes ==
  ASSUME IInv, NEW l \in Launches, NEW p \in Points \ {"idle", "over"},
         NEW q \in Points \ {"idle"}, At(l, p), Goto(l, q), UNCHANGED <<phase, due, api>>,
         p \notin {"start", "tell", "retell"}, Progress(l)', FilesTrue'
  PROVE  OneLives' /\ (\A k \in Launches : Progress(k)') /\ AllTrue'
  <1>1. /\ OneLives' /\ \A k \in Launches \ {l} : pc'[k] \in {"idle", "over"}
        /\ pc[l] = p
    BY OneMoves DEF IInv
  <1>2. \A k \in Launches : Progress(k)'
    BY <1>1, Silent
  <1>3. files.state \notin Terminal
    BY <1>1 DEF IInv, Progress
  <1>4. AllTrue'
    BY <1>3, TrueBefore DEF IInv
  <1> QED
    BY <1>1, <1>2, <1>4

\* Each line of the script keeps the invariant.
LEMMA ScriptKeeps ==
  ASSUME IInv, NEW l \in Launches, Script(l)
  PROVE  OneLives' /\ (\A k \in Launches : Progress(k)') /\ AllTrue'
  <1> USE DEF world
  <1>1. Progress(l) /\ TypeOK
    BY DEF IInv
  <1>2. CASE Start(l)
    <2>1. Progress(l)'
      BY <1>1, <1>2 DEF Start, At, Goto, Progress, TypeOK
    <2> QED
      BY <1>2, <2>1, MovesQuietly DEF Start, Points
  <1>3. CASE Claim(l) \/ Judge(l) \/ Take(l) \/ Remake(l) \/ Mark(l)
    <2>1. PICK p \in {"claim", "judge", "take", "remake", "mark"},
               q \in {"judge", "mark", "over", "take", "remake", "wait"} :
            At(l, p) /\ Goto(l, q)
      BY <1>3 DEF Claim, Judge, Take, Remake, MakeClaim, Mark
    <2>2. UNCHANGED <<phase, due, code, files, api>>
      BY <1>3 DEF Claim, Judge, Take, Remake, Mark
    <2>3. Progress(l)'
      BY <1>1, <2>1, <2>2 DEF At, Goto, Progress, TypeOK
    <2> QED
      BY <2>1, <2>2, <2>3, MovesQuietly DEF Points
  <1>4. CASE Ready(l)
    <2>1. Progress(l)'
      BY <1>1, <1>4 DEF Ready, At, Goto, Progress, TypeOK
    <2> QED
      BY <1>4, <2>1, MovesQuietly DEF Ready, Points
  <1>5. CASE RunCommands(l)
    <2>1. Progress(l)'
      BY <1>1, <1>5 DEF RunCommands, At, Goto, Progress, TypeOK
    <2> QED
      BY <1>5, <2>1, MovesQuietly DEF RunCommands, Points
  <1>6. CASE Wait(l)
    <2>1. Progress(l)' /\ FilesTrue'
      BY <1>1, <1>6 DEF Wait, WriteState, At, Goto, Progress, FilesTrue, TypeOK, Terminal
    <2> QED
      BY <1>6, <2>1, Writes DEF Wait, WriteState, Points
  <1>7. CASE BeginRun(l)
    <2>1. Progress(l)' /\ FilesTrue'
      BY <1>1, <1>7 DEF BeginRun, WriteState, At, Goto, Progress, FilesTrue, TypeOK, Terminal
    <2> QED
      BY <1>7, <2>1, Writes DEF BeginRun, WriteState, Points
  <1>8. CASE WriteCode(l)
    <2>1. Progress(l)' /\ FilesTrue'
      BY <1>1, <1>8 DEF WriteCode, At, Goto, Progress, FilesTrue, TypeOK
    <2> QED
      BY <1>8, <2>1, Writes DEF WriteCode, Points
  <1>9. CASE Finish(l)
    <2>1. Progress(l)' /\ FilesTrue'
      BY <1>1, <1>9 DEF Finish, WriteState, At, Goto, Progress, FilesTrue, TypeOK, Terminal
    <2> QED
      BY <1>9, <2>1, Writes DEF Finish, WriteState, Points
  <1>10. CASE ReportRunning(l)
    <2>1. At(l, "report") /\ Goto(l, "run") /\ UNCHANGED <<phase, due, code, files, record, handler>>
      BY <1>10 DEF ReportRunning, Send
    <2>2. OneLives' /\ \A k \in Launches \ {l} : pc'[k] \in {"idle", "over"}
      BY <2>1, OneMoves DEF IInv, Points
    <2>3. Progress(l)'
      BY <1>1, <2>1 DEF At, Goto, Progress, TypeOK
    <2>4. ReportsTrue'
      BY <1>10, <2>1 DEF ReportRunning, Send, IInv, AllTrue, ReportsTrue, Terminal
    <2> QED
      BY <2>1, <2>2, <2>3, <2>4, Silent, TrueStays DEF IInv
  <1>11. CASE Tell(l)
    <2>1. At(l, "tell") /\ Goto(l, "over") /\ UNCHANGED <<phase, due, code, files, record, handler>>
      BY <1>11 DEF Tell, Send
    <2>2. OneLives' /\ \A k \in Launches \ {l} : pc'[k] \in {"idle", "over"}
      BY <2>1, OneMoves DEF IInv, Points
    <2>3. pc'[l] = "over" /\ files.exit = code[l]
      BY <1>1, <2>1 DEF At, Goto, Progress, TypeOK
    <2>4. ReportsTrue'
      BY <1>11, <2>1, <2>3 DEF Tell, Send, IInv, AllTrue, ReportsTrue
    <2> QED
      BY <2>1, <2>2, <2>3, <2>4, Silent, TrueStays DEF IInv
  <1>12. CASE Retell(l)
    <2>1. At(l, "retell") /\ Goto(l, "over") /\ UNCHANGED <<phase, due, code, files, record, handler>>
      BY <1>12 DEF Retell, Send
    <2>2. OneLives' /\ \A k \in Launches \ {l} : pc'[k] \in {"idle", "over"}
      BY <2>1, OneMoves DEF IInv, Points
    <2>3. pc'[l] = "over" /\ files.exit # "none"
      BY <1>1, <2>1 DEF At, Goto, Progress, FilesTrue, AllTrue, IInv, TypeOK
    <2>4. ReportsTrue'
      BY <1>12, <2>1, <2>3 DEF Retell, Send, IInv, AllTrue, ReportsTrue
    <2> QED
      BY <2>1, <2>2, <2>3, <2>4, Silent, TrueStays DEF IInv
  <1> QED
    BY <1>2, <1>3, <1>4, <1>5, <1>6, <1>7, <1>8, <1>9, <1>10, <1>11, <1>12 DEF Script

\* Pauses that kill, resumes, launches and the insert keep the invariant.
LEMMA WorkspaceKeeps ==
  ASSUME ~Freezes, ~DoubleRestart, IInv, Workspace
  PROVE  OneLives' /\ (\A k \in Launches : Progress(k)') /\ AllTrue'
  <1> USE DEF world, script
  <1>1. TypeOK /\ OneLives /\ AllTrue /\ (\A k \in Launches : Progress(k))
    BY DEF IInv
  <1>2. CASE InsertRecord
    <2>1. UNCHANGED <<phase, due, pc, code, files, inflight, handler>> /\ record'.status \notin Terminal
      BY <1>2 DEF InsertRecord, TypeOK, Terminal, IInv
    <2>2. OneLives'
      BY <1>1, <2>1 DEF OneLives, Live, Launched
    <2>3. \A k \in Launches : Progress(k)'
      BY <1>1, <2>1 DEF Progress
    <2>4. AllTrue'
      BY <1>1, <2>1 DEF AllTrue, FilesTrue, ReportsTrue, HandlersTrue, RecordTrue
    <2> QED
      BY <2>2, <2>3, <2>4
  <1>3. CASE Pause \/ Terminate
    <2>1. /\ KillAll /\ due' = 0 /\ UNCHANGED <<code, files, api>>
          /\ phase' = "paused" => Launched
          /\ phase' # "running"
      BY <1>3 DEF Pause, Terminate
    <2>2. /\ \A k \in Launches : pc'[k] \in {"idle", "over"}
          /\ Launched => Launched'
      BY <1>1, <2>1 DEF KillAll, Launched, TypeOK
    <2>3. OneLives'
      BY <2>1, <2>2 DEF OneLives, Live
    <2>4. AllTrue'
      BY <1>1, <2>1 DEF AllTrue, FilesTrue, ReportsTrue, HandlersTrue, RecordTrue, api
    <2> QED
      BY <2>2, <2>3, <2>4, Silent
  <1>4. CASE Resume
    <2>1. UNCHANGED <<pc, code, files, api>> /\ due' \in 0..1 /\ phase = "paused"
      BY <1>4 DEF Resume
    <2>2. OneLives'
      BY <1>1, <2>1 DEF OneLives, Live, Launched
    <2>3. \A k \in Launches : Progress(k)'
      BY <1>1, <2>1 DEF Progress
    <2>4. AllTrue'
      BY <1>1, <2>1 DEF AllTrue, FilesTrue, ReportsTrue, HandlersTrue, RecordTrue, api
    <2> QED
      BY <2>2, <2>3, <2>4
  <1>5. ASSUME NEW l \in Launches, ShellExits(l) PROVE UNCHANGED <<phase, due, script, api>>
    BY <1>5 DEF ShellExits
  <1>6. ASSUME UNCHANGED <<phase, due, script, api>>
        PROVE  OneLives' /\ (\A k \in Launches : Progress(k)') /\ AllTrue'
    <2>1. OneLives'
      BY <1>1, <1>6 DEF OneLives, Live, Launched
    <2>2. \A k \in Launches : Progress(k)'
      BY <1>1, <1>6 DEF Progress
    <2>3. AllTrue'
      BY <1>1, <1>6 DEF AllTrue, FilesTrue, ReportsTrue, HandlersTrue, RecordTrue, api
    <2> QED
      BY <2>1, <2>2, <2>3
  <1>7. ASSUME NEW l \in Launches, Launch(l), \A k \in Launches : ~Live(k),
               phase = "running", phase' = "running", due' = 0, UNCHANGED <<code, files, api>>
        PROVE  OneLives' /\ (\A k \in Launches : Progress(k)') /\ AllTrue'
    <2>1. pc'[l] = "start" /\ \A k \in Launches \ {l} : pc'[k] \in {"idle", "over"}
      BY <1>1, <1>7 DEF Launch, Goto, Live, TypeOK
    <2>2. OneLives'
      BY <1>7, <2>1 DEF OneLives, Live
    <2>3. \A k \in Launches : Progress(k)'
      BY <2>1 DEF Progress
    <2>4. AllTrue'
      BY <1>1, <1>7 DEF AllTrue, FilesTrue, ReportsTrue, HandlersTrue, RecordTrue, api
    <2> QED
      BY <2>2, <2>3, <2>4
  <1>8. ASSUME NEW l \in Launches, Provision(l)
        PROVE  OneLives' /\ (\A k \in Launches : Progress(k)') /\ AllTrue'
    <2>1. due = 0 /\ \A k \in Launches : ~Live(k)
      BY <1>1, <1>8 DEF Provision, Launched, OneLives, Live
    <2> QED
      BY <1>7, <1>8, <2>1 DEF Provision
  <1>9. ASSUME NEW l \in Launches, Relaunch(l)
        PROVE  OneLives' /\ (\A k \in Launches : Progress(k)') /\ AllTrue'
    <2>1. due = 1 /\ due' = 0 /\ \A k \in Launches : ~Live(k)
      BY <1>1, <1>9 DEF Relaunch, OneLives
    <2>2. CASE Launch(l)
      BY <1>7, <1>9, <2>1, <2>2 DEF Relaunch
    <2>3. CASE UNCHANGED pc
      <3>1. OneLives'
        BY <1>1, <1>9, <2>1, <2>3 DEF Relaunch, OneLives, Live
      <3>2. \A k \in Launches : Progress(k)'
        BY <1>1, <1>9, <2>3 DEF Relaunch, Progress
      <3>3. AllTrue'
        BY <1>1, <1>9 DEF Relaunch, AllTrue, FilesTrue, ReportsTrue, HandlersTrue, RecordTrue, api
      <3> QED
        BY <3>1, <3>2, <3>3
    <2> QED
      BY <1>9, <2>2, <2>3 DEF Relaunch
  <1> QED
    BY <1>2, <1>3, <1>4, <1>5, <1>6, <1>8, <1>9 DEF Workspace

\* Reports that are lost or received, polls and updates keep the invariant.
LEMMA ApiKeeps ==
  ASSUME IInv, UNCHANGED <<world, script>>,
         \/ \E m \in inflight : Lose(m)
         \/ \E h \in Handlers : \/ PollState(h) \/ Handle(h)
                                \/ \E m \in inflight : Receive(h, m)
  PROVE  OneLives' /\ (\A k \in Launches : Progress(k)') /\ AllTrue'
  <1> USE DEF world, script
  <1>1. TypeOK /\ OneLives /\ AllTrue /\ (\A k \in Launches : Progress(k))
    BY DEF IInv
  <1>2. OneLives'
    BY <1>1 DEF OneLives, Live, Launched
  <1>3. \A k \in Launches : Progress(k)'
    BY <1>1 DEF Progress
  <1>4. FilesTrue'
    BY <1>1 DEF AllTrue, FilesTrue
  <1>5. ReportsTrue'
    BY <1>1 DEF AllTrue, ReportsTrue, Lose, PollState, Handle, PollExit, Update, Receive
  <1>6. HandlersTrue'
    <2>1. CASE UNCHANGED handler
      BY <1>1, <2>1 DEF AllTrue, HandlersTrue
    <2>2. ASSUME NEW h \in Handlers, PollState(h) PROVE HandlersTrue'
      BY <1>1, <2>2 DEF AllTrue, HandlersTrue, PollState, TypeOK
    <2>3. ASSUME NEW h \in Handlers, PollExit(h) PROVE HandlersTrue'
      <3>1. handler[h] \in HandlerStates
        BY <1>1 DEF TypeOK
      <3> QED
        BY <1>1, <2>3, <3>1
           DEF AllTrue, HandlersTrue, PollExit, TypeOK, HandlerStates, NoHandler, Terminal
    <2>4. ASSUME NEW h \in Handlers, Update(h) PROVE HandlersTrue'
      BY <1>1, <2>4 DEF AllTrue, HandlersTrue, Update, TypeOK, NoHandler
    <2>5. ASSUME NEW h \in Handlers, NEW m \in inflight, Receive(h, m) PROVE HandlersTrue'
      BY <1>1, <2>5 DEF AllTrue, HandlersTrue, ReportsTrue, Receive, TypeOK
    <2> QED
      BY <2>1, <2>2, <2>3, <2>4, <2>5 DEF Lose, Handle
  <1>7. RecordTrue'
    <2>1. CASE UNCHANGED record
      BY <1>1, <2>1 DEF AllTrue, RecordTrue
    <2>2. ASSUME NEW h \in Handlers, Update(h) PROVE RecordTrue'
      BY <1>1, <2>2 DEF AllTrue, HandlersTrue, RecordTrue, Update
    <2> QED
      BY <2>1, <2>2 DEF Lose, PollState, Handle, PollExit, Receive
  <1> QED
    BY <1>2, <1>3, <1>4, <1>5, <1>6, <1>7 DEF AllTrue

\* Where a pause kills the script and restarts do not overlap, IInv holds.
LEMMA Invariance ==
  ASSUME ~Freezes, ~DoubleRestart
  PROVE  Spec => []IInv
<1> DEFINE Rest == OneLives /\ (\A l \in Launches : Progress(l)) /\ AllTrue
<1>1. Init => Rest
  BY DEF Init, OneLives, Live, Launched, Progress, AllTrue, FilesTrue, ReportsTrue,
         HandlersTrue, RecordTrue, NoHandler, Terminal
<1>2. TypeOK /\ Written /\ Rest /\ [Next]_vars => Rest'
  <2> SUFFICES ASSUME IInv, [Next]_vars PROVE Rest'
    BY DEF IInv
  <2>1. ASSUME NEW l \in Launches, Script(l) PROVE Rest'
    BY <2>1, ScriptKeeps
  <2>2. CASE Workspace
    BY <2>2, WorkspaceKeeps
  <2>3. CASE \/ \E m \in inflight : Lose(m)
             \/ \E h \in Handlers : \/ PollState(h) \/ Handle(h)
                                    \/ \E m \in inflight : Receive(h, m)
    <3>1. UNCHANGED <<world, script>>
      BY <2>3 DEF Lose, PollState, Handle, PollExit, Update, Receive
    <3> QED
      BY <2>3, <3>1, ApiKeeps
  <2>4. CASE UNCHANGED vars
    <3>1. UNCHANGED <<phase, due, pc, code, files, record, inflight, handler>>
      BY <2>4 DEF vars
    <3>2. TypeOK /\ Rest
      BY DEF IInv
    <3>3. OneLives'
      BY <3>1, <3>2 DEF OneLives, Live, Launched
    <3>4. \A l \in Launches : Progress(l)'
      BY <3>1, <3>2 DEF Progress
    <3>5. AllTrue'
      BY <3>1, <3>2 DEF AllTrue, FilesTrue, ReportsTrue, HandlersTrue, RecordTrue
    <3> QED
      BY <3>3, <3>4, <3>5
  <2> QED
    BY <2>1, <2>2, <2>3, <2>4 DEF Next
<1>3. Spec => [](TypeOK /\ Written)
  BY TypesAreKept
<1>4. TypeOK /\ Written /\ Rest => IInv
  BY DEF IInv
<1> QED
  BY <1>1, <1>2, <1>3, <1>4, PTL DEF Spec

\* Under the same conditions, for any number of launches, boots, recurring
\* pids, reports and polls: the row that says the setup is over says what the
\* files say.
THEOREM RecordsAreTrue ==
  ASSUME ~Freezes, ~DoubleRestart
  PROVE  Spec => []RecordIsTrue
<1>1. IInv => RecordIsTrue
  BY DEF IInv, AllTrue, RecordTrue, FilesTrue, RecordIsTrue
<1> QED
  BY <1>1, Invariance, PTL

\* Under the same conditions no launch, however often the script is killed and
\* launched again, touches the files of a setup that is over.
THEOREM SetupsStayFinished ==
  ASSUME ~Freezes, ~DoubleRestart
  PROVE  Spec => FinishedStaysFinished
<1>1. IInv /\ [Next]_vars => [files.state \in Terminal => files' = files]_vars
  <2> SUFFICES ASSUME IInv, [Next]_vars, files.state \in Terminal PROVE UNCHANGED files
    OBVIOUS
  <2>1. ASSUME NEW l \in Launches, Script(l) PROVE UNCHANGED files
    <3>1. pc[l] \in {"idle", "start", "tell", "retell", "over"}
      BY DEF IInv, Progress
    <3> QED
      BY <2>1, <3>1
         DEF Script, Start, Claim, Judge, Take, Remake, Mark, Wait, Ready, BeginRun,
             ReportRunning, RunCommands, WriteCode, Finish, Tell, Retell, WriteState, Send, At
  <2>2. CASE Workspace
    BY <2>2 DEF Workspace, InsertRecord, Pause, Resume, Terminate, Provision, ShellExits,
                Relaunch, script
  <2> QED
    BY <2>1, <2>2
       DEF Next, Lose, PollState, Handle, PollExit, Update, Receive, script, vars
<1> QED
  BY <1>1, Invariance, PTL DEF Spec, FinishedStaysFinished

=============================================================================
