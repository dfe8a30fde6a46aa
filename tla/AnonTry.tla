------------------------------ MODULE AnonTry ------------------------------
(***************************************************************************)
(* Workspaces to try without an account: the launches from one address,    *)
(* the slot in Redis that allows one of them a day, the sandbox each gets  *)
(* for ten minutes, and the three that end it: the visitor, E2B with its   *)
(* webhook, and a reaper of their own.                                     *)
(*                                                                         *)
(* A launch that fails gives the slot back, unless the visitor is to       *)
(* blame.  `late` is the clock: the trials whose ten minutes are over.     *)
(*                                                                         *)
(* An operator whose name ends in _Bug is no part of the model: it is the  *)
(* operator after it with a plausible mistake, and PROJECT.json says which *)
(* property catches it.                                                    *)
(***************************************************************************)
EXTENDS Naturals, FiniteSets

CONSTANTS
  Trials,  \* launches, each with the workspace id it makes up
  Reaper,  \* the run of the anon reaper
  Visitor  \* the one who stops a trial

VARIABLES
  taken,     \* does the slot's key exist?
  launch,    \* where the handler of each launch is
  sandbox,   \* at E2B
  row,       \* status of each workspace row
  routes,    \* workspaces with a route access row
  late, mail,\* trials whose lease is over; killed webhooks under way
  ender,     \* the handlers that end a trial
  listed,    \* what is left of the reaper's list
  answered   \* trials answered in the slot's window

vars == <<taken, launch, sandbox, row, routes, late, mail, ender, listed, answered>>
trial == <<taken, launch, answered>>

-----------------------------------------------------------------------------
Enders == {Reaper, Visitor}
Nobody == "nobody"

InFlight == {"validate", "prepare", "spawn", "insert", "route", "release"}
EnderCalls == [pc : {"idle", "provider", "write", "routes"}, on : Trials \cup {Nobody}]
NoCall == [pc |-> "idle", on |-> Nobody]

Init ==
  /\ taken = FALSE
  /\ launch = [t \in Trials |-> "new"]
  /\ sandbox = [t \in Trials |-> "none"]
  /\ row = [t \in Trials |-> "none"]
  /\ routes = {} /\ late = {} /\ mail = {} /\ listed = {}
  /\ ender = [e \in Enders |-> NoCall]
  /\ answered = {}

Launch(t, pc) == launch' = [launch EXCEPT ![t] = pc]
SetRow(t, status) == row' = [row EXCEPT ![t] = status]
Kill(t) ==
  /\ sandbox' = [sandbox EXCEPT ![t] = "gone"]
  /\ mail' = IF sandbox[t] = "up" THEN mail \cup {t} ELSE mail

-----------------------------------------------------------------------------
(* tryGitterm                                                              *)

\* A look at the key before it is set.
Cleared_Bug(t) == ~taken \/ \E o \in Trials : launch[o] = "validate"

\* SET NX
Cleared(t) == ~taken

TryBegin(t) ==
  /\ launch[t] = "new"
  /\ IF Cleared(t) THEN taken' = TRUE /\ Launch(t, "validate")
     ELSE UNCHANGED taken /\ Launch(t, "done")
  /\ UNCHANGED <<sandbox, row, routes, late, mail, ender, listed, answered>>

\* A repository that is not there, or that cannot be looked up, is BAD_REQUEST
\* and costs the slot.
TryValidate(t) ==
  /\ launch[t] = "validate"
  /\ Launch(t, "prepare") \/ Launch(t, "done")
  /\ UNCHANGED <<taken, sandbox, row, routes, late, mail, ender, listed, answered>>

\* The user, the provider, the agent, the image and the environment.
TryPrepare(t) ==
  /\ launch[t] = "prepare"
  /\ Launch(t, "spawn") \/ Launch(t, "release")
  /\ UNCHANGED <<taken, sandbox, row, routes, late, mail, ender, listed, answered>>

\* createEphemeralAnonWorkspace; not every step that fails kills the sandbox.
TrySpawn(t) ==
  /\ launch[t] = "spawn"
  /\ \/ /\ sandbox' = [sandbox EXCEPT ![t] = "up"]
        /\ Launch(t, "insert") \/ Launch(t, "release")
     \/ Launch(t, "release") /\ UNCHANGED sandbox
  /\ UNCHANGED <<taken, row, routes, late, mail, ender, listed, answered>>

TryInsert(t) ==
  /\ launch[t] = "insert"
  /\ \/ SetRow(t, "running") /\ Launch(t, "route")
     \/ Launch(t, "release") /\ UNCHANGED row
  /\ UNCHANGED <<taken, sandbox, routes, late, mail, ender, listed, answered>>

TryRoute(t) ==
  /\ launch[t] = "route"
  /\ \/ routes' = routes \cup {t} /\ answered' = answered \cup {t} /\ Launch(t, "done")
     \/ routes' \in {routes, routes \cup {t}} /\ Launch(t, "release") /\ UNCHANGED answered
  /\ UNCHANGED <<taken, sandbox, row, late, mail, ender, listed>>

\* The failure to release is ignored.
TryRelease(t) ==
  /\ launch[t] = "release"
  /\ taken' \in {taken, FALSE}
  /\ Launch(t, "done")
  /\ UNCHANGED <<sandbox, row, routes, late, mail, ender, listed, answered>>

Crash(t) ==
  /\ launch[t] \in InFlight
  /\ Launch(t, "done")
  /\ UNCHANGED <<taken, sandbox, row, routes, late, mail, ender, listed, answered>>

\* A day after it was set: no launch and no lease takes as long.
SlotExpires ==
  /\ taken /\ \A t \in Trials : launch[t] \notin InFlight /\ (sandbox[t] = "none" \/ t \in late)
  /\ taken' = FALSE /\ answered' = {}
  /\ UNCHANGED <<launch, sandbox, row, routes, late, mail, ender, listed>>

-----------------------------------------------------------------------------
(* E2B: the lease and the webhook.                                         *)

LeaseEnds(t) ==
  /\ t \notin late /\ sandbox[t] # "none"
  /\ late' = late \cup {t}
  /\ UNCHANGED <<trial, sandbox, row, routes, mail, ender, listed>>

SandboxKilled(t) ==
  /\ t \in late /\ sandbox[t] = "up"
  /\ Kill(t)
  /\ UNCHANGED <<trial, row, routes, late, ender, listed>>

\* processE2BWebhook, "killed".  A webhook finds no row that is not yet there, or
\* that a stop has taken the sandbox's id from; it may be lost.
Webhook(t) ==
  /\ t \in mail
  /\ mail' = mail \ {t}
  /\ \/ row[t] = "running" /\ SetRow(t, "terminated") /\ routes' \in {routes, routes \ {t}}
     \/ UNCHANGED <<row, routes>>
  /\ UNCHANGED <<trial, sandbox, late, ender, listed>>

-----------------------------------------------------------------------------
(* killAnonWorkspace and terminateWorkspaceInternal.                       *)

Goto(e, pc) == ender' = [ender EXCEPT ![e].pc = pc]
Return(e) == ender' = [ender EXCEPT ![e] = NoCall]
Ending(e, pc) == ender[e].pc = pc

\* The visitor has the cookie of a launch that answered.
VisitorBegin(t) ==
  /\ Ending(Visitor, "idle") /\ t \in answered /\ row[t] = "running"
  /\ ender' = [ender EXCEPT ![Visitor] = [pc |-> "provider", on |-> t]]
  /\ UNCHANGED <<trial, sandbox, row, routes, late, mail, listed>>

\* The comparison of startedAt is the wrong way round.
Straggler_Bug(t) == row[t] = "running" /\ t \notin late

\* getAnonStragglerWorkspaces
Straggler(t) == row[t] = "running" /\ t \in late

ReaperList ==
  /\ Ending(Reaper, "idle") /\ listed = {}
  /\ listed' = {t \in Trials : Straggler(t)}
  /\ UNCHANGED <<trial, sandbox, row, routes, late, mail, ender>>

ReaperBegin(t) ==
  /\ Ending(Reaper, "idle") /\ t \in listed
  /\ listed' = listed \ {t}
  /\ ender' = [ender EXCEPT ![Reaper] = [pc |-> "provider", on |-> t]]
  /\ UNCHANGED <<trial, sandbox, row, routes, late, mail>>

\* Sandbox.kill, whose failure only the visitor's handler ignores.
EndProvider(e) ==
  /\ Ending(e, "provider")
  /\ \/ Kill(ender[e].on) /\ Goto(e, "write")
     \/ UNCHANGED <<sandbox, mail>> /\ IF e = Visitor THEN Goto(e, "write") ELSE Return(e)
  /\ UNCHANGED <<trial, row, routes, late, listed>>

\* The visitor's handler deletes the route access before the write, the reaper's
\* after it.
EndWrite(e) ==
  /\ Ending(e, "write")
  /\ LET t == ender[e].on
     IN  /\ IF e = Visitor THEN routes' \in {routes, routes \ {t}} ELSE UNCHANGED routes
         /\ \/ SetRow(t, "terminated") /\ (IF e = Visitor THEN Return(e) ELSE Goto(e, "routes"))
            \/ UNCHANGED row /\ Return(e)
  /\ UNCHANGED <<trial, sandbox, late, mail, listed>>

EndRoutes(e) ==
  /\ Ending(e, "routes")
  /\ routes' \in {routes, routes \ {ender[e].on}}
  /\ Return(e)
  /\ UNCHANGED <<trial, sandbox, row, late, mail, listed>>

-----------------------------------------------------------------------------
Try(t) ==
  \/ TryBegin(t) \/ TryValidate(t) \/ TryPrepare(t) \/ TrySpawn(t) \/ TryInsert(t)
  \/ TryRoute(t) \/ TryRelease(t)
End(e) == EndProvider(e) \/ EndWrite(e) \/ EndRoutes(e)

Next ==
  \/ \E t \in Trials :
       Try(t) \/ Crash(t) \/ LeaseEnds(t) \/ SandboxKilled(t) \/ Webhook(t)
       \/ VisitorBegin(t) \/ ReaperBegin(t)
  \/ SlotExpires \/ ReaperList \/ (\E e \in Enders : End(e))

Spec == Init /\ [][Next]_vars

\* The reaper gets through with a call for trial t.
Terminates(t) == EndProvider(Reaper) /\ ender[Reaper].on = t /\ ender'[Reaper].pc = "write"
Records(t) == EndWrite(Reaper) /\ ender[Reaper].on = t /\ row'[t] = "terminated"

-----------------------------------------------------------------------------
(* Properties.                                                             *)

\* Every handler works on a trial, and every row has a status its writers give it.
TypeOK ==
  /\ taken \in BOOLEAN
  /\ launch \in [Trials -> InFlight \cup {"new", "done"}]
  /\ sandbox \in [Trials -> {"none", "up", "gone"}]
  /\ row \in [Trials -> {"none", "running", "terminated"}]
  /\ routes \in SUBSET Trials /\ late \in SUBSET Trials /\ mail \in SUBSET Trials
  /\ ender \in [Enders -> EnderCalls] /\ listed \in SUBSET Trials
  /\ answered \in SUBSET Trials

\* An address is given one workspace in a window, and no launch that fails, on
\* whatever step, gives back the slot of one that was answered.
AnsweredOnce == Cardinality(answered) <= 1 /\ (answered # {} => taken)

\* A trial that has a row ends there, be the webhook lost, early or overtaken by
\* the insert, and the visitor gone.
TrialEnds(t) == row[t] = "running" ~> row[t] = "terminated"

\* "one anonymous workspace launch per IP-hash per 24 hours", anon-try.ts:7.
SpawnedOnce == Cardinality({t \in Trials : sandbox[t] # "none" /\ t \notin late}) <= 1

\* A trial that is over is not routed to.
TerminatedHasNoRoutes ==
  \A t \in Trials : row[t] = "terminated" /\ launch[t] = "done" /\ ender = [e \in Enders |-> NoCall]
                    => t \notin routes
=============================================================================
