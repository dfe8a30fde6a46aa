---------------------------- MODULE WorkerProofs ----------------------------
(***************************************************************************)
(* The jobs of WorkerJobs, for any number of workspaces, trials and        *)
(* handlers: on AWS a workspace with a row is whole and a row that lets go *)
(* of its service has none, and what a day is charged is what was run.     *)
(*                                                                         *)
(* On AWS the argument follows one workspace.  Its handler is the only one *)
(* that creates for it, and only before it has a row; the sweep retries    *)
(* only what was terminated, and purges only what it was not told of,      *)
(* which a workspace that is created or live is, unless it is in           *)
(* `unlisted`.                                                             *)
(*                                                                         *)
(* The books of the quota pass balance on a day whose rows and sessions no *)
(* two calls were at: what was run on it is in its one row, or a call has  *)
(* it in hand.  What the calls have in hand is summed by a function of the *)
(* set of calls that the proof carries along, for it changes with one call *)
(* at a time.                                                              *)
(***************************************************************************)
EXTENDS WorkerJobs, Sequences, TLAPS

\* The kinds that are there when the creation gets to one.
Before == [k \in Kinds |->
  CASE k = "target group" -> {}
    [] k = "access point" -> {"target group"}
    [] k = "task definition" -> {"target group", "access point"}
    [] k = "rule" -> {"target group", "access point", "task definition"}
    [] OTHER -> {"target group", "access point", "task definition", "rule"}]

Made(w, kinds) == \A k \in kinds : resource[w][k] = "tagged"

Dead(w) == row[w] \in {"terminated", "cleared"}
Working(h) == call[h].pc \in {"service", "rest", "clear"}

\* Where the handler of a workspace is tells what its row says.
RowFollowsHandler ==
  \A w \in Workspaces :
    /\ call[w].on = w
    /\ call[w].pc \notin {"retry", "purge"}
    /\ At(w, "unborn") \/ Creating(w) => row[w] = "none"
    /\ At(w, "idle") <=> row[w] = "live"
    /\ Working(w) => Dead(w)

\* The sweep is at work on a row that is dead, and gets to others that are.
SweepRetriesTheDead ==
  /\ call[Sweeper].pc \in {"idle", "retry", "purge"} \/ Working(Sweeper)
  /\ Working(Sweeper) => call[Sweeper].on \in Workspaces /\ Dead(call[Sweeper].on)
  /\ At(Sweeper, "retry") \/ Working(Sweeper) => \A w \in call[Sweeper].todo : Dead(w)

\* A purge knows of what lives and of what is being created, or it is written down.
PurgeKnows ==
  Purging => \A w \in Workspaces :
               Creating(w) \/ row[w] = "live" => w \in call[Sweeper].todo \cup unlisted

\* A creation has made what comes before the kind it is at.
MadeSoFar ==
  \A w \in Workspaces \ unlisted :
    /\ At(w, "unborn") => call[w].kind = "target group"
    /\ call[w].pc \in {"create", "tag"} => Made(w, Needs(w) \cap Before[call[w].kind])
    /\ call[w].pc \in {"wait", "insert", "idle"} => Made(w, Needs(w))

\* The row is cleared after the service is gone.
ServiceGone ==
  /\ \A h \in Handlers : call[h].pc \in {"rest", "clear"} => ~Has(call[h].on, "service")
  /\ ClearedMeansStopped

IInv ==
  /\ TypeOK /\ RowFollowsHandler /\ SweepRetriesTheDead /\ PurgeKnows
  /\ MadeSoFar /\ ServiceGone

-----------------------------------------------------------------------------
(* The operators.                                                          *)

LEMMA WithoutOK ==
  ASSUME TypeOK, NEW w \in Workspaces, NEW gone
  PROVE  /\ Without(w, gone) \in [Kinds -> Tags]
         /\ \A k \in Kinds : Without(w, gone)[k] \in {"none", resource[w][k]}
BY DEF TypeOK, Without, Tags

LEMMA AfterOK ==
  ASSUME NEW w \in Workspaces, NEW k \in Kinds
  PROVE  /\ After(w, k) \in Kinds
         /\ After(w, k) # k => Needs(w) \cap Before[After(w, k)] \subseteq Before[k] \cup {k}
         /\ After(w, k) = k => Needs(w) \subseteq Before[k] \cup {k}
BY DEF After, Kinds, Needs, Before

LEMMA RestingOK ==
  ASSUME NEW h \in Handlers, NEW pc \in Points
  PROVE  Resting(h, pc) \in Calls
BY DEF Resting, Calls, Kinds

LEMMA RestingIs ==
  ASSUME NEW h, NEW pc
  PROVE  /\ Resting(h, pc).on = h /\ Resting(h, pc).pc = pc
         /\ Resting(h, pc).kind = "target group"
BY DEF Resting

LEMMA InitIInv == Init => IInv
<1> SUFFICES ASSUME Init PROVE IInv
  OBVIOUS
<1>1. \A h \in Handlers : call[h] = Resting(h, IF h = Sweeper THEN "idle" ELSE "unborn")
  BY DEF Init
<1>2. TypeOK
  BY <1>1, RestingOK DEF Init, TypeOK, Nothing, Tags, Points
<1>3. \A h \in Handlers : /\ call[h].on = h /\ call[h].kind = "target group"
                          /\ call[h].pc = (IF h = Sweeper THEN "idle" ELSE "unborn")
  <2> TAKE h \in Handlers
  <2> PICK pc : pc = IF h = Sweeper THEN "idle" ELSE "unborn"
    OBVIOUS
  <2>1. call[h] = Resting(h, pc)
    BY <1>1
  <2>2. /\ Resting(h, pc).on = h /\ Resting(h, pc).pc = pc
        /\ Resting(h, pc).kind = "target group"
    BY RestingIs
  <2> QED
    BY <2>1, <2>2
<1>4. RowFollowsHandler /\ MadeSoFar /\ ServiceGone
  <2>1. \A w \in Workspaces : /\ call[w].on = w /\ call[w].kind = "target group"
                              /\ call[w].pc = "unborn" /\ row[w] = "none"
    BY <1>3, SweeperAssumption DEF Init, Handlers
  <2>2. RowFollowsHandler
    BY <2>1 DEF RowFollowsHandler, At, Creating, Working
  <2>3. MadeSoFar
    BY <2>1 DEF MadeSoFar
  <2>4. ServiceGone
    BY <1>3, <2>1 DEF ServiceGone, ClearedMeansStopped
  <2> QED
    BY <2>2, <2>3, <2>4
<1>5. SweepRetriesTheDead /\ PurgeKnows
  BY <1>3 DEF SweepRetriesTheDead, PurgeKnows, Purging, Handlers, At, Working
<1> QED
  BY <1>2, <1>4, <1>5 DEF IInv

-----------------------------------------------------------------------------
(* A step of the handler of one workspace.                                 *)

\* What the step must show of its own workspace, the rest being as it was.
LEMMA OwnStep ==
  ASSUME IInv, TypeOK', NEW w \in Workspaces,
         \A o \in Handlers \ {w} : call'[o] = call[o],
         \A o \in Workspaces \ {w} : resource'[o] = resource[o] /\ row'[o] = row[o],
         unlisted \subseteq unlisted',
         /\ call'[w].on = w
         /\ call'[w].pc \notin {"unborn", "retry", "purge"}
         /\ Creating(w)' => row'[w] = "none"
         /\ At(w, "idle")' <=> row'[w] = "live"
         /\ Working(w)' => Dead(w)',
         Dead(w) => Dead(w)' /\ (~Has(w, "service") => ~Has(w, "service")'),
         Purging /\ (Creating(w)' \/ row'[w] = "live") => w \in call[Sweeper].todo \cup unlisted',
         w \notin unlisted' =>
           /\ call'[w].pc \in {"create", "tag"} => Made(w, Needs(w) \cap Before[call[w].kind])'
           /\ call'[w].pc \in {"wait", "insert", "idle"} => Made(w, Needs(w))',
         call'[w].pc \in {"rest", "clear"} \/ row'[w] = "cleared" => ~Has(w, "service")'
  PROVE  IInv'
<1> USE SweeperAssumption DEF Handlers
<1>1. call'[Sweeper] = call[Sweeper]
  OBVIOUS
<1>2. RowFollowsHandler'
  BY DEF IInv, RowFollowsHandler, At, Creating, Working, Dead
<1>3. \A o \in Workspaces : Dead(o) => Dead(o)'
  BY DEF Dead
<1>4. SweepRetriesTheDead'
  BY <1>1, <1>3 DEF IInv, SweepRetriesTheDead, Working, At, TypeOK, Calls
<1>5. PurgeKnows'
  BY <1>1 DEF IInv, PurgeKnows, Purging, At, Creating
<1>6. MadeSoFar'
  <2> SUFFICES ASSUME NEW o \in Workspaces, o \notin unlisted'
               PROVE  /\ At(o, "unborn")' => (call[o].kind = "target group")'
                      /\ (call[o].pc \in {"create", "tag"} =>
                            Made(o, Needs(o) \cap Before[call[o].kind]))'
                      /\ (call[o].pc \in {"wait", "insert", "idle"} => Made(o, Needs(o)))'
    BY DEF MadeSoFar
  <2>1. CASE o = w
    BY <2>1 DEF At
  <2>2. CASE o # w
    <3>1. call'[o] = call[o] /\ resource'[o] = resource[o] /\ o \notin unlisted
      BY <2>2
    <3>2. /\ At(o, "unborn") => call[o].kind = "target group"
          /\ call[o].pc \in {"create", "tag"} => Made(o, Needs(o) \cap Before[call[o].kind])
          /\ call[o].pc \in {"wait", "insert", "idle"} => Made(o, Needs(o))
      BY <3>1 DEF IInv, MadeSoFar
    <3> QED
      BY <3>1, <3>2 DEF Made, At
  <2> QED
    BY <2>1, <2>2
<1>7. ServiceGone'
  <2>1. \A o \in Workspaces \ {w} : Has(o, "service")' <=> Has(o, "service")
    BY DEF Has
  <2>2. ClearedMeansStopped'
    BY <2>1 DEF IInv, ServiceGone, ClearedMeansStopped
  <2>3. ASSUME NEW h \in Handlers, call'[h].pc \in {"rest", "clear"}
        PROVE  (~Has(call[h].on, "service"))'
    <3>1. CASE h = w
      BY <2>3, <3>1
    <3>2. CASE h = Sweeper
      <4>1. call[h].on \in Workspaces /\ Dead(call[h].on) /\ ~Has(call[h].on, "service")
        BY <1>1, <2>3, <3>2 DEF IInv, SweepRetriesTheDead, Working, ServiceGone
      <4> QED
        BY <1>1, <2>1, <3>2, <4>1
    <3>3. CASE h \in Workspaces \ {w}
      <4>1. call[h].on = h /\ ~Has(h, "service")
        BY <2>3, <3>3 DEF IInv, RowFollowsHandler, ServiceGone
      <4> QED
        BY <2>1, <3>3, <4>1
    <3> QED
      BY <3>1, <3>2, <3>3
  <2> QED
    BY <2>2, <2>3 DEF ServiceGone
<1> QED
  BY <1>2, <1>4, <1>5, <1>6, <1>7 DEF IInv

\* What the step of a handler or of the sweep must show if it only takes away.
LEMMA SweepStep ==
  ASSUME IInv, TypeOK',
         \A w \in Workspaces : call'[w] = call[w],
         unlisted \subseteq unlisted',
         \A w \in Workspaces : IF Dead(w) THEN Dead(w)' ELSE row'[w] = row[w],
         \A w \in Workspaces \ unlisted' :
           Creating(w) \/ row[w] = "live" => resource'[w] = resource[w],
         \A w \in Workspaces : ~Has(w, "service") => ~Has(w, "service")',
         \A w \in Workspaces : row'[w] = "cleared" /\ row[w] # "cleared" => ~Has(w, "service"),
         SweepRetriesTheDead', PurgeKnows',
         call'[Sweeper].pc \in {"rest", "clear"} => (~Has(call[Sweeper].on, "service"))'
  PROVE  IInv'
<1> USE SweeperAssumption DEF Handlers
<1>1. RowFollowsHandler'
  BY DEF IInv, RowFollowsHandler, At, Creating, Working, Dead
<1>2. MadeSoFar'
  <2> SUFFICES ASSUME NEW o \in Workspaces, o \notin unlisted'
               PROVE  /\ At(o, "unborn")' => (call[o].kind = "target group")'
                      /\ (call[o].pc \in {"create", "tag"} =>
                            Made(o, Needs(o) \cap Before[call[o].kind]))'
                      /\ (call[o].pc \in {"wait", "insert", "idle"} => Made(o, Needs(o)))'
    BY DEF MadeSoFar
  <2>1. call'[o] = call[o] /\ o \notin unlisted
    OBVIOUS
  <2>2. /\ At(o, "unborn") => call[o].kind = "target group"
        /\ call[o].pc \in {"create", "tag"} => Made(o, Needs(o) \cap Before[call[o].kind])
        /\ call[o].pc \in {"wait", "insert", "idle"} => Made(o, Needs(o))
    BY <2>1 DEF IInv, MadeSoFar
  <2>3. call[o].pc \in {"create", "tag", "wait", "insert", "idle"} => resource'[o] = resource[o]
    BY DEF IInv, RowFollowsHandler, Creating, At
  <2> QED
    BY <2>1, <2>2, <2>3 DEF Made, At
<1>3. ServiceGone'
  <2>1. ClearedMeansStopped'
    BY DEF IInv, ServiceGone, ClearedMeansStopped
  <2>2. ASSUME NEW h \in Workspaces, call'[h].pc \in {"rest", "clear"}
        PROVE  (~Has(call[h].on, "service"))'
    <3>1. call[h].on = h /\ ~Has(h, "service") /\ call'[h].on = h
      BY <2>2 DEF IInv, RowFollowsHandler, ServiceGone
    <3> QED
      BY <3>1 DEF Has
  <2> QED
    BY <2>1, <2>2 DEF ServiceGone
<1> QED
  BY <1>1, <1>2, <1>3 DEF IInv

-----------------------------------------------------------------------------
(* Types.                                                                  *)

\* What a step may do to each variable, in the forms the actions use.
LEMMA Shapes ==
  ASSUME TypeOK, NEW h \in Handlers, NEW pc \in Points
  PROVE  /\ Goto(h, pc) => call' \in [Handlers -> Calls]
         /\ End(h, pc) => call' \in [Handlers -> Calls]
         /\ \A w, gone : Drop(w, gone) => resource' \in [Workspaces -> [Kinds -> Tags]]
         /\ \A w, k : \A tag \in Tags : Put(w, k, tag) => resource' \in [Workspaces -> [Kinds -> Tags]]
<1>1. Goto(h, pc) => call' \in [Handlers -> Calls]
  BY DEF TypeOK, Goto, Calls
<1>2. End(h, pc) => call' \in [Handlers -> Calls]
  BY RestingOK DEF TypeOK, End
<1>3. ASSUME NEW w, NEW gone, Drop(w, gone)
      PROVE  resource' \in [Workspaces -> [Kinds -> Tags]]
  <2>1. w \in Workspaces => Without(w, gone) \in [Kinds -> Tags]
    BY WithoutOK
  <2> QED
    BY <1>3, <2>1 DEF Drop, TypeOK
<1>4. ASSUME NEW w, NEW k, NEW tag \in Tags, Put(w, k, tag)
      PROVE  resource' \in [Workspaces -> [Kinds -> Tags]]
  BY <1>4 DEF Put, TypeOK
<1> QED
  BY <1>1, <1>2, <1>3, <1>4

\* The updates of a handler's record: the fields named keep their types.
LEMMA UpdatePcKnown ==
  ASSUME TypeOK, NEW h \in Handlers, NEW pc \in Points, NEW known \in SUBSET Kinds
  PROVE  [call EXCEPT ![h].pc = pc, ![h].known = known] \in [Handlers -> Calls]
<1>1. call[h] \in Calls
  BY DEF TypeOK
<1>2. [call[h] EXCEPT !.pc = pc, !.known = known] \in Calls
  BY <1>1 DEF Calls
<1>3. [call EXCEPT ![h].pc = pc, ![h].known = known]
        = [call EXCEPT ![h] = [call[h] EXCEPT !.pc = pc, !.known = known]]
  BY <1>1 DEF TypeOK
<1> QED
  BY <1>2, <1>3 DEF TypeOK

LEMMA UpdatePcKindKnown ==
  ASSUME TypeOK, NEW h \in Handlers, NEW pc \in Points, NEW kind \in Kinds, NEW known \in SUBSET Kinds
  PROVE  [call EXCEPT ![h].pc = pc, ![h].kind = kind, ![h].known = known] \in [Handlers -> Calls]
<1>1. call[h] \in Calls
  BY DEF TypeOK
<1>2. [call[h] EXCEPT !.pc = pc, !.kind = kind, !.known = known] \in Calls
  BY <1>1 DEF Calls
<1>3. [call EXCEPT ![h].pc = pc, ![h].kind = kind, ![h].known = known]
        = [call EXCEPT ![h] = [call[h] EXCEPT !.pc = pc, !.kind = kind, !.known = known]]
  BY <1>1 DEF TypeOK
<1> QED
  BY <1>2, <1>3 DEF TypeOK

LEMMA UpdatePcTodo ==
  ASSUME TypeOK, NEW h \in Handlers, NEW pc \in Points, NEW todo \in SUBSET Workspaces
  PROVE  [call EXCEPT ![h].pc = pc, ![h].todo = todo] \in [Handlers -> Calls]
<1>1. call[h] \in Calls
  BY DEF TypeOK
<1>2. [call[h] EXCEPT !.pc = pc, !.todo = todo] \in Calls
  BY <1>1 DEF Calls
<1>3. [call EXCEPT ![h].pc = pc, ![h].todo = todo]
        = [call EXCEPT ![h] = [call[h] EXCEPT !.pc = pc, !.todo = todo]]
  BY <1>1 DEF TypeOK
<1> QED
  BY <1>2, <1>3 DEF TypeOK

LEMMA UpdatePcOnTodo ==
  ASSUME TypeOK, NEW h \in Handlers, NEW pc \in Points, NEW on \in Handlers, NEW todo \in SUBSET Workspaces
  PROVE  [call EXCEPT ![h].pc = pc, ![h].on = on, ![h].todo = todo] \in [Handlers -> Calls]
<1>1. call[h] \in Calls
  BY DEF TypeOK
<1>2. [call[h] EXCEPT !.pc = pc, !.on = on, !.todo = todo] \in Calls
  BY <1>1 DEF Calls
<1>3. [call EXCEPT ![h].pc = pc, ![h].on = on, ![h].todo = todo]
        = [call EXCEPT ![h] = [call[h] EXCEPT !.pc = pc, !.on = on, !.todo = todo]]
  BY <1>1 DEF TypeOK
<1> QED
  BY <1>2, <1>3 DEF TypeOK

LEMMA UpdatePcKindTodo ==
  ASSUME TypeOK, NEW h \in Handlers, NEW pc \in Points, NEW kind \in Kinds, NEW todo \in SUBSET Workspaces
  PROVE  [call EXCEPT ![h].pc = pc, ![h].kind = kind, ![h].todo = todo] \in [Handlers -> Calls]
<1>1. call[h] \in Calls
  BY DEF TypeOK
<1>2. [call[h] EXCEPT !.pc = pc, !.kind = kind, !.todo = todo] \in Calls
  BY <1>1 DEF Calls
<1>3. [call EXCEPT ![h].pc = pc, ![h].kind = kind, ![h].todo = todo]
        = [call EXCEPT ![h] = [call[h] EXCEPT !.pc = pc, !.kind = kind, !.todo = todo]]
  BY <1>1 DEF TypeOK
<1> QED
  BY <1>2, <1>3 DEF TypeOK

LEMMA UpdateKind ==
  ASSUME TypeOK, NEW h \in Handlers, NEW kind \in Kinds
  PROVE  [call EXCEPT ![h].kind = kind] \in [Handlers -> Calls]
<1>1. call[h] \in Calls
  BY DEF TypeOK
<1>2. [call[h] EXCEPT !.kind = kind] \in Calls
  BY <1>1 DEF Calls
<1>3. [call EXCEPT ![h].kind = kind]
        = [call EXCEPT ![h] = [call[h] EXCEPT !.kind = kind]]
  BY <1>1 DEF TypeOK
<1> QED
  BY <1>2, <1>3 DEF TypeOK

LEMMA ProvisionType ==
  ASSUME TypeOK, NEW w \in Workspaces, Provision(w)
  PROVE  TypeOK'
<1> USE DEF Handlers
<1>0. call[w].kind \in Kinds
  BY DEF TypeOK, Calls
<1>1. CASE ProvisionBegin(w)
  BY <1>1, Shapes DEF ProvisionBegin, TypeOK, Points
<1>2. CASE ProvisionCreate(w)
  <2>1. Failed(w) => call' \in [Handlers -> Calls]
    BY Shapes DEF Failed, Points
  <2>2. call' = [call EXCEPT ![w].pc = "tag",
                             ![w].known = IF KnownAtOnce(call[w].kind) THEN @ \cup {call[w].kind} ELSE @]
        => call' \in [Handlers -> Calls]
    <3>1. call[w].known \in SUBSET Kinds
      BY DEF TypeOK, Calls
    <3> PICK known : known = IF KnownAtOnce(call[w].kind) THEN call[w].known \cup {call[w].kind}
                             ELSE call[w].known
      OBVIOUS
    <3>2. known \in SUBSET Kinds /\ "tag" \in Points
      BY <1>0, <3>1 DEF Points
    <3>3. [call EXCEPT ![w].pc = "tag", ![w].known = known] \in [Handlers -> Calls]
      BY <3>2, UpdatePcKnown
    <3> QED
      BY <3>3
  <2>3. \A k \in Kinds : Put(w, k, "bare") => resource' \in [Workspaces -> [Kinds -> Tags]]
    BY DEF Put, TypeOK, Tags
  <2> QED
    BY <1>0, <1>2, <2>1, <2>2, <2>3 DEF ProvisionCreate, TypeOK
<1>3. CASE ProvisionTag(w)
  <2>1. Failed(w) => call' \in [Handlers -> Calls]
    BY Shapes DEF Failed, Points
  <2>2. After(w, call[w].kind) \in Kinds
    BY <1>0, AfterOK
  <2>3. ASSUME NEW pc \in Points,
               call' = [call EXCEPT ![w].pc = pc, ![w].kind = After(w, call[w].kind),
                                    ![w].known = @ \cup {call[w].kind}]
        PROVE  call' \in [Handlers -> Calls]
    <3>1. call[w].known \cup {call[w].kind} \in SUBSET Kinds
      BY <1>0 DEF TypeOK, Calls
    <3> QED
      BY <2>2, <2>3, <3>1, UpdatePcKindKnown
  <2>4. \A k \in Kinds : Put(w, k, "tagged") => resource' \in [Workspaces -> [Kinds -> Tags]]
    BY DEF Put, TypeOK, Tags
  <2>5. (IF After(w, call[w].kind) = call[w].kind THEN "wait" ELSE "create") \in Points
    BY DEF Points
  <2> QED
    BY <1>0, <1>3, <2>1, <2>3, <2>4, <2>5 DEF ProvisionTag, TypeOK
<1>4. CASE ProvisionWait(w)
  BY <1>4, Shapes DEF ProvisionWait, TypeOK, Points
<1>5. CASE ProvisionInsert(w)
  BY <1>5, Shapes DEF ProvisionInsert, TypeOK, Points
<1>6. CASE ProvisionRollback(w)
  BY <1>6, Shapes DEF ProvisionRollback, TypeOK, Points
<1> QED
  BY <1>1, <1>2, <1>3, <1>4, <1>5, <1>6 DEF Provision

LEMMA TeardownType ==
  ASSUME TypeOK, NEW h \in Handlers, Teardown(h) \/ Crash(h)
  PROVE  TypeOK'
<1>1. ASSUME Finished(h)
      PROVE  call' \in [Handlers -> Calls]
  <2>1. CASE h = Sweeper
    BY <1>1, <2>1 DEF Finished, TypeOK, Calls, Points
  <2>2. CASE h # Sweeper
    BY <1>1, <2>2, Shapes DEF Finished, Points
  <2> QED
    BY <2>1, <2>2
<1>2. CASE TeardownService(h)
  BY <1>1, <1>2, Shapes DEF TeardownService, ServiceKept, TypeOK, Points
<1>3. CASE TeardownRest(h)
  BY <1>3, Shapes DEF TeardownRest, TypeOK, Points
<1>4. CASE TeardownClear(h)
  BY <1>1, <1>4 DEF TeardownClear, TypeOK
<1>5. CASE Crash(h)
  <2>1. (IF h = Sweeper THEN "idle" ELSE "over") \in Points
    BY DEF Points
  <2> QED
    BY <1>5, <2>1, Shapes DEF Crash, TypeOK
<1> QED
  BY <1>2, <1>3, <1>4, <1>5 DEF Teardown

LEMMA SweepType ==
  ASSUME TypeOK, SweepBegin \/ SweepRetry \/ SweepList \/ SweepPurge
  PROVE  TypeOK'
<1> USE DEF Handlers
<1>0. call[Sweeper].todo \in SUBSET Workspaces
  BY DEF TypeOK, Calls
<1>1. CASE SweepBegin
  <2>1. {w \in Workspaces : row[w] = "terminated"} \in SUBSET Workspaces /\ "retry" \in Points
    BY DEF Points
  <2>2. call' \in [Handlers -> Calls]
    BY <1>1, <2>1, UpdatePcTodo DEF SweepBegin
  <2> QED
    BY <1>1, <2>2 DEF SweepBegin, TypeOK
<1>2. CASE SweepRetry
  <2> PICK w \in call[Sweeper].todo :
             call' = [call EXCEPT ![Sweeper].pc = "service", ![Sweeper].on = w,
                                  ![Sweeper].todo = @ \ {w}]
    BY <1>2 DEF SweepRetry
  <2>1. call[Sweeper].todo \ {w} \in SUBSET Workspaces /\ "service" \in Points /\ w \in Handlers
    BY <1>0 DEF Points
  <2>2. call' \in [Handlers -> Calls]
    BY <2>1, UpdatePcOnTodo
  <2> QED
    BY <1>2, <2>2 DEF SweepRetry, TypeOK
<1>3. CASE SweepList
  <2>1. {w \in Workspaces : row[w] = "live"} \in SUBSET Workspaces /\ "purge" \in Points
    BY DEF Points
  <2>2. "service" \in Kinds
    BY DEF Kinds
  <2>3. call' \in [Handlers -> Calls]
    BY <1>3, <2>1, <2>2, UpdatePcKindTodo DEF SweepList
  <2> QED
    BY <1>3, <2>3 DEF SweepList, TypeOK
<1>4. CASE SweepPurge
  <2>1. resource' \in [Workspaces -> [Kinds -> Tags]]
    <3>1. \A w \in Workspaces : \A gone : Without(w, gone) \in [Kinds -> Tags]
      BY WithoutOK
    <3>2. \A w \in Workspaces : resource[w] \in [Kinds -> Tags]
      BY DEF TypeOK
    <3>3. PICK orphans, gone :
            resource' = [w \in Workspaces |-> IF w \in orphans THEN Without(w, gone[w])
                                             ELSE resource[w]]
      BY <1>4 DEF SweepPurge
    <3> QED
      BY <3>1, <3>2, <3>3
  <2>2. call' \in [Handlers -> Calls]
    <3>1. End(Sweeper, "idle") => call' \in [Handlers -> Calls]
      BY Shapes DEF Points
    <3>2. ASSUME NEW k \in Kinds, call' = [call EXCEPT ![Sweeper].kind = k]
          PROVE  call' \in [Handlers -> Calls]
      BY <3>2, UpdateKind
    <3>3. call[Sweeper].kind \in Kinds
      BY DEF TypeOK, Calls
    <3>4. PurgeNext[call[Sweeper].kind] \in Kinds
      BY <3>3 DEF PurgeNext, Kinds
    <3> QED
      BY <1>4, <3>1, <3>2, <3>4 DEF SweepPurge
  <2> QED
    BY <1>4, <2>1, <2>2 DEF SweepPurge, TypeOK
<1> QED
  BY <1>1, <1>2, <1>3, <1>4

LEMMA NextType == TypeOK /\ [Next]_vars => TypeOK'
<1> SUFFICES ASSUME TypeOK, [Next]_vars
             PROVE  TypeOK'
  OBVIOUS
<1>1. ASSUME NEW w \in Workspaces, DeleteBegin(w)
      PROVE  TypeOK'
  BY <1>1, Shapes DEF DeleteBegin, TypeOK, Handlers, Points
<1>2. CASE UNCHANGED vars
  BY <1>2 DEF vars, TypeOK
<1> QED
  BY <1>1, <1>2, ProvisionType, TeardownType, SweepType DEF Next

\* Every handler holds what its code can give it.
THEOREM TypeCorrect == Spec => []TypeOK
<1>1. Init => TypeOK
  BY InitIInv DEF IInv
<1> QED
  BY <1>1, NextType, PTL DEF Spec

-----------------------------------------------------------------------------
(* The handler of a workspace preserves the invariant.                     *)

\* What a creation knows of its workspace.
LEMMA CreatingKnows ==
  ASSUME IInv, NEW w \in Workspaces, At(w, "unborn") \/ Creating(w)
  PROVE  /\ call[w].on = w /\ row[w] = "none" /\ ~Dead(w) /\ w # Sweeper
         /\ Creating(w) /\ Purging => w \in call[Sweeper].todo \cup unlisted
BY SweeperAssumption DEF IInv, RowFollowsHandler, PurgeKnows, Dead

\* Where a handler goes.
LEMMA Moves ==
  ASSUME TypeOK, NEW h \in Handlers, NEW pc
  PROVE  /\ Goto(h, pc) \/ End(h, pc) =>
              call'[h].pc = pc /\ \A o \in Handlers \ {h} : call'[o] = call[o]
         /\ Goto(h, pc) => call'[h].on = call[h].on /\ call'[h].kind = call[h].kind
         /\ End(h, pc) => call'[h].on = h
<1>1. call[h] \in Calls /\ h \in DOMAIN call /\ DOMAIN call = Handlers
  BY DEF TypeOK
<1>2. ASSUME Goto(h, pc)
      PROVE  /\ call'[h].pc = pc /\ \A o \in Handlers \ {h} : call'[o] = call[o]
             /\ call'[h].on = call[h].on /\ call'[h].kind = call[h].kind
  BY <1>1, <1>2 DEF TypeOK, Goto, Calls
<1>3. ASSUME End(h, pc)
      PROVE  /\ call'[h].pc = pc /\ \A o \in Handlers \ {h} : call'[o] = call[o]
             /\ call'[h].on = h
  <2>1. call'[h] = Resting(h, pc) /\ \A o \in Handlers \ {h} : call'[o] = call[o]
    BY <1>1, <1>3 DEF TypeOK, End
  <2>2. Resting(h, pc).on = h /\ Resting(h, pc).pc = pc
    BY RestingIs
  <2> QED
    BY <2>1, <2>2
<1> QED
  BY <1>2, <1>3

LEMMA Losses ==
  ASSUME TypeOK, NEW w \in Workspaces, NEW gone, Drop(w, gone)
  PROVE  /\ \A o \in Workspaces \ {w} : resource'[o] = resource[o]
         /\ resource'[w] = Without(w, gone)
         /\ ~Has(w, "service") => ~Has(w, "service")'
         /\ "service" \in gone => ~Has(w, "service")'
BY DEF TypeOK, Drop, Without, Has, Kinds

LEMMA ProvisionStep ==
  ASSUME IInv, NEW w \in Workspaces, Provision(w)
  PROVE  IInv'
<1> USE DEF Handlers
<1>1. TypeOK /\ TypeOK'
  BY ProvisionType DEF IInv
<1>2. CASE ProvisionBegin(w)
  <2>1. At(w, "unborn") /\ call[w].on = w /\ row[w] = "none" /\ ~Dead(w)
    BY <1>2, CreatingKnows DEF ProvisionBegin
  <2>2. /\ call'[w].pc = "create" /\ call'[w].on = w /\ call'[w].kind = call[w].kind
        /\ \A o \in Handlers \ {w} : call'[o] = call[o]
    BY <1>1, <1>2, <2>1, Moves DEF ProvisionBegin
  <2>3. unlisted \subseteq unlisted' /\ (Purging => w \in unlisted')
    BY <1>2 DEF ProvisionBegin
  <2>4. w \notin unlisted' => Made(w, Needs(w) \cap Before[call[w].kind])'
    BY <2>1, <2>2, <2>3 DEF IInv, MadeSoFar, Before, Kinds, Made
  <2> QED
    BY <1>1, <1>2, <2>1, <2>2, <2>3, <2>4, OwnStep
       DEF ProvisionBegin, At, Creating, Working
<1>3. CASE ProvisionCreate(w)
  <2> PICK k : k = call[w].kind
    OBVIOUS
  <2>1. Creating(w)
    BY <1>3 DEF ProvisionCreate, At, Creating
  <2>2. /\ call'[w].pc \in {"tag", "rollback", "over"} /\ call'[w].on = w
        /\ call'[w].pc = "tag" => call'[w].kind = k
        /\ \A o \in Handlers \ {w} : call'[o] = call[o]
    <3>1. Failed(w) => /\ call'[w].pc \in {"rollback", "over"} /\ call'[w].on = w
                       /\ \A o \in Handlers \ {w} : call'[o] = call[o]
      BY <1>1, <2>1, Moves, CreatingKnows DEF Failed
    <3>2. call[w] \in Calls /\ call[w].on = w
      BY <1>1, <2>1, CreatingKnows DEF TypeOK
    <3>3. ASSUME NEW known, call' = [call EXCEPT ![w].pc = "tag", ![w].known = known]
          PROVE  /\ call'[w].pc = "tag" /\ call'[w].on = w /\ call'[w].kind = k
                 /\ \A o \in Handlers \ {w} : call'[o] = call[o]
      BY <1>1, <3>2, <3>3 DEF TypeOK, Calls
    <3> QED
      BY <1>3, <3>1, <3>3 DEF ProvisionCreate
  <2>3. /\ \A o \in Workspaces \ {w} : resource'[o] = resource[o]
        /\ \A j \in Kinds \ {k} : resource'[w][j] = resource[w][j]
    BY <1>1, <1>3 DEF ProvisionCreate, Put, TypeOK
  <2>4. ASSUME w \notin unlisted
        PROVE  Made(w, Needs(w) \cap Before[k])'
    <3>1. Made(w, Needs(w) \cap Before[k])
      BY <1>3, <2>4 DEF IInv, MadeSoFar, ProvisionCreate, At
    <3>2. k \in Kinds /\ k \notin Before[k] /\ Before[k] \subseteq Kinds
      BY <1>1 DEF TypeOK, Calls, Before, Kinds
    <3>3. \A j \in Needs(w) \cap Before[k] : resource'[w][j] = "tagged"
      BY <2>3, <3>1, <3>2 DEF Made
    <3> QED
      BY <3>3 DEF Made
  <2> QED
    BY <1>1, <1>3, <2>1, <2>2, <2>3, <2>4, CreatingKnows, OwnStep
       DEF ProvisionCreate, At, Creating, Working, Made
<1>4. CASE ProvisionTag(w)
  <2> PICK k, next : k = call[w].kind /\ next = After(w, k)
    OBVIOUS
  <2>1. Creating(w) /\ call[w] \in Calls /\ call[w].on = w /\ k \in Kinds
    BY <1>1, <1>4, CreatingKnows DEF ProvisionTag, At, Creating, TypeOK, Calls
  <2>2. \/ /\ call'[w].pc \in {"rollback", "over"} /\ call'[w].on = w
           /\ \A o \in Handlers \ {w} : call'[o] = call[o]
           /\ \/ \E tag : Put(w, k, tag)
              \/ UNCHANGED resource
        \/ /\ call'[w].pc = (IF next = k THEN "wait" ELSE "create") /\ call'[w].on = w
           /\ call'[w].kind = next
           /\ \A o \in Handlers \ {w} : call'[o] = call[o]
           /\ Put(w, k, "tagged")
    <3>1. Failed(w) => /\ call'[w].pc \in {"rollback", "over"} /\ call'[w].on = w
                       /\ \A o \in Handlers \ {w} : call'[o] = call[o]
      BY <1>1, <2>1, Moves DEF Failed
    <3>2. ASSUME NEW pc, NEW known,
                 call' = [call EXCEPT ![w].pc = pc, ![w].kind = next, ![w].known = known]
          PROVE  /\ call'[w].pc = pc /\ call'[w].on = w /\ call'[w].kind = next
                 /\ \A o \in Handlers \ {w} : call'[o] = call[o]
      BY <1>1, <2>1, <3>2 DEF TypeOK, Calls
    <3> QED
      BY <1>4, <3>1, <3>2 DEF ProvisionTag
  <2>3. \A o \in Workspaces \ {w} : resource'[o] = resource[o]
    BY <1>1, <2>2 DEF Put, TypeOK
  <2>4. ASSUME w \notin unlisted, call'[w].pc \in {"wait", "create"}
        PROVE  /\ next = k => \A j \in Needs(w) : resource'[w][j] = "tagged"
               /\ next # k => \A j \in Needs(w) \cap Before[next] : resource'[w][j] = "tagged"
    <3>1. \A j \in Needs(w) \cap Before[k] : resource[w][j] = "tagged"
      BY <1>4, <2>4 DEF IInv, MadeSoFar, ProvisionTag, At, Made
    <3>2. Put(w, k, "tagged")
      BY <2>2, <2>4
    <3>3. \A j \in Needs(w) : j \in Before[k] \cup {k} => resource'[w][j] = "tagged"
      BY <1>1, <2>1, <3>1, <3>2 DEF Put, TypeOK, Needs
    <3> QED
      BY <2>1, <3>3, AfterOK
  <2>5. /\ call'[w].pc \in {"create", "wait"} => call'[w].kind = next
        /\ call'[w].pc = "wait" => next = k
        /\ call'[w].pc = "create" => next # k
    BY <2>2
  <2>6. w \notin unlisted =>
          /\ call'[w].pc \in {"create", "tag"} => Made(w, Needs(w) \cap Before[call[w].kind])'
          /\ call'[w].pc \in {"wait", "insert", "idle"} => Made(w, Needs(w))'
    BY <2>2, <2>4, <2>5 DEF Made
  <2> QED
    BY <1>1, <1>4, <2>1, <2>2, <2>3, <2>6, CreatingKnows, OwnStep
       DEF ProvisionTag, At, Creating, Working
<1>5. CASE ProvisionWait(w)
  <2>1. Creating(w)
    BY <1>5 DEF ProvisionWait, At, Creating
  <2>2. /\ call'[w].pc \in {"insert", "rollback"} /\ call'[w].on = w
        /\ \A o \in Handlers \ {w} : call'[o] = call[o]
    BY <1>1, <1>5, <2>1, Moves, CreatingKnows DEF ProvisionWait
  <2>3. w \notin unlisted => Made(w, Needs(w))'
    BY <1>5 DEF IInv, MadeSoFar, ProvisionWait, At, Made
  <2> QED
    BY <1>1, <1>5, <2>1, <2>2, <2>3, CreatingKnows, OwnStep
       DEF ProvisionWait, At, Creating, Working
<1>6. CASE ProvisionInsert(w)
  <2>1. Creating(w)
    BY <1>6 DEF ProvisionInsert, At, Creating
  <2>2. /\ \/ call'[w].pc = "idle" /\ row'[w] = "live"
           \/ call'[w].pc = "over" /\ row'[w] = "none"
        /\ \A o \in Workspaces \ {w} : row'[o] = row[o]
        /\ call'[w].on = w /\ \A o \in Handlers \ {w} : call'[o] = call[o]
    BY <1>1, <1>6, <2>1, Moves, CreatingKnows DEF ProvisionInsert, TypeOK
  <2>3. w \notin unlisted => Made(w, Needs(w))'
    BY <1>6 DEF IInv, MadeSoFar, ProvisionInsert, At, Made
  <2> QED
    BY <1>1, <1>6, <2>1, <2>2, <2>3, CreatingKnows, OwnStep
       DEF ProvisionInsert, At, Creating, Working
<1>7. CASE ProvisionRollback(w)
  <2>1. Creating(w)
    BY <1>7 DEF ProvisionRollback, At, Creating
  <2>2. /\ End(w, "over") /\ UNCHANGED <<row, unlisted>>
        /\ \E gone : Drop(w, gone)
    BY <1>7 DEF ProvisionRollback
  <2>3. /\ call'[w].pc = "over" /\ call'[w].on = w
        /\ \A o \in Handlers \ {w} : call'[o] = call[o]
    BY <1>1, <2>2, Moves
  <2>4. \A o \in Workspaces \ {w} : resource'[o] = resource[o]
    BY <1>1, <2>2, Losses
  <2> QED
    BY <1>1, <2>1, <2>2, <2>3, <2>4, CreatingKnows, OwnStep
       DEF At, Creating, Working
<1> QED
  BY <1>2, <1>3, <1>4, <1>5, <1>6, <1>7 DEF Provision

LEMMA DeleteStep ==
  ASSUME IInv, NEW w \in Workspaces, DeleteBegin(w)
  PROVE  IInv'
<1> USE DEF Handlers
<1>1. TypeOK /\ TypeOK'
  BY NextType DEF IInv, Next
<1>2. call[w].on = w /\ row[w] = "live" /\ ~Dead(w)
  BY DEF IInv, RowFollowsHandler, DeleteBegin, Dead
<1>3. /\ call'[w].pc = "service" /\ call'[w].on = w
      /\ \A o \in Handlers \ {w} : call'[o] = call[o]
      /\ row'[w] = "terminated" /\ \A o \in Workspaces \ {w} : row'[o] = row[o]
  BY <1>1, <1>2, Moves DEF DeleteBegin, TypeOK
<1> QED
  BY <1>1, <1>2, <1>3, OwnStep DEF DeleteBegin, At, Creating, Working, Dead

\* Where the handler of a teardown goes when it is through with a row.
LEMMA FinishedIs ==
  ASSUME TypeOK, NEW h \in Handlers, Finished(h)
  PROVE  /\ call'[h].pc = (IF h = Sweeper THEN "retry" ELSE "over") /\ call'[h].on = h
         /\ \A o \in Handlers \ {h} : call'[o] = call[o]
         /\ h = Sweeper => call'[h].todo = call[h].todo
<1>1. CASE h = Sweeper
  BY <1>1 DEF Finished, TypeOK, Calls
<1>2. CASE h # Sweeper
  BY <1>2, Moves DEF Finished
<1> QED
  BY <1>1, <1>2

\* Where a teardown or a crash leaves its handler.
LEMMA TeardownCalls ==
  ASSUME TypeOK, NEW h \in Handlers, Teardown(h) \/ Crash(h)
  PROVE  \/ /\ Working(h) /\ Goto(h, "rest")
            /\ \E gone : "service" \in gone /\ Drop(call[h].on, gone)
         \/ Working(h) /\ Goto(h, "clear") /\ At(h, "rest")
         \/ Working(h) /\ Finished(h)
         \/ call[h].pc \notin {"unborn", "idle", "over"}
            /\ End(h, IF h = Sweeper THEN "idle" ELSE "over")
<1>1. CASE TeardownService(h)
  <2>1. PICK gone : /\ Drop(call[h].on, gone)
                    /\ IF "service" \in gone THEN Goto(h, "rest") ELSE Finished(h)
    BY <1>1 DEF TeardownService, ServiceKept
  <2>2. Working(h)
    BY <1>1 DEF TeardownService, Working, At
  <2> QED
    BY <2>1, <2>2
<1>2. CASE TeardownRest(h)
  BY <1>2 DEF TeardownRest, Working, At
<1>3. CASE TeardownClear(h)
  BY <1>3 DEF TeardownClear, Working, At
<1>4. CASE Crash(h)
  BY <1>4 DEF Crash
<1> QED
  BY <1>1, <1>2, <1>3, <1>4 DEF Teardown

\* What a teardown or a crash does to a workspace: nothing, if it is of another.
LEMMA TeardownStores ==
  ASSUME IInv, NEW h \in Handlers, Teardown(h) \/ Crash(h), NEW o \in Workspaces
  PROVE  /\ UNCHANGED unlisted
         /\ ~Has(o, "service") => ~Has(o, "service")'
         /\ o # call[h].on \/ ~Working(h) => resource'[o] = resource[o] /\ row'[o] = row[o]
         /\ row'[o] # row[o] => row'[o] = "cleared" /\ ~Has(o, "service")
<1>1. TypeOK
  BY DEF IInv
<1> DEFINE v == call[h].on
<1>2. \A gone : Drop(v, gone) => /\ ~Has(o, "service") => ~Has(o, "service")'
                                 /\ o # v => resource'[o] = resource[o]
  <2> SUFFICES ASSUME NEW gone, Drop(v, gone)
               PROVE  /\ ~Has(o, "service") => ~Has(o, "service")'
                      /\ o # v => resource'[o] = resource[o]
    OBVIOUS
  <2>1. CASE v \in Workspaces
    BY <1>1, <2>1, Losses DEF Has
  <2>2. CASE v \notin Workspaces
    BY <1>1, <2>2 DEF Drop, TypeOK, Has
  <2> QED
    BY <2>1, <2>2
<1>3. CASE TeardownService(h)
  BY <1>2, <1>3 DEF TeardownService, Working, At
<1>4. CASE TeardownRest(h)
  BY <1>2, <1>4 DEF TeardownRest, Working, At
<1>5. CASE TeardownClear(h)
  <2>1. ~Has(v, "service") /\ Working(h) /\ UNCHANGED <<resource, unlisted>>
    BY <1>5 DEF TeardownClear, IInv, ServiceGone, At, Working
  <2>2. row' = row \/ row' = [row EXCEPT ![v] = "cleared"]
    BY <1>5 DEF TeardownClear
  <2>3. \/ row'[o] = row[o]
        \/ o = v /\ row'[o] = "cleared"
    BY <1>1, <2>2 DEF TypeOK
  <2> QED
    BY <2>1, <2>3 DEF Has
<1>6. CASE Crash(h)
  BY <1>6 DEF Crash, Has
<1> QED
  BY <1>3, <1>4, <1>5, <1>6 DEF Teardown


LEMMA OwnTeardownStep ==
  ASSUME IInv, NEW w \in Workspaces, Teardown(w) \/ Crash(w)
  PROVE  IInv'
<1> USE DEF Handlers
<1>1. TypeOK /\ TypeOK'
  BY TeardownType DEF IInv
<1>2. w # Sweeper /\ call[w].on = w
  BY SweeperAssumption DEF IInv, RowFollowsHandler
<1>3. /\ \A o \in Handlers \ {w} : call'[o] = call[o]
      /\ call'[w].on = w /\ call'[w].pc \in {"rest", "clear", "over"}
      /\ call'[w].pc \in {"rest", "clear"} => Working(w)
  BY <1>1, <1>2, TeardownCalls, Moves, FinishedIs
<1>4. /\ UNCHANGED unlisted
      /\ \A o \in Workspaces \ {w} : resource'[o] = resource[o] /\ row'[o] = row[o]
  <2>1. UNCHANGED unlisted
    BY DEF Teardown, TeardownService, TeardownRest, TeardownClear, Crash
  <2> QED
    BY <1>2, <2>1, TeardownStores
<1>5. /\ row'[w] = row[w] \/ row'[w] = "cleared"
      /\ row[w] # "live" /\ (Working(w) => Dead(w))
  <2>1. call[w].pc # "idle"
    BY DEF Teardown, TeardownService, TeardownRest, TeardownClear, Crash, At
  <2> QED
    BY <2>1, TeardownStores DEF IInv, RowFollowsHandler, At
<1>6. ~Has(w, "service") => ~Has(w, "service")'
  BY TeardownStores
<1>7. call'[w].pc \in {"rest", "clear"} => ~Has(w, "service")'
  <2>1. CASE Goto(w, "rest") /\ \E gone : "service" \in gone /\ Drop(call[w].on, gone)
    BY <1>1, <1>2, <2>1, Losses
  <2>2. CASE Goto(w, "clear") /\ At(w, "rest")
    BY <1>2, <1>6, <2>2 DEF IInv, ServiceGone, At
  <2>3. CASE Finished(w) \/ End(w, "over")
    BY <1>1, <1>2, <2>3, Moves, FinishedIs
  <2> QED
    BY <1>1, <1>2, <2>1, <2>2, <2>3, TeardownCalls
<1>8. row'[w] = "cleared" => ~Has(w, "service")'
  <2>1. row[w] = "cleared" => ~Has(w, "service")
    BY DEF IInv, ServiceGone, ClearedMeansStopped
  <2>2. row'[w] # row[w] => ~Has(w, "service")
    BY TeardownStores
  <2> QED
    BY <1>6, <2>1, <2>2
<1>9. /\ ~Creating(w)' /\ ~At(w, "idle")' /\ row'[w] # "live"
      /\ Dead(w) => Dead(w)'
      /\ Working(w)' => Dead(w)'
  BY <1>3, <1>5 DEF Creating, At, Dead, Working
<1> QED
  BY <1>1, <1>3, <1>4, <1>6, <1>7, <1>8, <1>9, OwnStep

LEMMA SweeperTeardownStep ==
  ASSUME IInv, Teardown(Sweeper) \/ Crash(Sweeper)
  PROVE  IInv'
<1> USE DEF Handlers
<1> DEFINE v == call[Sweeper].on
<1>1. TypeOK /\ TypeOK'
  BY TeardownType DEF IInv
<1>2. /\ \A w \in Workspaces : call'[w] = call[w]
      /\ call'[Sweeper].pc \in {"rest", "clear", "retry", "idle"}
      /\ call'[Sweeper].pc \in {"rest", "clear"} => Working(Sweeper) /\ call'[Sweeper].on = v
      /\ call'[Sweeper].pc # "idle" => Working(Sweeper) /\ call'[Sweeper].todo = call[Sweeper].todo
  <2>1. ASSUME NEW pc, Goto(Sweeper, pc)
        PROVE  call'[Sweeper].todo = call[Sweeper].todo
    BY <1>1, <2>1 DEF Goto, TypeOK, Calls
  <2> QED
    BY <1>1, <2>1, SweeperAssumption, TeardownCalls, Moves, FinishedIs
<1>3. Working(Sweeper) => v \in Workspaces /\ Dead(v)
  BY DEF IInv, SweepRetriesTheDead
<1>4. /\ UNCHANGED unlisted
      /\ \A w \in Workspaces :
           /\ ~Has(w, "service") => ~Has(w, "service")'
           /\ row'[w] # row[w] => row'[w] = "cleared" /\ ~Has(w, "service") /\ Dead(w)
           /\ ~Dead(w) => resource'[w] = resource[w]
  <2>1. UNCHANGED unlisted
    BY DEF Teardown, TeardownService, TeardownRest, TeardownClear, Crash
  <2> QED
    BY <1>3, <2>1, TeardownStores
<1>5. \A w \in Workspaces : IF Dead(w) THEN Dead(w)' ELSE row'[w] = row[w]
  BY <1>4 DEF Dead
<1>6. \A w \in Workspaces : Creating(w) \/ row[w] = "live" => ~Dead(w)
  BY DEF IInv, RowFollowsHandler, Dead
<1>7. SweepRetriesTheDead'
  <2>1. Working(Sweeper) => \A w \in call[Sweeper].todo : Dead(w)
    BY DEF IInv, SweepRetriesTheDead
  <2>2. call[Sweeper].todo \subseteq Workspaces
    BY <1>1 DEF TypeOK, Calls
  <2> QED
    BY <1>2, <1>3, <1>5, <2>1, <2>2 DEF SweepRetriesTheDead, Working, At
<1>8. PurgeKnows'
  BY <1>2 DEF PurgeKnows, Purging, At
<1>9. call'[Sweeper].pc \in {"rest", "clear"} => (~Has(call[Sweeper].on, "service"))'
  <2>1. CASE Goto(Sweeper, "rest") /\ \E gone : "service" \in gone /\ Drop(v, gone)
    BY <1>1, <1>2, <1>3, <2>1, Losses
  <2>2. CASE Goto(Sweeper, "clear") /\ At(Sweeper, "rest")
    BY <1>2, <1>3, <1>4, <2>2 DEF IInv, ServiceGone, At
  <2>3. CASE Finished(Sweeper) \/ End(Sweeper, "idle")
    BY <1>1, <2>3, Moves, FinishedIs
  <2> QED
    BY <1>1, <2>1, <2>2, <2>3, TeardownCalls
<1> QED
  BY <1>1, <1>2, <1>4, <1>5, <1>6, <1>7, <1>8, <1>9, SweepStep

\* The steps of the sweep that only read.
LEMMA SweepReadStep ==
  ASSUME IInv, SweepBegin \/ SweepRetry \/ SweepList
  PROVE  IInv'
<1> USE SweeperAssumption DEF Handlers
<1>1. TypeOK /\ TypeOK'
  BY SweepType DEF IInv
<1>2. \A w \in Workspaces : call'[w] = call[w]
  BY <1>1 DEF SweepBegin, SweepRetry, SweepList, TypeOK
<1>3. UNCHANGED <<resource, row>> /\ unlisted \subseteq unlisted'
  BY DEF SweepBegin, SweepRetry, SweepList
<1>4. call[Sweeper] \in Calls
  BY <1>1 DEF TypeOK
<1>5. SweepRetriesTheDead' /\ PurgeKnows' /\ call'[Sweeper].pc \notin {"rest", "clear"}
  <2>1. CASE SweepBegin
    <3>1. call'[Sweeper].pc = "retry" /\ call'[Sweeper].todo = {w \in Workspaces : row[w] = "terminated"}
      BY <1>1, <1>4, <2>1 DEF SweepBegin, TypeOK, Calls
    <3> QED
      BY <1>3, <3>1 DEF SweepRetriesTheDead, PurgeKnows, Purging, Working, At, Dead
  <2>2. CASE SweepRetry
    <3>1. PICK w \in call[Sweeper].todo :
            call' = [call EXCEPT ![Sweeper].pc = "service", ![Sweeper].on = w,
                                 ![Sweeper].todo = @ \ {w}]
      BY <2>2 DEF SweepRetry
    <3>2. /\ call'[Sweeper].pc = "service" /\ call'[Sweeper].on = w
          /\ call'[Sweeper].todo = call[Sweeper].todo \ {w}
      BY <1>1, <1>4, <3>1 DEF TypeOK, Calls
    <3>3. w \in Workspaces /\ call[Sweeper].todo \subseteq Workspaces
      BY <1>4 DEF Calls
    <3>4. \A o \in call[Sweeper].todo : Dead(o)
      BY <2>2 DEF IInv, SweepRetriesTheDead, SweepRetry
    <3> QED
      BY <1>3, <3>2, <3>3, <3>4 DEF SweepRetriesTheDead, PurgeKnows, Purging, Working, At, Dead
  <2>3. CASE SweepList
    <3>1. call'[Sweeper].pc = "purge" /\ call'[Sweeper].todo = {w \in Workspaces : row[w] = "live"}
      BY <1>1, <1>4, <2>3 DEF SweepList, TypeOK, Calls
    <3>2. \A w \in Workspaces : Creating(w) => w \in unlisted'
      BY <2>3 DEF SweepList
    <3>3. \A w \in Workspaces : Creating(w)' => Creating(w)
      BY <1>2 DEF Creating
    <3> QED
      BY <1>3, <3>1, <3>2, <3>3 DEF SweepRetriesTheDead, PurgeKnows, Purging, Working, At
  <2> QED
    BY <2>1, <2>2, <2>3
<1>6. /\ \A w \in Workspaces : IF Dead(w) THEN Dead(w)' ELSE row'[w] = row[w]
      /\ \A w \in Workspaces : ~Has(w, "service") => ~Has(w, "service")'
  BY <1>3 DEF Dead, Has
<1> QED
  BY <1>1, <1>2, <1>3, <1>5, <1>6, SweepStep

\* A purge takes nothing from what the sweep knows, and from what it does not
\* know only what is not being created and has no row, or is in `unlisted`.
LEMMA SweepPurgeStep ==
  ASSUME IInv, SweepPurge
  PROVE  IInv'
<1> USE SweeperAssumption DEF Handlers
<1>1. TypeOK /\ TypeOK'
  BY SweepType DEF IInv
<1>2. PICK k, gone :
        resource' = [w \in Workspaces |->
                       IF w \in {o \in Workspaces : Orphan(o, k)} THEN Without(w, gone[w])
                       ELSE resource[w]]
  BY DEF SweepPurge
<1>3. UNCHANGED <<row, unlisted>>
  BY DEF SweepPurge
<1>4. call[Sweeper] \in Calls /\ Purging
  BY <1>1 DEF TypeOK, SweepPurge
<1>5. /\ \A w \in Workspaces : call'[w] = call[w]
      /\ \/ call'[Sweeper].pc = "purge" /\ call'[Sweeper].todo = call[Sweeper].todo
         \/ call'[Sweeper].pc = "idle"
  <2>1. CASE End(Sweeper, "idle")
    BY <1>1, <2>1, Moves
  <2>2. CASE \E kind : call' = [call EXCEPT ![Sweeper].kind = kind]
    BY <1>1, <1>4, <2>2 DEF TypeOK, Calls, Purging, At
  <2> QED
    BY <2>1, <2>2 DEF SweepPurge
<1>6. \A w \in Workspaces \ unlisted : Creating(w) \/ row[w] = "live" => resource'[w] = resource[w]
  <2>1. \A w \in Workspaces \ unlisted : Creating(w) \/ row[w] = "live" => w \in call[Sweeper].todo
    BY <1>4 DEF IInv, PurgeKnows
  <2>2. \A w \in Workspaces : w \in call[Sweeper].todo => ~Orphan(w, k)
    BY DEF Orphan
  <2> QED
    BY <1>2, <2>1, <2>2
<1>7. \A w \in Workspaces : ~Has(w, "service") => ~Has(w, "service")'
  <2>1. \A w \in Workspaces : \A g : Without(w, g)["service"] \in {"none", resource[w]["service"]}
    BY <1>1, WithoutOK DEF Kinds
  <2> QED
    BY <1>2, <2>1 DEF Has
<1>8. SweepRetriesTheDead' /\ call'[Sweeper].pc \notin {"rest", "clear"}
  BY <1>5 DEF SweepRetriesTheDead, Working, At
<1>9. PurgeKnows'
  BY <1>3, <1>4, <1>5 DEF IInv, PurgeKnows, Purging, At, Creating
<1> QED
  <2>1. \A w \in Workspaces : IF Dead(w) THEN Dead(w)' ELSE row'[w] = row[w]
    BY <1>3 DEF Dead
  <2> QED
    BY <1>1, <1>3, <1>5, <1>6, <1>7, <1>8, <1>9, <2>1, SweepStep

LEMMA StutterStep == IInv /\ UNCHANGED vars => IInv'
<1> SUFFICES ASSUME IInv, UNCHANGED vars
             PROVE  IInv'
  OBVIOUS
<1> USE DEF vars
<1>1. TypeOK'
  BY DEF IInv, TypeOK
<1>2. RowFollowsHandler' /\ SweepRetriesTheDead'
  BY DEF IInv, RowFollowsHandler, SweepRetriesTheDead, At, Creating, Working, Dead
<1>3. PurgeKnows'
  BY DEF IInv, PurgeKnows, Purging, At, Creating
<1>4. MadeSoFar'
  BY DEF IInv, MadeSoFar, Made, At
<1>5. ServiceGone'
  BY DEF IInv, ServiceGone, ClearedMeansStopped, Has
<1> QED
  BY <1>1, <1>2, <1>3, <1>4, <1>5 DEF IInv

\* What keeps both of the properties below.
THEOREM InductiveInvariant == Spec => []IInv
<1>1. ASSUME IInv, [Next]_vars
      PROVE  IInv'
  <2>1. CASE Next
    <3>1. ASSUME NEW h \in Handlers, Teardown(h) \/ Crash(h)
          PROVE  IInv'
      BY <1>1, <3>1, OwnTeardownStep, SweeperTeardownStep DEF Handlers
    <3> QED
      BY <1>1, <2>1, <3>1, ProvisionStep, DeleteStep, SweepReadStep, SweepPurgeStep DEF Next
  <2> QED
    BY <1>1, <2>1, StutterStep
<1> QED
  BY InitIInv, <1>1, PTL DEF Spec

\* Whatever sweeps, creations, deletions and deaths do, a workspace with a row
\* has all its resources, but for those a purge did not know of.
THEOREM LiveIsWholeHolds == Spec => []LiveIsWhole
<1>1. IInv => LiveIsWhole
  BY DEF IInv, RowFollowsHandler, MadeSoFar, LiveIsWhole, Made, At
<1> QED
  BY <1>1, InductiveInvariant, PTL

\* A row that names no service has none that runs.
THEOREM ClearedMeansStoppedHolds == Spec => []ClearedMeansStopped
<1>1. IInv => ClearedMeansStopped
  BY DEF IInv, ServiceGone
<1> QED
  BY <1>1, InductiveInvariant, PTL

-----------------------------------------------------------------------------
(* The quota pass: types.                                                  *)

Callers == Metering!Callers
Days == Metering!Days
Underway == {"quota", "create", "open", "provider", "select", "close", "look", "add", "pause"}

\* A call under way is for a workspace, and the row it has found is there.
MeteringTyped ==
  /\ Metering!TypeOK
  /\ \A c \in Callers : /\ stop[c].pc # "idle" => stop[c].workspace \in Metered
                        /\ stop[c].row \in 0..Len(usage)

\* Of one call, the others being as they were.
LEMMA CallType ==
  ASSUME MeteringTyped, NEW c \in Callers, NEW new \in Metering!Calls,
         stop' = [stop EXCEPT ![c] = new],
         new.pc # "idle" => new.workspace \in Metered,
         usage' \in Seq(Metering!Rows), Len(usage) <= Len(usage'), new.row \in 0..Len(usage')
  PROVE  /\ stop' \in [Callers -> Metering!Calls]
         /\ \A e \in Callers : /\ stop'[e].pc # "idle" => stop'[e].workspace \in Metered
                               /\ stop'[e].row \in 0..Len(usage')
<1>1. stop \in [Callers -> Metering!Calls] /\ usage \in Seq(Metering!Rows)
  BY DEF MeteringTyped, Metering!TypeOK, Callers
<1>2. stop'[c] = new /\ \A e \in Callers \ {c} : stop'[e] = stop[e]
  BY <1>1
<1>3. ASSUME NEW e \in Callers
      PROVE  /\ stop'[e].pc # "idle" => stop'[e].workspace \in Metered
             /\ stop'[e].row \in 0..Len(usage')
  <2>1. CASE e = c
    BY <1>2, <2>1
  <2>2. CASE e # c
    BY <1>1, <1>2, <2>2 DEF MeteringTyped
  <2> QED
    BY <2>1, <2>2
<1> QED
  BY <1>1, <1>3

\* A call is one whatever its handler changes of it.
LEMMA NewCall ==
  ASSUME NEW call0 \in Metering!Calls, NEW pc \in Underway
  PROVE  /\ Metering!NoCall \in Metering!Calls
         /\ [call0 EXCEPT !.pc = pc] \in Metering!Calls
         /\ [call0 EXCEPT !.pc = pc].row = call0.row
         /\ [call0 EXCEPT !.pc = pc].workspace = call0.workspace
         /\ \A d \in Days, m \in Metering!Minutes :
              [call0 EXCEPT !.pc = pc, !.day = d, !.minutes = m] \in Metering!Calls
         /\ \A r \in Nat, s \in Nat :
              [call0 EXCEPT !.pc = pc, !.row = r, !.seen = s] \in Metering!Calls
         /\ \A w \in Metered, d \in Days :
              /\ [Metering!NoCall EXCEPT !.pc = pc, !.workspace = w] \in Metering!Calls
              /\ [Metering!NoCall EXCEPT !.pc = pc, !.workspace = w, !.day = d]
                   \in Metering!Calls
<1> DEFINE W == Metered \cup {Metering!NoWorkspace}
           M == Metering!Minutes
           P == {"idle"} \cup Underway
<1>1. Metering!Calls = [pc : P, workspace : W, day : Days, minutes : M, row : Nat, seen : Nat]
  BY DEF Metering!Calls, Days, Underway
<1>2. 0 \in Days /\ 0 \in M /\ Metering!NoWorkspace \in W /\ "idle" \in P /\ pc \in P
  BY MeteringAssumption DEF Days, Metering!Days, Metering!Minutes
<1>3. Metering!NoCall = [pc |-> "idle", workspace |-> Metering!NoWorkspace, day |-> 0,
                         minutes |-> 0, row |-> 0, seen |-> 0]
  BY DEF Metering!NoCall
<1>4. Metered \subseteq W
  OBVIOUS
<1> HIDE DEF W, M, P
<1>5. Metering!NoCall \in Metering!Calls
  BY <1>1, <1>2, <1>3
<1>6. /\ [call0 EXCEPT !.pc = pc] \in Metering!Calls
      /\ [call0 EXCEPT !.pc = pc].row = call0.row
      /\ [call0 EXCEPT !.pc = pc].workspace = call0.workspace
  BY <1>1, <1>2
<1>7. \A d \in Days, m \in M : [call0 EXCEPT !.pc = pc, !.day = d, !.minutes = m] \in Metering!Calls
  BY <1>1, <1>2
<1>8. \A r \in Nat, s \in Nat : [call0 EXCEPT !.pc = pc, !.row = r, !.seen = s] \in Metering!Calls
  BY <1>1, <1>2
<1>9. \A w \in Metered, d \in Days :
        /\ [Metering!NoCall EXCEPT !.pc = pc, !.workspace = w] \in Metering!Calls
        /\ [Metering!NoCall EXCEPT !.pc = pc, !.workspace = w, !.day = d] \in Metering!Calls
  BY <1>1, <1>2, <1>3, <1>4
<1> QED
  BY <1>5, <1>6, <1>7, <1>8, <1>9 DEF M

\* Found gives 0 or a row.
LEMMA FoundType ==
  ASSUME MeteringTyped, NEW d \in Days, NEW i \in Metering!Found(d)
  PROVE  /\ i \in 0..Len(usage)
         /\ i # 0 => i \in Metering!RowsOf(d) /\ i \in 1..Len(usage) /\ usage[i] \in Metering!Rows
         /\ i = 0 => Metering!RowsOf(d) = {}
<1>1. usage \in Seq(Metering!Rows)
  BY DEF MeteringTyped, Metering!TypeOK
<1>2. DOMAIN usage = 1..Len(usage) /\ Len(usage) \in Nat
  BY <1>1
<1>3. CASE Metering!RowsOf(d) = {}
  BY <1>2, <1>3 DEF Metering!Found
<1>4. CASE Metering!RowsOf(d) # {}
  BY <1>1, <1>2, <1>4 DEF Metering!Found, Metering!RowsOf
<1> QED
  BY <1>3, <1>4

\* Every step of the quota pass keeps the types.
LEMMA MeteringTypeStep ==
  ASSUME MeteringTyped, Metering!Next
  PROVE  MeteringTyped'
<1> USE MeteringAssumption
<1>1. /\ status \in [Metered -> {"paused", "running"}]
      /\ session \in [Metered -> Metering!Minutes]
      /\ usage \in Seq(Metering!Rows)
      /\ day \in Days /\ starts \in 0..MaxStarts
      /\ stop \in [Callers -> Metering!Calls]
      /\ over \in SUBSET Metered
      /\ ran \in [Days -> Nat] /\ clashed \in SUBSET Days
  BY DEF MeteringTyped, Metering!TypeOK, Callers, Days
<1>2. /\ Len(usage) \in Nat /\ DOMAIN usage = 1..Len(usage) /\ Days \subseteq Nat
      /\ 0 \in 0..Len(usage)
  BY <1>1 DEF Days, Metering!Days
<1>3. \A c \in Callers : /\ stop[c] \in Metering!Calls
                         /\ stop[c].pc # "idle" => stop[c].workspace \in Metered
                         /\ stop[c].row \in 0..Len(usage)
                         /\ stop[c].day \in Days /\ stop[c].minutes \in Metering!Minutes
                         /\ stop[c].minutes \in Nat /\ stop[c].seen \in Nat
  BY <1>1 DEF MeteringTyped, Metering!Calls, Days, Metering!Minutes
<1>4. \A d \in Days : Metering!Clash(d) \in SUBSET Days
  BY <1>1 DEF Metering!Clash
<1> DEFINE CallsOK == /\ stop' \in [Callers -> Metering!Calls]
                      /\ \A e \in Callers : /\ stop'[e].pc # "idle" => stop'[e].workspace \in Metered
                                            /\ stop'[e].row \in 0..Len(usage')
\* The call of a handler that moves on and changes no row.
<1>5. ASSUME NEW c \in Callers, UNCHANGED usage, stop[c].pc # "idle",
             \/ \E pc \in Underway : Metering!Goto(c, pc)
             \/ Metering!Return(c)
      PROVE  CallsOK
  <2>1. CASE Metering!Return(c)
    <3>1. Metering!NoCall.pc = "idle" /\ Metering!NoCall.row = 0
      BY DEF Metering!NoCall
    <3> QED
      BY <1>1, <1>2, <1>3, <1>5, <2>1, <3>1, CallType, NewCall DEF Metering!Return, Underway
  <2>2. ASSUME NEW pc \in Underway, Metering!Goto(c, pc)
        PROVE  CallsOK
    <3> DEFINE new == [stop[c] EXCEPT !.pc = pc]
    <3>1. new \in Metering!Calls /\ new.row = stop[c].row /\ new.workspace = stop[c].workspace
      BY <1>3, NewCall
    <3>2. stop' = [stop EXCEPT ![c] = new]
      BY <1>1, <2>2 DEF Metering!Goto
    <3> HIDE DEF new
    <3> QED
      BY <1>1, <1>2, <1>3, <1>5, <3>1, <3>2, CallType
  <2> QED
    BY <1>5, <2>1, <2>2
<1>6. ASSUME NEW c \in Callers, NEW w \in Metered, Metering!StartBegin(c, w)
      PROVE  MeteringTyped'
  <2> DEFINE new == [Metering!NoCall EXCEPT !.pc = "quota", !.workspace = w, !.day = day]
  <2>1. new \in Metering!Calls /\ new.row = 0 /\ new.workspace = w
    <3>1. new.row = 0 /\ new.workspace = w
      BY DEF Metering!NoCall
    <3> QED
      BY <1>1, <1>3, <3>1, NewCall DEF Underway
  <2>2. stop' = [stop EXCEPT ![c] = new]
    BY <1>6 DEF Metering!StartBegin
  <2> HIDE DEF new
  <2>3. usage' = usage
    BY <1>6 DEF Metering!StartBegin
  <2>4. CallsOK
    <3>1. usage' \in Seq(Metering!Rows) /\ Len(usage) <= Len(usage') /\ new.row \in 0..Len(usage')
      BY <1>1, <1>2, <2>1, <2>3
    <3> QED
      BY <1>6, <2>1, <2>2, <3>1, CallType
  <2> QED
    BY <1>1, <1>6, <2>4 DEF Metering!StartBegin, MeteringTyped, Metering!TypeOK, Callers, Days
<1>7. ASSUME NEW c \in Callers, Metering!StartQuota(c)
      PROVE  MeteringTyped'
  <2>1. CallsOK
    BY <1>5, <1>7 DEF Metering!StartQuota, Metering!At, Underway
  <2>2. clashed' \in SUBSET Days
    BY <1>1, <1>3, <1>4, <1>7 DEF Metering!StartQuota
  <2> QED
    BY <1>1, <1>7, <2>1, <2>2 DEF Metering!StartQuota, MeteringTyped, Metering!TypeOK, Callers, Days
<1>8. ASSUME NEW d \in Days, NEW m \in Nat, Metering!Insert(d, m)
      PROVE  usage' \in Seq(Metering!Rows) /\ Len(usage') = Len(usage) + 1
  BY <1>1, <1>8 DEF Metering!Insert, Metering!Rows, Days
<1>9. ASSUME NEW c \in Callers, NEW pc \in Underway, Metering!Goto(c, pc), stop[c].pc # "idle",
             usage' \in Seq(Metering!Rows), Len(usage) <= Len(usage')
      PROVE  CallsOK
  <2> DEFINE new == [stop[c] EXCEPT !.pc = pc]
  <2>1. new \in Metering!Calls /\ new.row = stop[c].row /\ new.workspace = stop[c].workspace
    BY <1>3, NewCall
  <2>2. stop' = [stop EXCEPT ![c] = new]
    BY <1>1, <1>9 DEF Metering!Goto
  <2>3. new.row \in 0..Len(usage')
    BY <1>2, <1>3, <1>9, <2>1
  <2> HIDE DEF new
  <2> QED
    BY <1>1, <1>2, <1>3, <1>9, <2>1, <2>2, <2>3, CallType
<1>10. ASSUME NEW c \in Callers, Metering!StartCreate(c)
       PROVE  MeteringTyped'
  <2>1. usage' \in Seq(Metering!Rows) /\ Len(usage') = Len(usage) + 1
    BY <1>3, <1>8, <1>10 DEF Metering!StartCreate
  <2>2. CallsOK
    <3>1. /\ Metering!Goto(c, "open") /\ "open" \in Underway /\ stop[c].pc # "idle"
          /\ Len(usage) <= Len(usage')
      BY <1>2, <1>10, <2>1 DEF Metering!StartCreate, Metering!At, Underway
    <3> HIDE DEF CallsOK
    <3> QED
      BY <1>9, <2>1, <3>1
  <2> QED
    BY <1>1, <1>10, <2>1, <2>2 DEF Metering!StartCreate, MeteringTyped, Metering!TypeOK, Callers, Days
<1>11. ASSUME NEW c \in Callers, Metering!StartOpen(c)
       PROVE  MeteringTyped'
  <2>1. CallsOK
    BY <1>5, <1>11 DEF Metering!StartOpen, Metering!At
  <2>2. status' \in [Metered -> {"paused", "running"}] /\ session' \in [Metered -> Metering!Minutes]
    <3>1. 1 \in Metering!Minutes
      BY DEF Metering!Minutes
    <3> QED
      BY <1>1, <1>11, <3>1 DEF Metering!StartOpen
  <2> QED
    BY <1>1, <1>11, <2>1, <2>2 DEF Metering!StartOpen, MeteringTyped, Metering!TypeOK, Callers, Days
<1>12. ASSUME NEW c \in Callers, NEW w \in Metered, Metering!Stop(c, w), UNCHANGED usage
       PROVE  CallsOK
  <2> DEFINE new == [Metering!NoCall EXCEPT !.pc = "provider", !.workspace = w]
  <2>1. new \in Metering!Calls /\ new.row = 0 /\ new.workspace = w
    <3>1. new.row = 0 /\ new.workspace = w
      BY DEF Metering!NoCall
    <3> QED
      BY <1>1, <1>3, <3>1, NewCall DEF Underway
  <2>2. stop' = [stop EXCEPT ![c] = new]
    BY <1>12 DEF Metering!Stop
  <2> HIDE DEF new
  <2>3. usage' \in Seq(Metering!Rows) /\ Len(usage) <= Len(usage') /\ new.row \in 0..Len(usage')
    BY <1>1, <1>2, <1>12, <2>1
  <2> QED
    BY <1>12, <2>1, <2>2, <2>3, CallType
<1>13. ASSUME NEW c \in Callers, NEW w \in Metered, Metering!StopBegin(c, w)
       PROVE  MeteringTyped'
  <2>1. CallsOK
    BY <1>12, <1>13 DEF Metering!StopBegin
  <2> QED
    BY <1>1, <1>13, <2>1 DEF Metering!StopBegin, MeteringTyped, Metering!TypeOK, Callers, Days
<1>14. ASSUME NEW c \in Callers, Metering!StopProvider(c)
       PROVE  MeteringTyped'
  <2>1. CallsOK
    BY <1>5, <1>14 DEF Metering!StopProvider, Metering!At, Underway
  <2> QED
    BY <1>1, <1>14, <2>1 DEF Metering!StopProvider, MeteringTyped, Metering!TypeOK, Callers, Days
<1>15. ASSUME NEW c \in Callers, Metering!StopSelect(c)
       PROVE  MeteringTyped'
  <2> DEFINE w == stop[c].workspace
             new == [stop[c] EXCEPT !.pc = "close", !.day = day, !.minutes = session[w]]
  <2>1. CallsOK
    <3>1. CASE session[w] = 0
      BY <1>5, <1>15, <3>1 DEF Metering!StopSelect, Metering!At, Underway
    <3>2. CASE session[w] # 0
      <4>1. w \in Metered
        BY <1>3, <1>15 DEF Metering!StopSelect, Metering!At
      <4>2. new \in Metering!Calls
        <5>1. "close" \in Underway /\ session[w] \in Metering!Minutes
          BY <1>1, <4>1 DEF Underway
        <5> QED
          BY <1>1, <1>3, <5>1, NewCall
      <4>3. new.row = stop[c].row /\ new.workspace = stop[c].workspace
        BY <1>3 DEF Metering!Calls
      <4>4. stop' = [stop EXCEPT ![c] = new]
        BY <1>1, <1>15, <3>2 DEF Metering!StopSelect
      <4> HIDE DEF new
      <4> QED
        BY <1>1, <1>2, <1>3, <1>15, <4>1, <4>2, <4>3, <4>4, CallType DEF Metering!StopSelect
    <3> QED
      BY <3>1, <3>2
  <2>2. clashed' \in SUBSET Days
    <3>1. \A o \in Callers : stop[o].day \in Days
      BY <1>3
    <3> QED
      BY <1>1, <1>15, <3>1, SMTT(20) DEF Metering!StopSelect, Callers
  <2> QED
    BY <1>1, <1>15, <2>1, <2>2 DEF Metering!StopSelect, MeteringTyped, Metering!TypeOK, Callers, Days
<1>16. ASSUME NEW c \in Callers, Metering!StopClose(c)
       PROVE  MeteringTyped'
  <2>1. CallsOK
    BY <1>5, <1>16 DEF Metering!StopClose, Metering!At, Underway
  <2>2. session' \in [Metered -> Metering!Minutes]
    <3>1. 0 \in Metering!Minutes
      BY DEF Metering!Minutes
    <3> QED
      BY <1>1, <1>16, <3>1 DEF Metering!StopClose
  <2>3. ran' \in [Days -> Nat]
    BY <1>1, <1>3, <1>16 DEF Metering!StopClose
  <2> QED
    BY <1>1, <1>16, <2>1, <2>2, <2>3 DEF Metering!StopClose, MeteringTyped, Metering!TypeOK, Callers, Days
<1>17. ASSUME NEW c \in Callers, Metering!StopLook(c)
       PROVE  MeteringTyped'
  <2>1. PICK i \in Metering!Found(stop[c].day) :
          stop' = [stop EXCEPT ![c].pc = "add", ![c].row = i,
                               ![c].seen = IF i = 0 THEN 0 ELSE usage[i].minutes]
    BY <1>17 DEF Metering!StopLook
  <2> DEFINE seen == IF i = 0 THEN 0 ELSE usage[i].minutes
             new == [stop[c] EXCEPT !.pc = "add", !.row = i, !.seen = seen]
  <2>2. i \in 0..Len(usage) /\ seen \in Nat
    BY <1>3, FoundType DEF Metering!Rows
  <2>3. stop' = [stop EXCEPT ![c] = new]
    BY <1>1, <2>1
  <2> HIDE DEF seen
  <2>4. new \in Metering!Calls
    <3>1. i \in Nat /\ "add" \in Underway
      BY <1>2, <2>2 DEF Underway
    <3> QED
      BY <1>3, <2>2, <3>1, NewCall
  <2>5. new.row = i /\ new.workspace = stop[c].workspace
    BY <1>3 DEF Metering!Calls
  <2> HIDE DEF new
  <2>6. CallsOK
    BY <1>1, <1>2, <1>3, <1>17, <2>2, <2>3, <2>4, <2>5, CallType DEF Metering!StopLook, Metering!At
  <2>7. clashed' \in SUBSET Days
    BY <1>3, <1>4, <1>17 DEF Metering!StopLook
  <2> QED
    BY <1>1, <1>17, <2>6, <2>7 DEF Metering!StopLook, MeteringTyped, Metering!TypeOK, Callers, Days
<1>18. ASSUME NEW c \in Callers, Metering!StopAdd(c)
       PROVE  MeteringTyped'
  <2>1. Metering!Total(c) \in Nat
    BY <1>3 DEF Metering!Total
  <2>2. usage' \in Seq(Metering!Rows) /\ Len(usage) <= Len(usage')
    <3>1. CASE stop[c].row = 0
      BY <1>2, <1>3, <1>8, <1>18, <2>1, <3>1 DEF Metering!StopAdd
    <3>2. CASE stop[c].row # 0
      <4>1. usage' = [usage EXCEPT ![stop[c].row].minutes = Metering!Total(c)]
        BY <1>18, <3>2 DEF Metering!StopAdd
      <4>2. stop[c].row \in 1..Len(usage)
        BY <1>3, <3>2
      <4>3. [usage[stop[c].row] EXCEPT !.minutes = Metering!Total(c)] \in Metering!Rows
        <5>1. usage[stop[c].row] \in Metering!Rows
          BY <1>1, <4>2
        <5> HIDE DEF Metering!Total
        <5> QED
          BY <2>1, <5>1 DEF Metering!Rows
      <4> DEFINE new == [usage[stop[c].row] EXCEPT !.minutes = Metering!Total(c)]
      <4>4. usage' = [usage EXCEPT ![stop[c].row] = new]
        BY <4>1
      <4> HIDE DEF new
      <4> QED
        BY <1>1, <1>2, <4>2, <4>3, <4>4 DEF new
    <3> QED
      BY <3>1, <3>2
  <2>3. CallsOK
    BY <1>9, <1>18, <2>2 DEF Metering!StopAdd, Metering!At, Underway
  <2> QED
    BY <1>1, <1>18, <2>2, <2>3 DEF Metering!StopAdd, MeteringTyped, Metering!TypeOK, Callers, Days
<1>19. ASSUME NEW c \in Callers, Metering!StopPause(c)
       PROVE  MeteringTyped'
  <2>1. CallsOK
    BY <1>5, <1>19 DEF Metering!StopPause, Metering!At
  <2>2. status' \in [Metered -> {"paused", "running"}]
    BY <1>1, <1>19 DEF Metering!StopPause
  <2> QED
    BY <1>1, <1>19, <2>1, <2>2 DEF Metering!StopPause, MeteringTyped, Metering!TypeOK, Callers, Days
<1>20. ASSUME Metering!QuotaList
       PROVE  MeteringTyped'
  <2>1. over' \in SUBSET Metered
    BY <1>20 DEF Metering!QuotaList
  <2> QED
    BY <1>1, <1>3, <1>20, <2>1 DEF Metering!QuotaList, MeteringTyped, Metering!TypeOK, Callers, Days
<1>21. ASSUME NEW w \in Metered, Metering!QuotaPause(w)
       PROVE  MeteringTyped'
  <2>1. CallsOK
    <3>1. CASE status[w] = "running"
      BY <1>12, <1>21, <3>1 DEF Metering!QuotaPause, Callers, Metering!Callers
    <3>2. CASE status[w] # "running"
      BY <1>1, <1>3, <1>21, <3>2 DEF Metering!QuotaPause
    <3> QED
      BY <3>1, <3>2
  <2> QED
    BY <1>1, <1>21, <2>1 DEF Metering!QuotaPause, MeteringTyped, Metering!TypeOK, Callers, Days
<1>22. ASSUME Metering!Tick
       PROVE  MeteringTyped'
  <2>1. session' \in [Metered -> Metering!Minutes]
    BY <1>1, <1>22 DEF Metering!Tick, Metering!Minutes
  <2> QED
    BY <1>1, <1>3, <1>22, <2>1 DEF Metering!Tick, MeteringTyped, Metering!TypeOK, Callers, Days
<1>23. ASSUME Metering!Midnight
       PROVE  MeteringTyped'
  <2>1. day' \in Days
    BY <1>1, <1>23 DEF Metering!Midnight, Days, Metering!Days
  <2> QED
    BY <1>1, <1>3, <1>23, <2>1 DEF Metering!Midnight, MeteringTyped, Metering!TypeOK, Callers, Days
<1> QED
  <2>1. \A c \in Stoppers : c \in Callers
    BY DEF Callers, Metering!Callers
  <2> QED
    BY <1>6, <1>7, <1>10, <1>11, <1>13, <1>14, <1>15, <1>16, <1>17, <1>18, <1>19, <1>20, <1>21,
       <1>22, <1>23, <2>1
       DEF Metering!Next, Metering!Start, Metering!StopStep, Callers

-----------------------------------------------------------------------------
(* The quota pass: what a day is charged.                                  *)

Writes(c, d) == Metering!Writing(c, d)
Owes(c, d) == stop[c].pc \in {"look", "add"} /\ stop[c].day = d
Owing(d) == {c \in Callers : Owes(c, d)}
RowsOf(d) == Metering!RowsOf(d)

\* g is the sum of the minutes of any calls.
SumOf(g, minutes) ==
  /\ g \in [SUBSET Callers -> Nat] /\ g[{}] = 0
  /\ \A S \in SUBSET Callers : \A c \in Callers \ S : g[S \cup {c}] = g[S] + minutes[c]
InHand == [c \in Callers |-> stop[c].minutes]

\* What follows holds of a day whose rows were never read between another's look
\* and write.  It has one row at most, and who is to write it knows it.
WriterKnows(d) ==
  /\ \A i, j \in RowsOf(d) : i = j
  /\ \A c, e \in Callers : Writes(c, d) /\ Writes(e, d) => c = e
  /\ \A c \in Callers : Writes(c, d) =>
       IF stop[c].pc = "create" THEN RowsOf(d) = {}
       ELSE IF stop[c].row = 0 THEN RowsOf(d) = {} /\ stop[c].seen = 0
       ELSE stop[c].row \in RowsOf(d) /\ stop[c].seen = usage[stop[c].row].minutes

\* A session is closed by one.
OneCloses(d) ==
  \A c \in Callers : stop[c].pc = "close" /\ stop[c].day = d =>
    /\ session[stop[c].workspace] # 0
    /\ \A e \in Callers : stop[e].pc = "close" /\ stop[e].workspace = stop[c].workspace => e = c

\* What was run on the day is in its row, or a call has it in hand.
Balanced(d, g) ==
  /\ RowsOf(d) = {} => g[Owing(d)] = ran[d]
  /\ \A i \in RowsOf(d) : usage[i].minutes + g[Owing(d)] = ran[d]

\* The row that was found is of the day it was looked for.
FoundOnItsDay ==
  \A c \in Callers : stop[c].pc = "add" /\ stop[c].row # 0 =>
    stop[c].row \in DOMAIN usage /\ usage[stop[c].row].day = stop[c].day

Books ==
  /\ MeteringTyped /\ FoundOnItsDay
  /\ \A d \in Days \ clashed : WriterKnows(d) /\ OneCloses(d)
  /\ \E g : SumOf(g, InHand) /\ \A d \in Days \ clashed : Balanced(d, g)

\* What a call has in hand for day d.
Due(c, d) == IF Owes(c, d) THEN stop[c].minutes ELSE 0

LEMMA SumSplits ==
  ASSUME NEW m, NEW g, SumOf(g, m), NEW P \in SUBSET Callers, NEW c \in Callers
  PROVE  g[P \ {c}] \in Nat /\ g[P] = g[P \ {c}] + (IF c \in P THEN m[c] ELSE 0)
<1>1. P \ {c} \in SUBSET Callers /\ c \in Callers \ (P \ {c})
  OBVIOUS
<1>2. g[P \ {c}] \in Nat
  BY <1>1 DEF SumOf
<1>3. CASE c \in P
  <2>1. (P \ {c}) \cup {c} = P
    BY <1>3
  <2> QED
    BY <1>1, <1>2, <1>3, <2>1 DEF SumOf
<1>4. CASE c \notin P
  <2>1. P \ {c} = P
    BY <1>4
  <2> QED
    BY <1>2, <1>4, <2>1
<1> QED
  BY <1>3, <1>4

LEMMA SumMoves ==
  ASSUME NEW m \in [Callers -> Nat], NEW n \in [Callers -> Nat], NEW g, SumOf(g, m),
         NEW c \in Callers, \A e \in Callers \ {c} : n[e] = m[e]
  PROVE  \E h : SumOf(h, n) /\ \A S \in SUBSET (Callers \ {c}) : h[S] = g[S]
<1> DEFINE h == [S \in SUBSET Callers |-> IF c \in S THEN g[S \ {c}] + n[c] ELSE g[S]]
<1>1. \A S \in SUBSET Callers : g[S] \in Nat /\ S \ {c} \in SUBSET Callers
  BY DEF SumOf
<1>2. h \in [SUBSET Callers -> Nat] /\ h[{}] = 0
  BY <1>1 DEF SumOf
<1>3. ASSUME NEW S \in SUBSET Callers, NEW e \in Callers \ S
      PROVE  h[S \cup {e}] = h[S] + n[e]
  <2>1. S \cup {e} \in SUBSET Callers
    OBVIOUS
  <2>2. CASE e = c
    <3>1. (S \cup {e}) \ {c} = S
      BY <2>2
    <3> QED
      BY <2>1, <2>2, <3>1
  <2>3. CASE e # c /\ c \notin S
    <3>1. h[S \cup {e}] = g[S \cup {e}] /\ h[S] = g[S] /\ n[e] = m[e]
      BY <2>1, <2>3
    <3> QED
      BY <3>1 DEF SumOf
  <2>4. CASE e # c /\ c \in S
    <3>1. /\ (S \cup {e}) \ {c} = (S \ {c}) \cup {e}
          /\ e \in Callers \ (S \ {c}) /\ n[e] = m[e]
      BY <2>4
    <3>2. g[(S \cup {e}) \ {c}] = g[S \ {c}] + n[e]
      <4>1. g[(S \ {c}) \cup {e}] = g[S \ {c}] + m[e]
        BY <1>1, <3>1 DEF SumOf
      <4> QED
        BY <3>1, <4>1
    <3>3. h[S \cup {e}] = g[(S \cup {e}) \ {c}] + n[c] /\ h[S] = g[S \ {c}] + n[c]
      BY <2>1, <2>4
    <3>4. n[e] \in Nat /\ n[c] \in Nat /\ g[S \ {c}] \in Nat
      BY <1>1
    <3> HIDE DEF h
    <3> QED
      BY <3>2, <3>3, <3>4
  <2> QED
    BY <2>2, <2>3, <2>4
<1>4. \A S \in SUBSET (Callers \ {c}) : h[S] = g[S]
  OBVIOUS
<1> HIDE DEF h
<1> QED
  BY <1>2, <1>3, <1>4 DEF SumOf

\* When one call moves, no more than what it has in hand moves.
LEMMA DueMoves ==
  ASSUME MeteringTyped, MeteringTyped', NEW g, SumOf(g, InHand), NEW c \in Callers,
         \A e \in Callers \ {c} : stop'[e] = stop[e]
  PROVE  \E h : /\ SumOf(h, InHand')
                /\ \A d \in Days : \E rest \in Nat :
                     g[Owing(d)] = rest + Due(c, d) /\ h[Owing(d)'] = rest + Due(c, d)'
<1>1. InHand \in [Callers -> Nat] /\ InHand' \in [Callers -> Nat]
  BY SMTT(20)
     DEF InHand, MeteringTyped, Metering!TypeOK, Metering!Calls, Metering!Minutes, Callers
<1>2. \A e \in Callers \ {c} : InHand'[e] = InHand[e]
  BY DEF InHand, Callers, Metering!Callers
<1>3. PICK h : SumOf(h, InHand') /\ \A S \in SUBSET (Callers \ {c}) : h[S] = g[S]
  <2> DEFINE m == InHand  n == InHand'
  <2>1. m \in [Callers -> Nat] /\ n \in [Callers -> Nat] /\ SumOf(g, m)
        /\ \A e \in Callers \ {c} : n[e] = m[e]
    BY <1>1, <1>2
  <2> HIDE DEF m, n
  <2>2. \E h : SumOf(h, n) /\ \A S \in SUBSET (Callers \ {c}) : h[S] = g[S]
    BY <2>1, SumMoves
  <2> QED
    BY <2>2 DEF n
<1>4. ASSUME NEW d \in Days
      PROVE  \E rest \in Nat : g[Owing(d)] = rest + Due(c, d) /\ h[Owing(d)'] = rest + Due(c, d)'
  <2>1. /\ Owing(d) \in SUBSET Callers /\ Owing(d)' \in SUBSET Callers
        /\ c \in Owing(d) <=> Owes(c, d)
        /\ c \in Owing(d)' <=> Owes(c, d)'
        /\ Owing(d)' \ {c} = Owing(d) \ {c}
    BY DEF Owing, Owes, Callers, Metering!Callers
  <2>2. h[Owing(d) \ {c}] = g[Owing(d) \ {c}]
    BY <1>3, <2>1
  <2>3. /\ g[Owing(d) \ {c}] \in Nat
        /\ g[Owing(d)] = g[Owing(d) \ {c}] + (IF c \in Owing(d) THEN InHand[c] ELSE 0)
    <3>1. Owing(d) \in SUBSET Callers /\ SumOf(g, InHand)
      BY <2>1
    <3> QED
      BY <3>1, SumSplits
  <2>4. h[Owing(d)'] = h[Owing(d)' \ {c}] + (IF c \in Owing(d)' THEN InHand'[c] ELSE 0)
    BY <1>3, <2>1, SumSplits
  <2>5. InHand[c] = stop[c].minutes /\ InHand'[c] = stop'[c].minutes
    BY DEF InHand, Callers, Metering!Callers
  <2>6. g[Owing(d)] = g[Owing(d) \ {c}] + Due(c, d)
    BY <2>1, <2>3, <2>5 DEF Due
  <2>7. h[Owing(d)'] = g[Owing(d) \ {c}] + Due(c, d)'
    BY <2>1, <2>2, <2>4, <2>5 DEF Due
  <2> QED
    BY <2>3, <2>6, <2>7
<1> QED
  BY <1>3, <1>4

\* What a step must show of the call that moves.
LEMMA BooksStep ==
  ASSUME Books, MeteringTyped', NEW c \in Callers,
         \A e \in Callers \ {c} : stop'[e] = stop[e],
         clashed \subseteq clashed',
         \A i \in DOMAIN usage : i \in DOMAIN usage' /\ usage'[i].day = usage[i].day,
         stop'[c].pc = "add" /\ stop'[c].row # 0 =>
           stop'[c].row \in DOMAIN usage /\ usage[stop'[c].row].day = stop'[c].day,
         \A d \in Days \ clashed' :
           /\ WriterKnows(d)' /\ OneCloses(d)'
           /\ \A rest \in Nat :
                /\ RowsOf(d) = {} => rest + Due(c, d) = ran[d]
                /\ \A i \in RowsOf(d) : usage[i].minutes + rest + Due(c, d) = ran[d]
                => /\ RowsOf(d)' = {} => rest + Due(c, d)' = ran'[d]
                   /\ \A i \in RowsOf(d)' : usage'[i].minutes + rest + Due(c, d)' = ran'[d]
  PROVE  Books'
<1>1. PICK g : SumOf(g, InHand) /\ \A d \in Days \ clashed : Balanced(d, g)
  BY DEF Books
<1>2. MeteringTyped
  BY DEF Books
<1>3. PICK h : /\ SumOf(h, InHand')
               /\ \A d \in Days : \E rest \in Nat :
                    g[Owing(d)] = rest + Due(c, d) /\ h[Owing(d)'] = rest + Due(c, d)'
  BY <1>1, <1>2, DueMoves
<1>4. \A d \in Days : /\ Due(c, d) \in Nat /\ Due(c, d)' \in Nat
                      /\ \A i \in RowsOf(d) : usage[i].minutes \in Nat
                      /\ \A i \in RowsOf(d)' : usage'[i].minutes \in Nat
  <2>1. \A i \in DOMAIN usage : usage[i].minutes \in Nat
    <3>1. usage \in Seq(Metering!Rows)
      BY <1>2 DEF MeteringTyped, Metering!TypeOK
    <3>2. \A i \in DOMAIN usage : usage[i] \in Metering!Rows
      BY <3>1
    <3> QED
      BY <3>2 DEF Metering!Rows
  <2>2. \A i \in DOMAIN usage' : usage'[i].minutes \in Nat
    <3>1. usage' \in Seq(Metering!Rows)
      BY DEF MeteringTyped, Metering!TypeOK
    <3>2. \A i \in DOMAIN usage' : usage'[i] \in Metering!Rows
      BY <3>1
    <3> QED
      BY <3>2 DEF Metering!Rows
  <2>3. stop[c].minutes \in Nat /\ stop'[c].minutes \in Nat
    <3>1. stop[c] \in Metering!Calls
      BY <1>2 DEF MeteringTyped, Metering!TypeOK, Callers
    <3>2. stop'[c] \in Metering!Calls
      BY DEF MeteringTyped, Metering!TypeOK, Callers
    <3>3. \A e \in Metering!Calls : e.minutes \in Nat
      BY DEF Metering!Calls, Metering!Minutes
    <3> QED
      BY <3>1, <3>2, <3>3
  <2> QED
    BY <2>1, <2>2, <2>3 DEF Due, RowsOf, Metering!RowsOf
<1>5. ASSUME NEW d \in Days, d \notin clashed'
      PROVE  Balanced(d, h)'
  <2>1. Balanced(d, g)
    BY <1>1, <1>5
  <2>2. PICK rest \in Nat : g[Owing(d)] = rest + Due(c, d) /\ h[Owing(d)'] = rest + Due(c, d)'
    BY <1>3
  <2>3. /\ RowsOf(d) = {} => rest + Due(c, d) = ran[d]
        /\ \A i \in RowsOf(d) : usage[i].minutes + rest + Due(c, d) = ran[d]
    BY <1>4, <2>1, <2>2 DEF Balanced
  <2>4. /\ RowsOf(d)' = {} => rest + Due(c, d)' = ran'[d]
        /\ \A i \in RowsOf(d)' : usage'[i].minutes + rest + Due(c, d)' = ran'[d]
    BY <1>5, <2>3
  <2> QED
    BY <1>4, <2>2, <2>4 DEF Balanced
<1>6. \E f : SumOf(f, InHand') /\ \A d \in Days \ clashed' : Balanced(d, f)'
  BY <1>3, <1>5
<1>7. FoundOnItsDay'
  BY DEF Books, FoundOnItsDay, Callers, Metering!Callers
<1> QED
  BY <1>6, <1>7 DEF Books

\* A step of a call that has nothing to write or to close, after it neither.
LEMMA QuietStep ==
  ASSUME Books, MeteringTyped', NEW c \in Callers,
         \A e \in Callers \ {c} : stop'[e] = stop[e],
         UNCHANGED <<usage, ran>>, clashed \subseteq clashed',
         \A w \in Metered : session[w] # 0 => session'[w] # 0,
         stop[c].pc \notin {"look", "add"},
         stop'[c].pc \notin {"create", "close", "look", "add"}
  PROVE  Books'
<1>1. ASSUME NEW d \in Days, d \notin clashed'
      PROVE  /\ WriterKnows(d)' /\ OneCloses(d)'
             /\ RowsOf(d)' = RowsOf(d) /\ Due(c, d) = 0 /\ Due(c, d)' = 0
  <2>1. WriterKnows(d) /\ OneCloses(d)
    BY <1>1 DEF Books
  <2>2. RowsOf(d)' = RowsOf(d)
    BY DEF RowsOf, Metering!RowsOf
  <2>3. WriterKnows(d)'
    BY <2>1, <2>2 DEF WriterKnows, Writes, Metering!Writing, Callers, Metering!Callers
  <2>4. \A e \in Callers : stop[e].pc = "close" => stop[e].workspace \in Metered
    BY DEF Books, MeteringTyped
  <2>5. OneCloses(d)'
    BY <2>1, <2>4 DEF OneCloses, Callers, Metering!Callers
  <2> QED
    BY <2>2, <2>3, <2>5 DEF Due, Owes
<1> QED
  BY <1>1, BooksStep

LEMMA StillStep ==
  ASSUME Books, MeteringTyped', UNCHANGED <<stop, usage, ran, clashed>>,
         \A w \in Metered : session[w] # 0 => session'[w] # 0
  PROVE  Books'
<1>1. \A d \in Days : /\ RowsOf(d)' = RowsOf(d) /\ Owing(d)' = Owing(d)
                      /\ \A c \in Callers : Writes(c, d)' <=> Writes(c, d)
  BY DEF RowsOf, Metering!RowsOf, Owing, Owes, Writes, Metering!Writing, Callers, Metering!Callers
<1>2. InHand' = InHand
  BY DEF InHand, Callers, Metering!Callers
<1>3. PICK g : SumOf(g, InHand) /\ \A d \in Days \ clashed : Balanced(d, g)
  BY DEF Books
<1>4. \A d \in Days \ clashed : Balanced(d, g)'
  BY <1>1, <1>3 DEF Balanced
<1>5. \A d \in Days \ clashed : WriterKnows(d)'
  BY <1>1 DEF Books, WriterKnows, Callers, Metering!Callers
<1>6. \A e \in Callers : stop[e].pc = "close" => stop[e].workspace \in Metered
  BY DEF Books, MeteringTyped
<1>7. \A d \in Days \ clashed : OneCloses(d)'
  BY <1>6 DEF Books, OneCloses, Callers, Metering!Callers
<1>8. \E f : SumOf(f, InHand') /\ \A d \in Days \ clashed' : Balanced(d, f)'
  BY <1>2, <1>3, <1>4
<1>9. FoundOnItsDay'
  BY DEF Books, FoundOnItsDay, Callers, Metering!Callers
<1> QED
  BY <1>5, <1>7, <1>8, <1>9 DEF Books

\* An insert adds a row to its day.
LEMMA InsertAdds ==
  ASSUME MeteringTyped, NEW D \in Days, NEW m \in Nat, Metering!Insert(D, m)
  PROVE  /\ usage'[Len(usage) + 1].minutes = m
         /\ \A d \in Days :
              RowsOf(d)' = IF d = D THEN RowsOf(d) \cup {Len(usage) + 1} ELSE RowsOf(d)
         /\ \A d \in Days : \A i \in RowsOf(d) : usage'[i] = usage[i]
         /\ \A i \in DOMAIN usage : i \in DOMAIN usage' /\ usage'[i].day = usage[i].day
<1>1. usage \in Seq(Metering!Rows)
  BY DEF MeteringTyped, Metering!TypeOK
<1>2. usage' = Append(usage, [day |-> D, minutes |-> m])
  BY DEF Metering!Insert
<1>3. /\ DOMAIN usage = 1..Len(usage) /\ DOMAIN usage' = 1..Len(usage) + 1 /\ Len(usage) \in Nat
      /\ \A i \in 1..Len(usage) : usage'[i] = usage[i]
      /\ usage'[Len(usage) + 1] = [day |-> D, minutes |-> m]
  BY <1>1, <1>2
<1> QED
  BY <1>3 DEF RowsOf, Metering!RowsOf

\* A day that is not in the clashes of a look has nobody else at its rows.
LEMMA NoClash ==
  ASSUME NEW d \in Days, clashed' = Metering!Clash(d)
  PROVE  /\ clashed \subseteq clashed'
         /\ d \notin clashed' => \A e \in Callers : ~Writes(e, d)
BY DEF Metering!Clash, Callers, Writes

\* Every step of the quota pass keeps the books.
LEMMA BooksKept ==
  ASSUME Books, Metering!Next
  PROVE  Books'
<1> USE DEF Callers
<1>1. MeteringTyped /\ MeteringTyped'
  BY MeteringTypeStep DEF Books
<1>2. /\ usage \in Seq(Metering!Rows) /\ session \in [Metered -> Metering!Minutes]
      /\ ran \in [Days -> Nat] /\ stop \in [Callers -> Metering!Calls]
      /\ clashed \in SUBSET Days /\ day \in Days
  BY <1>1 DEF MeteringTyped, Metering!TypeOK, Days
<1>3. \A c \in Callers : /\ stop[c] \in Metering!Calls
                         /\ stop[c].pc # "idle" => stop[c].workspace \in Metered
                         /\ stop[c].row \in 0..Len(usage) /\ stop[c].row \in Nat
                         /\ stop[c].day \in Days
                         /\ stop[c].minutes \in Nat /\ stop[c].seen \in Nat
  <2>1. Len(usage) \in Nat
    BY <1>2
  <2> QED
    BY <1>1, <1>2, <2>1 DEF MeteringTyped, Metering!Calls, Days, Metering!Minutes
<1>4. /\ \A w \in Metered : session[w] \in Nat
      /\ \A i \in DOMAIN usage : usage[i].minutes \in Nat
      /\ \A d \in Days : ran[d] \in Nat
      /\ Metering!NoCall.pc = "idle"
  <2>1. \A i \in DOMAIN usage : usage[i] \in Metering!Rows
    BY <1>2
  <2> QED
    BY <1>2, <2>1 DEF Metering!Minutes, Metering!Rows, Metering!NoCall
<1>5. ASSUME NEW c \in Callers, NEW w \in Metered, Metering!StartBegin(c, w)
      PROVE  Books'
  <2>1. /\ \A e \in Callers \ {c} : stop'[e] = stop[e]
        /\ stop[c].pc = "idle" /\ stop'[c].pc = "quota"
        /\ UNCHANGED <<usage, ran, session, clashed>>
    BY <1>2, <1>5 DEF Metering!StartBegin, Metering!At, Metering!NoCall
  <2> QED
    BY <1>1, <2>1, QuietStep
<1>6. ASSUME NEW c \in Callers, Metering!StartQuota(c)
      PROVE  Books'
  <2> DEFINE D == stop[c].day
  <2>1. stop[c].pc = "quota" /\ D \in Days /\ UNCHANGED <<usage, ran, session>>
    BY <1>3, <1>6 DEF Metering!StartQuota, Metering!At
  <2>2. PICK i \in Metering!Found(D) :
          IF i = 0 THEN Metering!Goto(c, "create") /\ clashed' = Metering!Clash(D)
          ELSE /\ IF usage[i].minutes < Quota THEN Metering!Goto(c, "open") ELSE Metering!Return(c)
               /\ UNCHANGED clashed
    BY <1>6 DEF Metering!StartQuota
  <2>3. CASE i # 0
    <3>1. /\ \A e \in Callers \ {c} : stop'[e] = stop[e]
          /\ stop'[c].pc \in {"open", "idle"}
      BY <1>2, <1>3, <1>4, <2>2, <2>3 DEF Metering!Goto, Metering!Return, Metering!Calls
    <3> QED
      BY <1>1, <2>1, <2>2, <2>3, <3>1, QuietStep
  <2>4. CASE i = 0
    <3>1. /\ \A e \in Callers \ {c} : stop'[e] = stop[e]
          /\ stop'[c].pc = "create" /\ stop'[c].day = D
      BY <1>2, <1>3, <2>2, <2>4 DEF Metering!Goto, Metering!Calls
    <3>2. /\ clashed \subseteq clashed'
          /\ D \notin clashed' => \A e \in Callers : ~Writes(e, D)
      BY <2>1, <2>2, <2>4, NoClash
    <3>3. Metering!RowsOf(D) = {}
      BY <1>1, <2>1, <2>4, FoundType
    <3>4. ASSUME NEW d \in Days, d \notin clashed'
          PROVE  /\ WriterKnows(d)' /\ OneCloses(d)'
                 /\ RowsOf(d)' = RowsOf(d) /\ Due(c, d) = 0 /\ Due(c, d)' = 0
      <4>1. WriterKnows(d) /\ OneCloses(d)
        BY <3>2, <3>4 DEF Books
      <4>2. RowsOf(d)' = RowsOf(d)
        BY <2>1 DEF RowsOf, Metering!RowsOf
      <4>3. OneCloses(d)'
        BY <2>1, <3>1, <4>1 DEF OneCloses, Metering!Callers
      <4>4. WriterKnows(d)'
        <5>1. CASE d = D
          BY <2>1, <3>1, <3>2, <3>3, <3>4, <5>1, <4>1, <4>2
             DEF WriterKnows, Writes, Metering!Writing, Metering!Callers, RowsOf
        <5>2. CASE d # D
          BY <2>1, <3>1, <5>2, <4>1, <4>2
             DEF WriterKnows, Writes, Metering!Writing, Metering!Callers
        <5> QED
          BY <5>1, <5>2
      <4> QED
        BY <2>1, <3>1, <4>2, <4>3, <4>4 DEF Due, Owes
    <3> QED
      BY <1>1, <2>1, <3>1, <3>2, <3>4, BooksStep
  <2> QED
    BY <2>3, <2>4
<1>7. ASSUME NEW c \in Callers, Metering!StartCreate(c)
      PROVE  Books'
  <2> DEFINE D == stop[c].day
             new == Len(usage) + 1
  <2>1. /\ stop[c].pc = "create" /\ D \in Days /\ UNCHANGED <<ran, session, clashed>>
        /\ Metering!Insert(D, 0)
        /\ \A e \in Callers \ {c} : stop'[e] = stop[e]
        /\ stop'[c].pc = "open"
    BY <1>2, <1>3, <1>7 DEF Metering!StartCreate, Metering!At, Metering!Goto, Metering!Calls
  <2>2. /\ usage'[new].minutes = 0
        /\ \A d \in Days : RowsOf(d)' = IF d = D THEN RowsOf(d) \cup {new} ELSE RowsOf(d)
        /\ \A d \in Days : \A i \in RowsOf(d) : usage'[i] = usage[i]
        /\ \A i \in DOMAIN usage : i \in DOMAIN usage' /\ usage'[i].day = usage[i].day
    <3>1. D \in Days /\ 0 \in Nat /\ Metering!Insert(D, 0)
      BY <2>1
    <3> QED
      BY <1>1, <3>1, InsertAdds
  <2> HIDE DEF new
  <2>3. ASSUME NEW d \in Days, d \notin clashed'
        PROVE  /\ WriterKnows(d)' /\ OneCloses(d)' /\ Due(c, d) = 0 /\ Due(c, d)' = 0
               /\ d = D => RowsOf(d) = {}
    <3>1. WriterKnows(d) /\ OneCloses(d)
      BY <2>1, <2>3 DEF Books
    <3>2. OneCloses(d)'
      BY <2>1, <3>1 DEF OneCloses, Metering!Callers
    <3>3. CASE d = D
      <4>1. RowsOf(d) = {} /\ \A e \in Callers \ {c} : ~Writes(e, d)
        BY <2>1, <3>1, <3>3 DEF WriterKnows, Writes, Metering!Writing
      <4>2. \A e \in Callers : ~Writes(e, d)'
        BY <2>1, <4>1 DEF Writes, Metering!Writing
      <4>3. RowsOf(d)' = {new}
        BY <2>2, <3>3, <4>1
      <4>4. WriterKnows(d)'
        BY <4>2, <4>3 DEF WriterKnows, Metering!Callers
      <4> QED
        BY <2>1, <3>2, <4>1, <4>4 DEF Due, Owes
    <3>4. CASE d # D
      <4>1. WriterKnows(d)'
        BY <2>1, <2>2, <3>1, <3>4 DEF WriterKnows, Writes, Metering!Writing, Metering!Callers
      <4> QED
        BY <2>1, <3>2, <3>4, <4>1 DEF Due, Owes
    <3> QED
      BY <3>3, <3>4
  <2>4. ASSUME NEW d \in Days, d \notin clashed', NEW rest \in Nat,
               RowsOf(d) = {} => rest + Due(c, d) = ran[d],
               \A i \in RowsOf(d) : usage[i].minutes + rest + Due(c, d) = ran[d]
        PROVE  /\ RowsOf(d)' = {} => rest + Due(c, d)' = ran'[d]
               /\ \A i \in RowsOf(d)' : usage'[i].minutes + rest + Due(c, d)' = ran'[d]
    <3>1. RowsOf(d)' = IF d = D THEN {new} ELSE RowsOf(d)
      BY <2>2, <2>3, <2>4
    <3>2. Due(c, d) = 0 /\ Due(c, d)' = 0 /\ \A i \in RowsOf(d) : usage'[i] = usage[i]
      BY <2>2, <2>3, <2>4
    <3>3. CASE d = D
      BY <2>1, <2>2, <2>3, <2>4, <3>1, <3>2, <3>3
    <3>4. CASE d # D
      BY <2>1, <2>4, <3>1, <3>2, <3>4
    <3> QED
      BY <3>3, <3>4
  <2> QED
    BY <1>1, <2>1, <2>2, <2>3, <2>4, BooksStep
<1>8. ASSUME NEW c \in Callers, Metering!StartOpen(c)
      PROVE  Books'
  <2>1. /\ stop[c].pc = "open" /\ UNCHANGED <<usage, ran, clashed>>
        /\ \A e \in Callers \ {c} : stop'[e] = stop[e]
        /\ stop'[c].pc = "idle"
    BY <1>2, <1>4, <1>8 DEF Metering!StartOpen, Metering!At, Metering!Return
  <2>2. \A w \in Metered : session[w] # 0 => session'[w] # 0
    BY <1>2, <1>8 DEF Metering!StartOpen
  <2> QED
    BY <1>1, <2>1, <2>2, QuietStep
<1>9. ASSUME NEW c \in Callers, NEW w \in Metered, stop[c].pc = "idle", Metering!Stop(c, w),
             UNCHANGED <<usage, ran, session, clashed>>
      PROVE  Books'
  <2>1. /\ \A e \in Callers \ {c} : stop'[e] = stop[e]
        /\ stop'[c].pc = "provider"
    BY <1>2, <1>9 DEF Metering!Stop, Metering!NoCall
  <2> QED
    BY <1>1, <1>9, <2>1, QuietStep
<1>10. ASSUME NEW c \in Callers, Metering!StopProvider(c)
       PROVE  Books'
  <2>1. /\ \A e \in Callers \ {c} : stop'[e] = stop[e]
        /\ stop[c].pc = "provider" /\ stop'[c].pc \in {"select", "idle"}
        /\ UNCHANGED <<usage, ran, session, clashed>>
    BY <1>2, <1>3, <1>4, <1>10
       DEF Metering!StopProvider, Metering!At, Metering!Goto, Metering!Return, Metering!Calls
  <2> QED
    BY <1>1, <2>1, QuietStep
<1>11. ASSUME NEW c \in Callers, Metering!StopPause(c)
       PROVE  Books'
  <2>1. /\ \A e \in Callers \ {c} : stop'[e] = stop[e]
        /\ stop[c].pc = "pause" /\ stop'[c].pc = "idle"
        /\ UNCHANGED <<usage, ran, session, clashed>>
    BY <1>2, <1>4, <1>11 DEF Metering!StopPause, Metering!At, Metering!Return
  <2> QED
    BY <1>1, <2>1, QuietStep
<1>12. CASE Metering!QuotaList \/ Metering!Tick \/ Metering!Midnight
  <2>1. UNCHANGED <<stop, usage, ran, clashed>>
    BY <1>12 DEF Metering!QuotaList, Metering!Tick, Metering!Midnight
  <2>2. \A w \in Metered : session[w] # 0 => session'[w] # 0
    BY <1>4, <1>12 DEF Metering!QuotaList, Metering!Tick, Metering!Midnight
  <2> QED
    BY <1>1, <2>1, <2>2, StillStep
<1>13. ASSUME NEW w \in Metered, Metering!QuotaPause(w)
       PROVE  Books'
  <2>1. CASE status[w] = "running"
    BY <1>9, <1>13, <2>1 DEF Metering!QuotaPause, Metering!At, Metering!Callers
  <2>2. CASE status[w] # "running"
    BY <1>1, <1>13, <2>2, StillStep DEF Metering!QuotaPause
  <2> QED
    BY <2>1, <2>2
<1>14. ASSUME NEW c \in Callers, Metering!StopSelect(c)
       PROVE  Books'
  <2> DEFINE w == stop[c].workspace
             others == {o \in Callers : stop[o].workspace = w /\ stop[o].pc = "close"}
  <2>1. stop[c].pc = "select" /\ w \in Metered /\ UNCHANGED <<usage, ran, session>>
    BY <1>3, <1>14 DEF Metering!StopSelect, Metering!At
  <2>2. CASE session[w] = 0
    <3>1. /\ \A e \in Callers \ {c} : stop'[e] = stop[e]
          /\ stop'[c].pc = "pause" /\ UNCHANGED clashed
      BY <1>2, <1>3, <1>14, <2>2 DEF Metering!StopSelect, Metering!Goto, Metering!Calls
    <3> QED
      BY <1>1, <2>1, <3>1, QuietStep
  <2>3. CASE session[w] # 0
    <3>1. /\ \A e \in Callers \ {c} : stop'[e] = stop[e]
          /\ stop'[c].pc = "close" /\ stop'[c].day = day /\ stop'[c].workspace = w
      BY <1>2, <1>3, <1>14, <2>3 DEF Metering!StopSelect, Metering!Calls
    <3>2. clashed' = IF others = {} THEN clashed
                     ELSE clashed \cup {day} \cup {stop[o].day : o \in others}
      BY <1>14, <2>3 DEF Metering!StopSelect, Metering!At
    <3>3. ASSUME NEW d \in Days, d \notin clashed'
          PROVE  /\ WriterKnows(d)' /\ OneCloses(d)'
                 /\ RowsOf(d)' = RowsOf(d) /\ Due(c, d) = 0 /\ Due(c, d)' = 0
      <4>1. WriterKnows(d) /\ OneCloses(d)
        BY <3>2, <3>3 DEF Books
      <4>2. RowsOf(d)' = RowsOf(d)
        BY <2>1 DEF RowsOf, Metering!RowsOf
      <4>3. WriterKnows(d)'
        BY <2>1, <3>1, <4>1, <4>2
           DEF WriterKnows, Writes, Metering!Writing, Metering!Callers
      <4>4. OneCloses(d)'
        <5> SUFFICES ASSUME NEW a \in Callers, stop'[a].pc = "close", stop'[a].day = d
                     PROVE  /\ session[stop'[a].workspace] # 0
                            /\ \A e \in Callers :
                                 stop'[e].pc = "close" /\ stop'[e].workspace = stop'[a].workspace
                                 => e = a
          BY <2>1 DEF OneCloses, Metering!Callers
        <5>1. CASE a = c
          <6>1. others = {}
            BY <3>1, <3>2, <3>3, <5>1
          <6> QED
            BY <2>3, <3>1, <5>1, <6>1
        <5>2. CASE a # c
          <6>1. stop'[a] = stop[a]
            BY <3>1, <5>2
          <6>2. stop[a].workspace # w
            <7>1. a \in others => d \in clashed'
              BY <3>2, <6>1
            <7> QED
              BY <3>3, <6>1, <7>1
          <6> QED
            BY <3>1, <4>1, <6>1, <6>2 DEF OneCloses
        <5> QED
          BY <5>1, <5>2
      <4> QED
        BY <2>1, <3>1, <4>2, <4>3, <4>4 DEF Due, Owes
    <3>4. clashed \subseteq clashed'
      BY <3>2
    <3> QED
      BY <1>1, <2>1, <3>1, <3>3, <3>4, BooksStep
  <2> QED
    BY <2>2, <2>3
<1>15. ASSUME NEW c \in Callers, Metering!StopClose(c)
       PROVE  Books'
  <2> DEFINE w == stop[c].workspace
             D == stop[c].day
  <2>1. /\ stop[c].pc = "close" /\ w \in Metered /\ D \in Days /\ UNCHANGED <<usage, clashed>>
        /\ \A e \in Callers \ {c} : stop'[e] = stop[e]
        /\ stop'[c].pc = "look" /\ stop'[c].day = D /\ stop'[c].minutes = stop[c].minutes
    BY <1>2, <1>3, <1>15 DEF Metering!StopClose, Metering!At, Metering!Goto, Metering!Calls
  <2>2. /\ \A o \in Metered \ {w} : session'[o] = session[o]
        /\ \A d \in Days : ran'[d] = IF d = D /\ session[w] # 0 THEN ran[d] + stop[c].minutes
                                     ELSE ran[d]
    BY <1>2, <1>15 DEF Metering!StopClose
  <2>3. ASSUME NEW d \in Days, d \notin clashed'
        PROVE  /\ WriterKnows(d)' /\ OneCloses(d)' /\ RowsOf(d)' = RowsOf(d)
               /\ Due(c, d) = 0 /\ Due(c, d)' = (IF d = D THEN stop[c].minutes ELSE 0)
               /\ ran'[d] = IF d = D THEN ran[d] + stop[c].minutes ELSE ran[d]
    <3>1. WriterKnows(d) /\ OneCloses(d)
      BY <2>1, <2>3 DEF Books
    <3>2. RowsOf(d)' = RowsOf(d)
      BY <2>1 DEF RowsOf, Metering!RowsOf
    <3>3. WriterKnows(d)'
      BY <2>1, <3>1, <3>2 DEF WriterKnows, Writes, Metering!Writing, Metering!Callers
    <3>4. OneCloses(d)'
      <4> SUFFICES ASSUME NEW a \in Callers, stop'[a].pc = "close", stop'[a].day = d
                   PROVE  /\ session'[stop'[a].workspace] # 0
                          /\ \A e \in Callers :
                               stop'[e].pc = "close" /\ stop'[e].workspace = stop'[a].workspace
                               => e = a
        BY DEF OneCloses, Metering!Callers
      <4>1. stop'[a] = stop[a] /\ a # c
        BY <2>1
      <4>2. stop[a].workspace \in Metered \ {w}
        BY <1>3, <2>1, <3>1, <4>1 DEF OneCloses
      <4> QED
        BY <2>1, <2>2, <3>1, <4>1, <4>2 DEF OneCloses
    <3>5. d = D => session[w] # 0
      BY <2>1, <3>1 DEF OneCloses
    <3> QED
      BY <2>1, <2>2, <3>2, <3>3, <3>4, <3>5 DEF Due, Owes
  <2>4. ASSUME NEW d \in Days, d \notin clashed', NEW rest \in Nat,
               RowsOf(d) = {} => rest + Due(c, d) = ran[d],
               \A i \in RowsOf(d) : usage[i].minutes + rest + Due(c, d) = ran[d]
        PROVE  /\ RowsOf(d)' = {} => rest + Due(c, d)' = ran'[d]
               /\ \A i \in RowsOf(d)' : usage'[i].minutes + rest + Due(c, d)' = ran'[d]
    <3>1. \A i \in RowsOf(d) : usage[i].minutes \in Nat
      BY <1>4 DEF RowsOf, Metering!RowsOf
    <3> QED
      BY <1>3, <1>4, <2>1, <2>3, <2>4, <3>1
  <2> QED
    BY <1>1, <2>1, <2>3, <2>4, BooksStep
<1>16. ASSUME NEW c \in Callers, Metering!StopLook(c)
       PROVE  Books'
  <2> DEFINE D == stop[c].day
  <2>1. PICK i \in Metering!Found(D) :
          stop' = [stop EXCEPT ![c].pc = "add", ![c].row = i,
                               ![c].seen = IF i = 0 THEN 0 ELSE usage[i].minutes]
    BY <1>16 DEF Metering!StopLook
  <2>2. /\ stop[c].pc = "look" /\ D \in Days /\ UNCHANGED <<usage, ran, session>>
        /\ \A e \in Callers \ {c} : stop'[e] = stop[e]
        /\ stop'[c].pc = "add" /\ stop'[c].day = D /\ stop'[c].minutes = stop[c].minutes
        /\ stop'[c].row = i /\ stop'[c].seen = IF i = 0 THEN 0 ELSE usage[i].minutes
    BY <1>2, <1>3, <1>16, <2>1 DEF Metering!StopLook, Metering!At, Metering!Calls
  <2>3. /\ clashed \subseteq clashed'
        /\ D \notin clashed' => \A e \in Callers : ~Writes(e, D)
    BY <1>16, <2>2, NoClash DEF Metering!StopLook
  <2>4. /\ i # 0 => i \in Metering!RowsOf(D)
        /\ i = 0 => Metering!RowsOf(D) = {}
        /\ stop'[c].row # 0 => stop'[c].row \in DOMAIN usage /\ usage[stop'[c].row].day = stop'[c].day
    BY <1>1, <2>2, FoundType DEF Metering!RowsOf
  <2>5. ASSUME NEW d \in Days, d \notin clashed'
        PROVE  /\ WriterKnows(d)' /\ OneCloses(d)'
               /\ RowsOf(d)' = RowsOf(d) /\ Due(c, d)' = Due(c, d)
    <3>1. WriterKnows(d) /\ OneCloses(d)
      BY <2>3, <2>5 DEF Books
    <3>2. RowsOf(d)' = RowsOf(d)
      BY <2>2 DEF RowsOf, Metering!RowsOf
    <3>3. OneCloses(d)'
      BY <2>2, <3>1 DEF OneCloses, Metering!Callers
    <3>4. WriterKnows(d)'
      <4>1. CASE d = D
        <5>1. \A e \in Callers : Writes(e, d)' => e = c
          BY <2>2, <2>3, <2>5, <4>1 DEF Writes, Metering!Writing
        <5>2. \A a, e \in RowsOf(d) : a = e
          BY <3>1 DEF WriterKnows
        <5>3. IF i = 0 THEN RowsOf(d) = {} ELSE i \in RowsOf(d)
          BY <2>4, <4>1 DEF RowsOf
        <5> QED
          BY <2>2, <3>2, <5>1, <5>2, <5>3 DEF WriterKnows, Metering!Callers
      <4>2. CASE d # D
        BY <2>2, <3>1, <3>2, <4>2 DEF WriterKnows, Writes, Metering!Writing, Metering!Callers
      <4> QED
        BY <4>1, <4>2
    <3> QED
      BY <2>2, <3>2, <3>3, <3>4 DEF Due, Owes
  <2> QED
    BY <1>1, <2>2, <2>3, <2>4, <2>5, BooksStep
<1>17. ASSUME NEW c \in Callers, Metering!StopAdd(c)
       PROVE  Books'
  <2> DEFINE D == stop[c].day
             r == stop[c].row
             m == stop[c].minutes
             total == Metering!Total(c)
             new == Len(usage) + 1
  <2>1. /\ stop[c].pc = "add" /\ D \in Days /\ UNCHANGED <<ran, session, clashed>>
        /\ \A e \in Callers \ {c} : stop'[e] = stop[e]
        /\ stop'[c].pc = "pause"
    BY <1>2, <1>3, <1>17 DEF Metering!StopAdd, Metering!At, Metering!Goto, Metering!Calls
  <2>2. total = stop[c].seen + m /\ total \in Nat
    BY <1>3 DEF Metering!Total
  <2> HIDE DEF total, new
  \* No other call has the row in its hands, and what this one has seen is still so.
  <2>3. ASSUME D \notin clashed
        PROVE  /\ \A d \in Days : d = D => \A e \in Callers : ~Writes(e, d)'
               /\ r = 0 => RowsOf(D) = {} /\ total = m
               /\ r # 0 => RowsOf(D) = {r} /\ total = usage[r].minutes + m
    <3>1. WriterKnows(D)
      BY <2>1, <2>3 DEF Books
    <3>2. Writes(c, D)
      BY <2>1 DEF Writes, Metering!Writing
    <3>3. \A d \in Days : d = D => \A e \in Callers : ~Writes(e, d)'
      <4>1. \A e \in Callers \ {c} : ~Writes(e, D)
        BY <3>1, <3>2 DEF WriterKnows
      <4> QED
        BY <2>1, <4>1 DEF Writes, Metering!Writing
    <3>4. IF r = 0 THEN RowsOf(D) = {} /\ stop[c].seen = 0
          ELSE r \in RowsOf(D) /\ stop[c].seen = usage[r].minutes
      BY <2>1, <3>1, <3>2 DEF WriterKnows
    <3>5. r # 0 => RowsOf(D) = {r}
      BY <3>1, <3>4 DEF WriterKnows
    <3> QED
      BY <1>3, <2>2, <3>3, <3>4, <3>5
  <2>4. /\ \A i \in DOMAIN usage : i \in DOMAIN usage' /\ usage'[i].day = usage[i].day
        /\ \A d \in Days \ {D} : RowsOf(d)' = RowsOf(d) /\ \A i \in RowsOf(d) : usage'[i] = usage[i]
        /\ D \notin clashed =>
             \E i : usage'[i].minutes = total /\ \A d \in Days : d = D => RowsOf(d)' = {i}
    <3>1. CASE r = 0
      <4>1. Metering!Insert(D, total)
        BY <1>17, <3>1 DEF Metering!StopAdd, total
      <4>2. /\ usage'[new].minutes = total
            /\ \A d \in Days : RowsOf(d)' = IF d = D THEN RowsOf(d) \cup {new} ELSE RowsOf(d)
            /\ \A d \in Days : \A i \in RowsOf(d) : usage'[i] = usage[i]
            /\ \A i \in DOMAIN usage : i \in DOMAIN usage' /\ usage'[i].day = usage[i].day
        BY <1>1, <2>1, <2>2, <4>1, InsertAdds DEF new
      <4> QED
        BY <2>3, <3>1, <4>2
    <3>2. CASE r # 0
      <4>1. /\ r \in DOMAIN usage /\ usage[r].day = D
            /\ usage' = [usage EXCEPT ![r].minutes = total]
        BY <1>17, <2>1, <3>2 DEF Metering!StopAdd, total, Books, FoundOnItsDay
      <4>2. usage[r] \in Metering!Rows
        BY <1>2, <4>1
      <4>3. /\ DOMAIN usage' = DOMAIN usage
            /\ \A i \in DOMAIN usage : usage'[i].day = usage[i].day
            /\ \A i \in DOMAIN usage \ {r} : usage'[i] = usage[i]
            /\ usage'[r].minutes = total
        BY <4>1, <4>2 DEF Metering!Rows
      <4>4. \A d \in Days : RowsOf(d)' = RowsOf(d)
        BY <4>3 DEF RowsOf, Metering!RowsOf
      <4>5. \A d \in Days \ {D} : \A i \in RowsOf(d) : usage'[i] = usage[i]
        BY <4>1, <4>3 DEF RowsOf, Metering!RowsOf
      <4> QED
        BY <2>3, <3>2, <4>3, <4>4, <4>5
    <3> QED
      BY <3>1, <3>2
  <2>5. ASSUME NEW d \in Days, d \notin clashed'
        PROVE  /\ WriterKnows(d)' /\ OneCloses(d)'
               /\ Due(c, d) = (IF d = D THEN m ELSE 0) /\ Due(c, d)' = 0
    <3>1. WriterKnows(d) /\ OneCloses(d)
      BY <2>1, <2>5 DEF Books
    <3>2. OneCloses(d)'
      BY <2>1, <3>1 DEF OneCloses, Metering!Callers
    <3>3. WriterKnows(d)'
      <4>1. CASE d = D
        <5>1. \A e \in Callers : ~Writes(e, d)'
          BY <2>1, <2>3, <2>5, <4>1
        <5>2. PICK i : RowsOf(d)' = {i}
          BY <2>1, <2>4, <2>5, <4>1
        <5> QED
          BY <5>1, <5>2 DEF WriterKnows, Metering!Callers
      <4>2. CASE d # D
        BY <2>1, <2>4, <3>1, <4>2 DEF WriterKnows, Writes, Metering!Writing, Metering!Callers
      <4> QED
        BY <4>1, <4>2
    <3> QED
      BY <2>1, <3>2, <3>3 DEF Due, Owes
  <2>6. ASSUME NEW d \in Days, d \notin clashed', NEW rest \in Nat,
               RowsOf(d) = {} => rest + Due(c, d) = ran[d],
               \A i \in RowsOf(d) : usage[i].minutes + rest + Due(c, d) = ran[d]
        PROVE  /\ RowsOf(d)' = {} => rest + Due(c, d)' = ran'[d]
               /\ \A i \in RowsOf(d)' : usage'[i].minutes + rest + Due(c, d)' = ran'[d]
    <3>1. Due(c, d) = (IF d = D THEN m ELSE 0) /\ Due(c, d)' = 0
      BY <2>5, <2>6
    <3>2. CASE d # D
      BY <2>1, <2>4, <2>6, <3>1, <3>2
    <3>3. CASE d = D
      <4>1. total + rest = ran[d]
        <5>1. CASE r = 0
          BY <1>3, <2>1, <2>3, <2>6, <3>1, <3>3, <5>1
        <5>2. CASE r # 0
          <6>1. r \in RowsOf(d) /\ usage[r].minutes \in Nat /\ total = usage[r].minutes + m
            BY <1>4, <2>1, <2>3, <2>6, <3>3, <5>2 DEF RowsOf, Metering!RowsOf
          <6> QED
            BY <1>3, <2>6, <3>1, <3>3, <6>1
        <5> QED
          BY <5>1, <5>2
      <4>2. PICK i : usage'[i].minutes = total /\ RowsOf(d)' = {i}
        BY <2>1, <2>4, <2>6, <3>3
      <4> QED
        BY <2>1, <2>2, <3>1, <4>1, <4>2
    <3> QED
      BY <3>2, <3>3
  <2> QED
    BY <1>1, <2>1, <2>4, <2>5, <2>6, BooksStep
<1> QED
  <2>1. \A c \in Stoppers : c \in Callers
    BY DEF Metering!Callers
  <2>2. ASSUME NEW c \in Callers, NEW w \in Metered, Metering!StopBegin(c, w)
        PROVE  Books'
    BY <1>9, <2>2 DEF Metering!StopBegin, Metering!At
  <2> QED
    BY <1>5, <1>6, <1>7, <1>8, <1>10, <1>11, <1>12, <1>13, <1>14, <1>15, <1>16, <1>17, <2>1, <2>2
       DEF Metering!Next, Metering!Start, Metering!StopStep

LEMMA BooksAtInit == Metering!Init => Books
<1> SUFFICES ASSUME Metering!Init PROVE Books
  OBVIOUS
<1> USE DEF Callers, Metering!Init
<1>1. /\ Metering!NoCall.pc = "idle" /\ Metering!NoCall.row = 0 /\ Metering!NoCall.minutes = 0
      /\ \A c \in Callers : stop[c] = Metering!NoCall
  BY DEF Metering!NoCall
<1>2. /\ Len(usage) = 0 /\ \A d \in Days : RowsOf(d) = {}
  BY DEF RowsOf, Metering!RowsOf
<1>3. MeteringTyped
  <2>1. Metering!NoCall \in Metering!Calls
    BY MeteringAssumption
       DEF Metering!NoCall, Metering!Calls, Metering!Days, Metering!Minutes, Metering!NoWorkspace
  <2>2. usage \in Seq(Metering!Rows)
    OBVIOUS
  <2>3. /\ 0 \in Metering!Minutes /\ 0 \in Metering!Days /\ 0 \in 0..MaxStarts
    BY MeteringAssumption DEF Metering!Minutes, Metering!Days
  <2>4. Metering!TypeOK
    BY <2>1, <2>2, <2>3 DEF Metering!TypeOK
  <2> QED
    BY <1>1, <1>2, <2>4 DEF MeteringTyped
<1>4. FoundOnItsDay
  BY <1>1 DEF FoundOnItsDay
<1>5. \A d \in Days : WriterKnows(d) /\ OneCloses(d) /\ Owing(d) = {}
  BY <1>1, <1>2 DEF WriterKnows, OneCloses, Writes, Metering!Writing, Owing, Owes
<1>6. \E g : SumOf(g, InHand) /\ \A d \in Days \ clashed : Balanced(d, g)
  <2> DEFINE g == [S \in SUBSET Callers |-> 0]
  <2>1. SumOf(g, InHand)
    BY <1>1 DEF SumOf, InHand
  <2>2. \A d \in Days : Balanced(d, g)
    BY <1>2, <1>5 DEF Balanced, Days
  <2> HIDE DEF g
  <2> QED
    BY <2>1, <2>2
<1> QED
  BY <1>3, <1>4, <1>5, <1>6 DEF Books

LEMMA BooksAreExact == Books => UsageIsExact
<1> SUFFICES ASSUME Books, NEW d \in Days, d \notin clashed, ~Metering!Pending(d)
             PROVE  /\ \A i, j \in RowsOf(d) : i = j
                    /\ \A i \in RowsOf(d) : usage[i].minutes = ran[d]
                    /\ RowsOf(d) = {} => ran[d] = 0
  BY DEF UsageIsExact, Metering!UsageIsExact, Days, RowsOf
<1>1. PICK g : SumOf(g, InHand) /\ Balanced(d, g)
  BY DEF Books
<1>2. Owing(d) = {}
  BY DEF Owing, Owes, Metering!Pending, Callers
<1>3. g[Owing(d)] = 0
  BY <1>1, <1>2 DEF SumOf
<1>4. \A i \in RowsOf(d) : usage[i].minutes \in Nat
  <2>1. usage \in Seq(Metering!Rows)
    BY DEF Books, MeteringTyped, Metering!TypeOK
  <2>2. \A i \in DOMAIN usage : usage[i] \in Metering!Rows
    BY <2>1
  <2> QED
    BY <2>2 DEF Metering!Rows, RowsOf, Metering!RowsOf
<1> QED
  BY <1>1, <1>3, <1>4 DEF Books, WriterKnows, Balanced

-----------------------------------------------------------------------------
(* The anon reaper: types.                                                 *)

\* Who ends a trial has it.
EndersTyped ==
  /\ ender \in [Anon!Enders -> Anon!EnderCalls]
  /\ \A e \in Anon!Enders : ender[e].pc # "idle" => ender[e].on \in Trials

AnonTyped == Anon!TypeOK /\ EndersTyped

LEMMA EnderMoves ==
  ASSUME EndersTyped, NEW e \in Anon!Enders, NEW new \in Anon!EnderCalls,
         new.pc # "idle" => new.on \in Trials, ender' = [ender EXCEPT ![e] = new]
  PROVE  EndersTyped'
BY DEF EndersTyped, Anon!Enders

LEMMA EnderReturns ==
  ASSUME EndersTyped, NEW e \in Anon!Enders, Anon!Return(e)
  PROVE  EndersTyped'
<1>1. Anon!NoCall \in Anon!EnderCalls /\ Anon!NoCall.pc = "idle"
  BY DEF Anon!NoCall, Anon!EnderCalls
<1> QED
  BY <1>1, EnderMoves DEF Anon!Return

LEMMA EnderGoes ==
  ASSUME EndersTyped, NEW e \in Anon!Enders, NEW pc \in {"write", "routes"},
         Anon!Goto(e, pc), ender[e].on \in Trials
  PROVE  EndersTyped'
<1> DEFINE new == [ender[e] EXCEPT !.pc = pc]
<1>1. new \in Anon!EnderCalls /\ new.on = ender[e].on
  BY DEF EndersTyped, Anon!EnderCalls
<1>2. ender' = [ender EXCEPT ![e] = new]
  BY DEF Anon!Goto
<1> HIDE DEF new
<1> QED
  BY <1>1, <1>2, EnderMoves

LEMMA AnonTypeStep ==
  ASSUME AnonTyped, Anon!Next
  PROVE  AnonTyped'
<1> USE DEF AnonTyped
<1>1. ASSUME UNCHANGED ender
      PROVE  EndersTyped'
  BY <1>1 DEF EndersTyped, Anon!Enders
<1>2. ASSUME NEW t \in Trials, Anon!Try(t) \/ Anon!Crash(t)
      PROVE  AnonTyped'
  <2>1. UNCHANGED ender
    BY <1>2 DEF Anon!Try, Anon!Crash, Anon!TryBegin, Anon!TryValidate, Anon!TryPrepare, Anon!TrySpawn,
       Anon!TryInsert, Anon!TryRoute, Anon!TryRelease
  <2>2. Anon!TypeOK'
    BY <1>2 DEF Anon!TypeOK, Anon!InFlight, Anon!Enders, Anon!Try, Anon!Crash, Anon!TryBegin,
       Anon!TryValidate, Anon!TryPrepare, Anon!TrySpawn, Anon!TryInsert, Anon!TryRoute,
       Anon!TryRelease, Anon!Launch, Anon!SetRow, Anon!Cleared
  <2> QED
    BY <1>1, <2>1, <2>2
<1>3. ASSUME NEW t \in Trials, Anon!LeaseEnds(t) \/ Anon!SandboxKilled(t) \/ Anon!Webhook(t)
      PROVE  AnonTyped'
  <2>1. UNCHANGED ender
    BY <1>3 DEF Anon!LeaseEnds, Anon!SandboxKilled, Anon!Webhook
  <2>2. Anon!TypeOK'
    BY <1>3 DEF Anon!TypeOK, Anon!LeaseEnds, Anon!SandboxKilled, Anon!Webhook, Anon!Kill,
       Anon!SetRow, Anon!trial, Anon!Enders
  <2> QED
    BY <1>1, <2>1, <2>2
<1>4. ASSUME NEW t \in Trials, Anon!VisitorBegin(t) \/ Anon!ReaperBegin(t)
      PROVE  AnonTyped'
  <2> DEFINE new == [pc |-> "provider", on |-> t]
  <2>1. new \in Anon!EnderCalls /\ new.on = t
    BY DEF Anon!EnderCalls
  <2>2. EndersTyped'
    BY <1>4, <2>1, EnderMoves DEF Anon!VisitorBegin, Anon!ReaperBegin, Anon!Enders
  <2> QED
    BY <1>4, <2>2
       DEF Anon!TypeOK, EndersTyped, Anon!VisitorBegin, Anon!ReaperBegin, Anon!trial, Anon!Enders
<1>5. ASSUME NEW e \in Anon!Enders, Anon!End(e)
      PROVE  AnonTyped'
  <2>1. ender[e].on \in Trials
    BY <1>5 DEF EndersTyped, Anon!End, Anon!EndProvider, Anon!EndWrite, Anon!EndRoutes, Anon!Ending
  <2>2. \/ Anon!Return(e)
        \/ Anon!Goto(e, "write")
        \/ Anon!Goto(e, "routes")
    BY <1>5 DEF Anon!End, Anon!EndProvider, Anon!EndWrite, Anon!EndRoutes
  <2>3. EndersTyped'
    BY <2>1, <2>2, EnderReturns, EnderGoes
  <2>4. sandbox' \in [Trials -> {"none", "up", "gone"}] /\ mail' \in SUBSET Trials
    BY <1>5, <2>1
       DEF Anon!TypeOK, Anon!End, Anon!EndProvider, Anon!EndWrite, Anon!EndRoutes, Anon!Kill
  <2>5. trialRow' \in [Trials -> {"none", "running", "terminated"}]
    BY <1>5, <2>1
       DEF Anon!TypeOK, Anon!End, Anon!EndProvider, Anon!EndWrite, Anon!EndRoutes, Anon!SetRow
  <2> QED
    BY <1>5, <2>3, <2>4, <2>5
       DEF Anon!TypeOK, EndersTyped, Anon!End, Anon!EndProvider, Anon!EndWrite, Anon!EndRoutes,
           Anon!trial, Anon!Enders
<1>6. CASE Anon!SlotExpires \/ Anon!ReaperList
  BY <1>1, <1>6 DEF Anon!TypeOK, Anon!SlotExpires, Anon!ReaperList, Anon!trial, Anon!Enders
<1> QED
  BY <1>2, <1>3, <1>4, <1>5, <1>6 DEF Anon!Next

LEMMA AnonTypeAtInit == Anon!Init => AnonTyped
<1>1. Anon!NoCall \in Anon!EnderCalls /\ Anon!NoCall.pc = "idle"
  BY DEF Anon!NoCall, Anon!EnderCalls
<1> QED
  BY <1>1 DEF Anon!Init, AnonTyped, EndersTyped, Anon!TypeOK, Anon!InFlight

-----------------------------------------------------------------------------
(* The jobs together.                                                      *)

\* A behaviour of the jobs is one of each of them: they share no state.
THEOREM JobsAreApart == WorkersSpec => Spec /\ Metering!Spec /\ Anon!Spec
<1>1. WorkersInit => Init /\ Metering!Init /\ Anon!Init
  BY DEF WorkersInit
<1>2. ASSUME [WorkersNext]_<<job, vars, meter, trials>>
      PROVE  [Next]_vars /\ [Metering!Next]_Metering!vars /\ [Anon!Next]_Anon!vars
  <2>1. UNCHANGED meter => UNCHANGED Metering!vars
    BY DEF meter, Metering!vars
  <2>2. UNCHANGED trials => UNCHANGED Anon!vars
    BY DEF trials, Anon!vars
  <2> QED
    BY <1>2, <2>1, <2>2 DEF WorkersNext
<1> QED
  BY <1>1, <1>2, PTL DEF WorkersSpec, Spec, Metering!Spec, Anon!Spec

\* The books of the quota pass are kept.
THEOREM BooksAreKept == Metering!Spec => []Books
<1>1. ASSUME Books, UNCHANGED Metering!vars
      PROVE  Books'
  <2>1. MeteringTyped'
    BY <1>1 DEF Metering!vars, Books, MeteringTyped, Metering!TypeOK, Callers
  <2> QED
    BY <1>1, <2>1, StillStep DEF Metering!vars
<1> QED
  BY <1>1, BooksAtInit, BooksKept, PTL DEF Metering!Spec

\* What a day is charged is what was run on it, unless two calls were at its rows
\* or at one session at once.
THEOREM DaysAreExact == WorkersSpec => []UsageIsExact
BY JobsAreApart, BooksAreKept, BooksAreExact, PTL

\* The state of each job has its type, whichever job runs.
THEOREM JobsTypeCorrect == WorkersSpec => []WorkersTypeOK
<1>1. Books => Metering!TypeOK
  BY DEF Books, MeteringTyped
<1>2. Anon!Spec => []Anon!TypeOK
  <2>1. AnonTyped /\ UNCHANGED Anon!vars => AnonTyped'
    BY DEF Anon!vars, AnonTyped, EndersTyped, Anon!TypeOK, Anon!Enders
  <2>2. AnonTyped => Anon!TypeOK
    BY DEF AnonTyped
  <2> QED
    BY <2>1, <2>2, AnonTypeAtInit, AnonTypeStep, PTL DEF Anon!Spec
<1>3. TypeOK /\ Metering!TypeOK /\ Anon!TypeOK => WorkersTypeOK
  BY DEF WorkersTypeOK
<1> QED
  BY <1>1, <1>2, <1>3, JobsAreApart, TypeCorrect, BooksAreKept, PTL
=============================================================================
