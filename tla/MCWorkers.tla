----------------------------- MODULE MCWorkers -----------------------------
(***************************************************************************)
(* The jobs of WorkerJobs on small instances, and the fairness under which *)
(* they get to an end.                                                     *)
(***************************************************************************)
EXTENDS WorkerJobs, TLC

CONSTANTS w1, sweeper

OneWorkspace == {w1}
OnePersistent == {w1}

\* A sweep gets to its purge again and again, and no kind of resource always
\* fails it.  Creations and deletions may stop anywhere.
SweepFairness ==
  /\ []<>(job = "sweep" => Purging)
  /\ \A k \in Kinds : SF_vars(job = "sweep" /\ PurgeAll(k))

\* Handlers go on, the pass starts again and again, and a provider that the reaper
\* asks to pause for ever does so once.
QuotaFairness ==
  /\ \A c \in {"request", "reaper"} :
       WF_meter(job = "quota" /\ (Metering!Start(c) \/ Metering!StopProvider(c)
                                 \/ Metering!StopStep(c)))
  /\ SF_meter(job = "quota" /\ Metering!StopProvider("reaper") /\ stop'["reaper"].pc = "select")
  /\ WF_meter(job = "quota" /\ (Metering!QuotaList \/ \E w \in {"a", "b"} : Metering!QuotaPause(w)))

\* E2B ends the lease, the reaper starts again and again, and terminating the
\* trial, tried for ever, succeeds once.  No launch need go on, no webhook come.
TrialFairness ==
  /\ WF_trials(job = "trials" /\ (Anon!LeaseEnds("t") \/ Anon!SandboxKilled("t")))
  /\ WF_trials(job = "trials" /\ (Anon!ReaperList
                                  \/ Anon!ReaperBegin("t")
                                  \/ Anon!End("reaper")))
  /\ SF_trials(job = "trials" /\ Anon!Terminates("t"))
  /\ SF_trials(job = "trials" /\ Anon!Records("t"))

WorkersFairSpec == WorkersSpec /\ SweepFairness /\ QuotaFairness /\ TrialFairness

-----------------------------------------------------------------------------
\* UsageMetering: no workspace keeps running over its user's quota.  The two are
\* alike, so one of them stands for both.
QuotaIsEnforced == Metering!QuotaIsEnforced("a")

\* AnonTry: a trial ends, whatever becomes of the webhook and the visitor.
TrialsEnd == Anon!TrialEnds("t")

\* UsageMetering: the minutes of open sessions count towards the quota.
RuntimeIsLimited == Metering!RuntimeIsLimited("a")
=============================================================================
