# A verification project for gitterm

gitterm gives coding agents workspaces in the cloud: an API creates a
workspace at a compute provider, pauses and resumes it, meters it, runs agents
in it, and destroys it. This directory holds TLA+ models of the parts whose
correctness depends on the order of events, the TLC runs that check them, and
TLAPS proofs about them. `PROJECT.json` says, for every definition, which lines
of the code it stands for.

## How to run

    tlc -workers 2 -config WL_railway.cfg MCWorkspaceLifecycle
    tlapm WorkspaceLifecycleProofs.tla

The prefix of a configuration names its module:

| prefix | module | component modules |
|---|---|---|
| `WL_` | `MCWorkspaceLifecycle` | `WorkspaceLifecycle` |
| `AR_` | `MCAgentRun` | `AgentRun`, `RunLedger` |
| `WS_` | `MCWorkspaceSetup` | `WorkspaceSetup` |
| `AL_` | `MCAgentLoop` | `AgentLoop` |
| `WK_` | `MCWorkers`, `WorkerJobs` | `AwsProvision`, `UsageMetering`, `AnonTry` |
| `RD_` | `MCRedis`, `RedisServices` | `ProxyCache`, `DeviceLogin`, `WorkspaceActivity`, `AnonTry` |
| `SV_` | `MCServices`, `TableServices` | `WorkspacePorts`, `WorkspaceSharing`, `ModelCredentials`, `GitHubInstallation` |

## The system

Paths are relative to `packages/api/src` unless they begin with `apps` or
`packages`.

| component | state | operations | hard part | what makes it correct |
|---|---|---|---|---|
| Workspace lifecycle API (`routers/workspace/managment.ts`, `service/workspace-mutations.ts`) | `workspace` row: status, external instance id, pausedAt, lastActiveAt | create, pause, restart, ensureRunning, getRuntimeAccess, heartbeat, delete | every handler reads the row, awaits the provider and writes the row, without a transaction | compute is never forgotten; terminated means destroyed; claims are respected |
| Usage metering (`utils/metering.ts`) | `usage_session`, `daily_usage` | open and close a session, quota, idle list | select, update and counter are three statements | each stretch of running time is billed once |
| Internal router and webhooks (`routers/internal/index.ts`) | the same rows | internal pause and terminate, retention list, Railway, E2B and Daytona webhooks, agent-loop callbacks | events are late, repeated, reordered; partial status filters | a webhook never undoes a later decision |
| Idle reaper (`apps/worker/src/idle-reaper.ts`) | none; a list it fetched | four passes: idle, quota, retention, AWS sweep | its lists are stale when used | only expired workspaces are destroyed |
| AWS sweep (`providers/aws/reconcile.ts`) | terminated rows with an instance id | retry of teardowns, purge of orphans | teardown runs after the response and may fail or die | clean-up completes |
| Agent runs (`service/agent-run/`, `routers/run.ts`) | `agent_run` rows, OpenCode sessions | create, continue, get, cancel, finalise | native calls between reads and guarded writes; idempotency; thrown but accepted submissions | a run is prompted once, finishes once, and shares its session with no unfinished run |
| Workspace setup (`service/workspace-setup*.ts`, `routers/workspace/operations.ts`) | files in the workspace, `workspace_setup` row | launch, relaunch, report, poll | a detached script that is killed or frozen at any line; lost reports | commands run once to their end, and the row tells the truth |
| Proxy resolver and cache (`routers/proxy/index.ts`, `service/proxy-cache.ts`) | Redis and local caches | resolve, invalidate | a set after an invalidation; negative entries | a stopped workspace stops resolving |
| Agent loops and run quota (`routers/agent-loop`, `service/agent-loop`, `service/quotas/run-quota.ts`) | loops, runs, counters, quota | start, callback, cancel, consume | repeated callbacks, lost updates | each run is counted once |
| Device codes (`routers/device.ts`, `packages/redis/src/repositories/device-code.ts`) | two Redis keys per code | start, approve, deny, consume | read, then write | a code is consumed once and a decision is final |
| Anonymous trials (`routers/anon`, `apps/anon-reaper`) | Redis slots, workspaces | try, release, reap | failures after a slot was taken | slots are neither leaked nor exceeded |
| Activity (`service/workspace-activity.ts`) | Redis timestamps, lastActiveAt | record, throttle | throttled writes against the idle list | an active workspace is not paused |
| Route access (`service/workspace-route-access.ts`) | upstream headers | upsert, delete, read through a cache | deleted by webhooks | present exactly while they are needed |
| Events (`routers/workspace/events.ts`) | emitter in the process | subscribe | subscription after the first read | no lost status |
| AWS provider adapter (`providers/aws/index.ts`) | five resources for each workspace, and their tags | provision, roll back, terminate, purge orphans | a process that dies between making and tagging | what nobody uses is purged, what is used is not |
| Ports (`routers/workspace/operations.ts`, `managment.ts`) | `exposed_ports`, domains at the provider, route access | open, close, purge | the column is copied, awaited and written back | the column, the domains and the headers agree |
| Sharing (`routers/workspace/share.ts`) | invitations, access, teams | invite, accept, decline, cancel, leave, teams | counts before writes | a withdrawn invitation grants nothing; the limit holds |
| Model credentials (`service/credentials`) | encrypted tokens, which is the default | store, revoke, delete, set default, refresh | two statements for one default; a refresh spends the token it replaces | there is a default; the stored token works |
| GitHub integration (`service/github`, `routers/github`) | `github_app_installation`, `git_integration` | store, verify, remove, disconnect | a late webhook beside a new connection | both tables name the same installation |

The rest is listed under *Not modelled*.

The components meet in the database. API handlers, the reaper (through the
internal router) and webhooks (through the listener and the internal router)
write the same `workspace` row; deletion and pause finalise agent runs; restart
and ensureRunning relaunch the setup; the proxy reads the row and records
activity, from which the idle pass chooses what to pause; the AWS sweep and the
anonymous reaper read the rows that creations and webhooks write. Nothing but single SQL statements is atomic between them.

## Modules

| module | what it is |
|---|---|
| `WorkspaceLifecycle` | one workspace: its row, instance, usage sessions, webhook events, and the invocations in flight |
| `AgentRun` | the runs of one workspace and the OpenCode server |
| `RunLedger` | the abstract specification that `AgentRun` implements |
| `WorkspaceSetup` | the setup script, its files, its reports and the row |
| `AgentLoop` | a loop, its runs, the quota and the callbacks of the worker |
| `AwsProvision` | the resources of AWS workspaces, their creation, deletion and the sweep |
| `UsageMetering` | two workspaces of a user: daily usage, quota and quota pass |
| `AnonTry` | trials: the slot of an address, the sandbox, the webhook and the reaper |
| `ProxyCache` | one subdomain: the resolver, its caches and their invalidation |
| `DeviceLogin` | device codes, user codes, decisions and polls |
| `WorkspaceActivity` | when a workspace was used, and the idle pass |
| `WorkspacePorts` | the exposed ports of one workspace, their domains and headers |
| `WorkspaceSharing` | the invitations and teams of one workspace |
| `ModelCredentials` | the OAuth credentials of one user and provider |
| `GitHubInstallation` | the GitHub App of one user: what GitHub has, the two tables, the webhooks |
| `WorkerJobs` | the three cron jobs side by side: `AwsProvision`, `UsageMetering`, `AnonTry` |
| `RedisServices` | the four services on Redis: `ProxyCache`, `DeviceLogin`, `WorkspaceActivity`, `AnonTry` |
| `TableServices` | the three services with tables of their own: `WorkspaceSharing`, `ModelCredentials`, `GitHubInstallation` |
| `MC...` | the small instances for TLC |
| `...Proofs` | theorems and proofs |

`WorkerJobs`, `RedisServices` and `TableServices` give several components that
share no state constants and variables of their own, so that one module runs
them and one module proves about them. A behaviour that TLC explores chooses in
its first state, by `part` or `job`, whose steps it takes, and the rest stays as
it was. The states are added, not multiplied, and a property of one component
is checked in the behaviours of that component.

In each module an operator whose name ends in `_Bug` is the following operator
with a plausible mistake; the model never uses it. `PROJECT.json` names the
property that fails when it takes the operator's place.

### WorkspaceLifecycle

A handler is a sequence of actions, one for each stretch of code between two
awaits that other processes can tell apart; `req[r]` is one invocation with its
program point `pc`, the status `snap` it read, the session `held` it selected,
and `dropped` for the webhooks that run two deletions in parallel.

| variable | code |
|---|---|
| `row` | columns of `workspace`; `ref` is a non-empty `external_instance_id`, `routes` the existence of `workspace_route_access` rows |
| `instance` | what the provider has; `gone` also stands for a destruction the provider has accepted |
| `events` | webhook events the provider may still deliver, in any order and repeatedly |
| `session`, `billed` | `usage_session` rows and how often each was added to `daily_usage` |
| `listed` | the row is on the list the reaper has fetched |

`Create*`, `Pause*`, `Restart*`, `Ensure*`, `Reconcile*`, `Delete*` are the
handlers of `managment.ts` (`Reconcile*` is getRuntimeAccess), `Reap*` and
`ReaperList` the retention pass, `Sweep*` the AWS sweep, `Webhook*` the three
processors of the internal router. `PauseProvider` and `PauseWrite` serve both
pauseWorkspace and pauseWorkspaceInternal, which do the same in the same
order. A provider call that should pause or destroy works, throws without effect, or
throws with effect (`MaybeBecomes`); at Cloudflare it may also return as if it
had worked and have done nothing (`Outcomes`): terminateWorkspace of that adapter
swallows every error, and pauseWorkspace does not look at the response of the
worker. `NoOrphanInstance` and `TerminatedMeansGone` except that adapter by
`ReportsFailure`, and `NothingIsLeft` shows what becomes of it. A probe of the
status may fail, and Railway's shows every service that exists as running. `Touch`
is a write of lastActiveAt, `RetentionElapses` makes the timestamps old; it waits for the handlers in flight because none
takes days. Time is otherwise abstracted to what the retention query can tell
apart.

Left out here: several workspaces of one user and the daily counter
(`UsageMetering`), ports (`WorkspacePorts`), terminateWorkspaceInternal without
`requirePaused`, which only the anonymous reaper calls (`AnonTry`); and, left out
altogether, the limit on workspaces, ssh access, volumes and emitted events.

### AgentRun and RunLedger

`run[k]` is the row with idempotency key `k`, `native` the server's sessions,
`sent` and `work` where a run's prompt went and what became of it, `up` whether
the workspace runs and answers. `Create*` follow createAgentRun step by step
(context, insert, native session, claim, submit, check, and the catch block
stop, delete, unset, fail), `Poll*` reconcileRun, `Cancel*` cancelAgentRun and
finalizeWorkspaceAgentRuns, `FailRun` failRun. A call to OpenCode may throw
before or after its effect. "retrying" is merged with "running" because every
condition treats them alike; the timeouts `ABANDONED_PENDING_MS` and
`MISSING_ASSISTANT_GRACE_MS` are nondeterministic: a poll may find them over
at any time. An abort that arrives after its two-second timeout is not
modelled.

`RunLedger` is the promise behind these rows: a run is accepted once, started
at most once, finished once, and never holds the context of another
unfinished run. The refinement maps status and context to the columns of the
row; the server and the handlers are hidden.

### WorkspaceSetup

`pc[l]` is the line that launch `l` of the script has reached, `files` the files
`state` and `exit-code`, `claim` the claim directory with its two files, `pids`
the launches whose `$$` is the pid of a living process. A pause freezes the
processes (E2B) or kills them (the other providers), by `Freezes`. `Pushes` and
`Polls` choose how the row learns of the progress: reports from the workspace,
or polls of the API (Daytona below tier 3). `inflight` holds reports that may be
received any number of times or be lost; `handler` the API's handlers between
their read and their update.

Left out: the log, the times, the execution id (a workspace has one for life).

### AgentLoop

`loop`, `run[r]` and `quota` are the rows, `ledger` what the grants and the
events of `user_loop_run_event` add up to, `paid[r]` the events of one run, and
`launched` the runs the worker was called for, which may call back at any time,
also twice; `cut` remembers the runs whose creator died before they were paid
for. Each transaction on the quota is a read (`charge`, `credit`) and a
write, because PostgreSQL's default isolation lets another commit between
them. The statuses completed, failed and cancelled are one, "over", because
every condition treats them alike.

### AwsProvision

`resource[w][k]` says whether a resource exists and whether it is tagged yet,
a service being gone once ECS has accepted its deletion: the wait for the draining
(`waitForServiceDeleted`), whose failure the teardown swallows, is left out;
`row[w]` what the sweep's two queries tell apart, `call[w]` the creation or the
deletion of `w` and `call[Sweeper]` the sweep. `unlisted` remembers the
workspaces that were created while a sweep purged without knowing them; it is
no state of the code but what the property has to except.

### UsageMetering

`usage` is the sequence of `daily_usage` rows, found by lookup, so that a day may
get two; `session[w]` the minutes of the open session; `listed` what is left of
the list of `getQuotaExceededWorkspaces`. A stop selects the session, closes it,
looks the row of the day up and writes it back in separate steps, as
closeUsageSession does. `ran` counts what was really run and `clashed` the days
whose row was accessed by two at a time. `UsageIsExact` says that a day has one
row, which agrees with `ran`, or none if nothing was run.

### AnonTry

`taken` is the key of the address, `launch[t]` the handler of a launch by the
statement it has reached, `sandbox[t]` the E2B sandbox with its lease of ten
minutes, `mail` the webhooks under way. The visitor and the reaper end a trial
by the same three statements. The idle pass could pause such a workspace too;
the lease kills it first, and this is left out.

### ProxyCache

One subdomain, at most one resolution and one invalidation in flight in each
process. `pos`, `miss` and `grant` are the three kinds of keys in Redis with the
ticks they have left, `local` the map of misses of each process. The counters
`since` and `sinceAccess` measure staleness and stop where no property tells
them apart any more.

### DeviceLogin

`hash` and `link` are the two keys of a session. HSET after the expiry makes a
hash anew, without a time to live and with the fields of the decision only;
`Session` is the test by which `getByDeviceCode` rejects it. `approvers`, `over`
and `minted` are history.

### WorkspaceActivity

Ages in ticks of the last use (`used`), of the timestamp in Redis and of
lastActiveAt; `key` is the throttle. `pass` is the idle pass: `IdleQuery` reads the
row by the shortest timeout of all plans (`Tightest`), `IdleFilter` asks Redis later,
compares with the workspace's own timeout, and goes by the row when Redis fails or has
no time. `lost` says that the SET of a use failed while Redis has an older time, which
then goes before the row. In that case the only thing that holds the pass back is
`Tightest`, and `ListedIsIdle` promises no more.

### WorkspacePorts

`row` is the column `exposed_ports`, `domains` what the provider has, `access` the
ports with a row of route access. A handler copies the column (`seen`), calls
the provider and writes the copy. At AWS a removal always returns, and the rule may
stay: `kept` holds such rules, which no row names any more, which the lookup of a
later opening may find again, and which the property excepts. A lookup that fails
finds nothing and makes a second rule; `made` says whose port a domain is. `stale`
are the handlers that another one has overtaken, and `torn` becomes true once such a
handler writes, a handler stops after it has acted, or an opening makes a second
domain; the property speaks of what is not torn.

### WorkspaceSharing

`invite[k][u]` is the one row an address has for the workspace, and the one for
the team; inviting again writes another token into it. The three queries of the
count see the tables at three moments, in any order: `todo` are those to come,
`users` and `open` who was counted so far, so that somebody who accepts between two
of them is counted twice or not at all. `raced` becomes true when a handler is
`Overtaken`: a collaborator is made while it is in flight, or moves to another table
while it counts. `withdrawn` and `granted` are the tokens that were revoked
and accepted. Roles, which no condition of these handlers reads, and e-mail are
left out.

### ModelCredentials

`cred[i]` is a row with its state, default flag and stored refresh token,
`current[i]` the token the provider takes. Nobody else spends a token here: the
OpenCode of a workspace, whose auth.json may hold the same refresh token, the CLI of
the user, and an answer of the provider that is lost after it has rotated the token
can each leave the stored one behind, and `NoTokenIsLost` says nothing of them. The
partial unique index on the
default is `Allowed`: a statement that violates it fails. Encryption, API keys,
and Copilot, whose refresh does not spend a token, are left out.

### GitHubInstallation

`github[n]` is what GitHub has, `mail` the webhooks it may still deliver, a
deletion repeatedly, `installed` and `integration` the rows of the two tables.
`Store*` is storeInstallation, `Remove*` removeInstallationByInstallationId
with its three statements, begun by a webhook or by a look that finds the
installation gone (`Read*`, `Verify`), `Disconnect*` disconnectApp.
`stale` are the handlers under which a table changed, `torn` says that one of
them went on or that a handler was cut off between its statements. The
references of workspaces and loops to an integration are set to null by the
database, and left out with tokens and repositories.

## Runs

Bounds: two invocations (or handlers) in flight are enough for every race that
has one stale reader and one writer, which is the shape of all hazards in
`PROJECT.json`; a third would only add readers. Sessions bound how often a
workspace is started, keys how many runs exist, launches how often the setup is
launched: two are needed for a second one to meet a first, three for a
predecessor whose claim has been taken over already. `AL_loop` has two runs,
so that one follows the other and fills the limit of its loop, and checks
handlers that may die one at a time. In
`MCServices` two tokens let an invitation be replaced, and two credentials let one
be promoted when the other goes; two installations let the webhook of the first come after the
second, and a behaviour ends when its tables or its ports are `torn`, because
nothing is said of them then. One handler counts collaborators at a time
(`MaxCounting`), beside any other handler, and a behaviour that has `raced` starts
nothing more. In `MCRedis` each time to live is one tick, enough for it to pass
before, during and after a request, which may take one tick (`Delay`); the timeout
of the workspace is 5 ticks, the shortest of all plans 2 and the throttle 2, so that
what a lost SET and what the throttle does to the idle pass can be told apart.

| run | instance | shows |
|---|---|---|
| `WL_railway` | Railway, 2 invocations, 2 sessions, crashes, failed deployments; all handlers but ensureRunning | TypeOK, NoOrphanInstance, TerminatedMeansGone, OnlyStaleWritersRevive |
| `WL_aws` | AWS, 2 invocations, 1 session, crashes, fairness | CleanupCompletes |
| `WL_serial` | E2B, 1 invocation, 3 sessions, all handlers | OneOpenSession, StoppedIsSettled, TerminatedHasNoRoutes |
| `AR_safety` | 2 keys, 2 sessions, 2 calls, crashes, pauses | TypeOK, SequentialRuns, PromptedOnce, ImplementsLedger |
| `AR_settle` | 2 keys, 1 session, 2 calls, fairness | IsolatedRunsSettle |
| `WS_push` | 3 launches, 2 handlers, kills, reports, recurring pids | TypeOK, RecordIsTrue, FinishedStaysFinished, RecordOnlyAdvances |
| `WS_live` | 2 launches, 2 handlers, kills, polls, fairness | SetupCompletes, FinishedIsKnown |
| `AL_loop` | 2 runs, 2 handlers or one that may die, 1 run a month | TypeOK, StartedRunsArePaid, LedgerLosesToOverlapOnly |
| `AL_refund` | 2 runs, 1 handler; a counterexample | FailedStartsAreRefunded |
| `RD_redis` | 2 processes; 2 device codes that share a user code; 2 recordings; 2 trials | StaleEntriesExpire, CleanCacheIsTrue, TokensAreApproved, ListedIsIdle, AnsweredOnce |
| `WK_jobs` | 1 AWS workspace with crashes; 2 workspaces over 2 days; 1 trial; fairness | WorkersTypeOK, LiveIsWhole, ClearedMeansStopped, UsageIsExact, Swept, QuotaIsEnforced, TrialsEnd |
| `SV_services` | 2 requests; 2 ports at Railway and AWS; 2 people; 2 credentials; 2 installations, 2 waiting webhooks | PortsAreServed, SeatsAreLimited, WithdrawnGrantsNothing, DefaultIsKept, NoTokenIsLost, TablesAgree |

No run checks for deadlock: a workspace ends terminated, a failed creation ends
with nothing, and runs, launches, codes, trials, tokens and starts are bounded.

The properties of `WL_serial` do not hold when handlers overlap (see the next
table); they are checked where nothing overlaps because even there they relate
six handlers and three webhooks that each close, bill and drop in an order of
their own. Where a property holds except in a race the code does not exclude,
the model remembers that race in a variable of its own (`clashed`, `unlisted`,
`raced`, `stale` and `torn`, `lost`) and the property excepts it; the next table
shows what happens in the race. Such a property says where the race is, and that
nothing else breaks what it states; it does not catch the race itself. That is so of
LedgerLosesToOverlapOnly, CleanCacheIsTrue, LiveIsWhole, UsageIsExact,
PortsAreServed, SeatsAreLimited and DefaultIsKept; TokensAreApproved says nothing of a
code that is consumed twice, and TerminatedHasNoRoutes nothing of a webhook that
overlaps a resume. The notes of `PROJECT.json` name these hazards.

Further instances that hold, to be started by hand: `WL_e2b` (E2B, where
ensureRunning claims a workspace and a status probe resumes it, without restart
and reaper) and `AR_keys` (three keys that share a session). `WL_railway` resumes by restart.

### What the code does not keep

Each line ends in a counterexample. `AL_refund` contradicts a line of the
repository and is a run of `PROJECT.json`, which quotes the line. The others are
started by hand: some contradict a comment or a message too, which the comment
of the property quotes, and some state what a reader may expect. Where the
table names a configuration *with* a property, put the property in the place of
those the configuration lists.

| configuration | property | the counterexample |
|---|---|---|
| `WL_railway` for Cloudflare, with | NothingIsLeft | the deletion of the sandbox fails, and the adapter reports it as done |
| `WL_railway` with | TerminatedIsFinal | a pause or restart read the row before the deletion and writes it afterwards |
| `WL_claim` | ReconcileNeverOverwritesClaim | the guard of getRuntimeAccess is "paused or pending", not the status it read |
| `WL_probe` | RuntimeAccessNeverResumes | getStatus of E2B connects to the sandbox, which resumes it |
| `WL_retention` | ReaperHonoursRetention | resumed and paused again between the list and the teardown |
| `WL_routes` | ResumedWorkspaceKeepsRoutes | a webhook of a stop deletes the route access, no resume restores it |
| `WL_pending` | PendingHasOperation | the webhook of the start comes before the handler writes pending |
| `WL_sessions` | OneOpenSession | a failed Railway deployment leaves the session open |
| `WL_metered` | RunningIsMetered | a deletion closes the session, then its teardown fails |
| `WL_billed` | BilledOnce | two pauses select the same open session |
| `AR_keys` with | CancelledRunIsStopped | cancelled before the row has a session, prompted afterwards |
| `AR_keys` with | ReusableContextExists | the session of a cancelled run is deleted, its row keeps it |
| `AR_keys` with | PromptsAreSequential | a slow creation is failed as abandoned and continued by another run |
| `WS_twice` | OneSetupAtATime | the claim holds the pid of a shell that has exited; a thawed script meets its relaunch |
| `WS_lost` | FinishedIsKnown | the last report gives up and nobody polls |
| `WS_pids` | SetupCompletes | a recurring pid with an unchanged boot id keeps a dead claim alive |
| `AL_refund` | FailedStartsAreRefunded | the run is deleted before its refund refers to it |
| `AL_refund` with | NoZombiePending | a start that finds no credential after the charge leaves its run pending |
| `AL_refund` with | OneRunAtATime | the start of a run asks only for running ones, and one was left pending |
| `AL_loop` with | TotalOnlyGrows | a slow start writes the number of its run over that of a later one |
| `AL_loop` with | LaunchedIsPaid | a process dies between the insert and the charge; the run, once stalled, is restarted free of charge |
| `RD_redis` with | NoMissWhenQuiet | a lookup stores its miss after the invalidation of the start |
| `RD_redis` with | ConsumedOnce | two polls read one approved code before either deletes it |
| `RD_redis` with | KeysExpire | a decision written after the expiry makes a hash without a time to live |
| `RD_redis` with | DenialStands | an approval that read the pending session is written over the denial |
| `RD_redis` with | ListedIsIdleBeyondTimeout | Redis lost its timestamp, and lastActiveAt is behind by the throttle; or a SET was lost, and lastActiveAt is compared with the shortest timeout of all plans only |
| `RD_redis` with | SpawnedOnce | a launch that fails gives back the slot and leaves its sandbox up |
| `WK_jobs` with | SweepSparesCreations | the purge takes the resources of a workspace whose row is not there yet |
| `WK_jobs` with | LeftoversAreSweepable | a creation dies between making the service and tagging it |
| `WK_jobs` with | NothingIsPinned | a rule without tags keeps its target group |
| `WK_jobs` with | RuntimeIsLimited | the minutes of an open session do not count towards the quota |
| `WK_jobs` with | NeverOverbilled | two stops close one session and add it twice |
| `WK_jobs` with | OneRowPerDay | two sessions look up a day that has no row |
| `WK_jobs` with | DeadTrialHasNoRoutes | a trial is terminated before its launch writes the route access |
| `SV_services` with | SeatsNeverExceed | a collaborator is made between a count and its invitation |
| `SV_services` with | AcceptedStaysAccepted | a decline that read the pending invitation is written after the acceptance |
| `SV_services` with | ListedIsRemovable | a purge that fails half way leaves domains in the column that are gone |
| `SV_services` with | NoDomainIsForgotten | a domain that is made after the timeout is in no column |
| `SV_services` with | RevokedIsNotUsed | the run of a loop refreshes a credential whatever its state |
| `SV_services` with | StoredIsConnected | the webhook of the old installation removes the row a store is about to update |
| `SV_services` with | SuspensionIsKnown | loading the setup page again clears the flag of an app that is suspended |

## Fairness

`WL_aws`: an invocation that is being served goes on (weak fairness of its next
step, which a crash may still pre-empt); the cron job of the worker starts
sweeps for ever; a teardown tried infinitely often succeeds once, and the write
after it is not pre-empted by a crash every time (strong fairness). Users,
webhooks and the deletion itself are assumed to do nothing.

`AR_settle`: handlers go on; a prompt the server accepted is answered; the
client asks for its run for ever, as the SDK's wait loop
(`packages/sdk/src/client.ts:474`) does, also after the grace period. The run assumes
that neither the API nor the workspace stops: a crash between the deletion of a
session and the failing of its run, or a server that is killed in the middle
of an answer, leaves a row running for as long as the workspace runs, and
these two are listed as hazards.

`WS_live`: a script whose workspace runs goes on, handlers go on, and whoever
waits for the setup asks again. Nothing is assumed of pauses, restarts or
reports. In `WS_lost` a report that stays in flight is received, and the run
still finds the loss.

`WK_jobs`: a sweep comes to its purge again and again, and no kind of resource
always fails it; the worker starts it by cron and its calls are independent
requests (`SweepFairness`). Starts and stops in flight go on, the quota pass
starts for ever, and a provider that is asked to pause for ever does so once
(`QuotaFairness`). E2B ends its lease and kills the sandbox; the anonymous reaper
starts for ever, and the termination of a trial and the statement after it,
tried for ever, succeed once (`TrialFairness`). No launch need go on, no webhook
arrive, no visitor act: `TrialsEnd` is about what the reaper makes of that.

## Proofs

Every invariant and every action property that a passing run checks is also a
theorem, for all values of the constants that satisfy the named assumptions.
Each rests on an inductive invariant that says what the handlers in flight
remember and why it is still worth something. The properties by themselves are
hardly ever inductive: they would be broken one step after a handler goes by
something it remembers wrongly, and do not speak of it before.

`WorkspaceLifecycleProofs`, from the assumptions of `WorkspaceLifecycle` on its
constants only (known operations, a known provider, known settlements, a finite
set of sessions):

- `TypeCorrect`, `NothingIsOrphaned`, `TerminatedIsDestroyed` and
  `StaleWritersOnly`, for any number of invocations and sessions and every
  provider, the middle two but for Cloudflare, whose adapter hides failures
  (`ReportsFailure`). The inductive invariant `Inv` adds to the properties what the
  handlers in flight know: an invocation that is about to clear the reference
  or to write terminated outside AWS has seen the instance go, a pending "gone"
  event means that it has gone, a reference is cleared in an existing row only,
  and a creation in flight excludes an older instance. Without these a late
  write would break the property one step later. The action property follows
  from the guards of the webhooks and from `ref`: a terminated row that a
  webhook could match has no reference, or a status outside its filter.
- `SerialStopsSettle`, `SerialMetersOnce` and `SerialDropsRoutes`, for the
  behaviours in which handlers do not overlap (`[]Serial`, which every behaviour
  satisfies that has one request, as in `WL_serial`) and none dies. What they
  state is false otherwise (`WL_metered`, `WL_billed`), and the first two are
  false on Railway even then (`WL_sessions`), so that they assume another
  provider. Webhooks, retention and the sweep are handlers like the others;
  events still come at any moment. `SerialInv` follows the one invocation in
  flight, `call`, through `MeteredOK` (one session is open at most, none while
  the workspace is stopped but the one a webhook is about to close), `BilledOK`
  (a closed session is billed once, or is about to be), `RoutesOK` and `ShapeOK`.

`AgentRunProofs`, from the assumptions that "no run" and "no session" are not
keys or sessions and that the flags are Boolean:

- `TypeCorrect` and `RunsAreSequential`. `IInv` is the conjunction of `TypeOK`,
  `CallsOK` (what each point of a call implies about its row, its session and
  the other calls), `RowsOK` (which sessions rows may name) and `OneLast` (the
  runs of a session form a chain of which only the last may be unfinished). The
  property itself is not inductive, because a continuation is inserted long
  after its parent was read; the chain and the unique index on the parent are
  what exclude a second one.
- `RunsImplementLedger`: `AgentRun` implements `RunLedger`. Each write to a row
  is a lemma that names the abstract step; all other actions stutter.
- `RunsArePromptedOnce`: a run that was not started has not been prompted, and
  a call that is about to submit belongs to a started run that has not been, and
  is the only one of its row (`PromptInv`). That a run which was started stays
  so comes from the ledger.

`AgentLoopProofs`, from finitely many handlers, bounds that are numbers, and "no
run" not being one:

- `TypeCorrect` and `RunsArePaidFor`. A refund takes a payment away, and nothing
  in the row of a run tells whether it is the last one. `IInv` counts for each
  run the handlers that have charged for it and not launched it yet (`Payers`);
  what is paid covers each of them and, if the run was launched or can be
  launched by a restart that pays nothing (`Owed`), one charge more.
- `LedgerFollowsQuota`: a step of a handler that read the quota as it still is
  changes the quota and the record of events by the same amount.

`WorkspaceSetupProofs`, from the assumptions of `WorkspaceSetup` on its
constants:

- `TypeCorrect` and `RecordAdvances`, whether a pause freezes or kills and
  however restarts overlap. They rest on `Written` (a report speaks of a state
  that was in the file) and on the fact that no handler carries "waiting", so
  that the guard of the update alone keeps the row from moving back.
- `RecordsAreTrue` and `SetupsStayFinished`, where a pause kills the script
  (`~Freezes`) and restarts do not overlap (`~DoubleRestart`). `IInv` says that
  at most one launch is alive, what its place in the script implies for its exit
  code and the files, and that everyone who says that the setup is over, be it a
  report in flight, a handler or the row, says what the files say. Without the
  two assumptions the second launch of `WS_twice` breaks the first conjunct.

`WorkerProofs`, from the assumptions that the sweeper is not a workspace and
that the bounds of the metering are numbers. `JobsAreApart` says that a behaviour
of `WorkerJobs` is one of each job by itself, so that what is proved of a job
holds of the composition that TLC runs.

- `LiveIsWholeHolds` and `ClearedMeansStoppedHolds`, for any number of AWS
  workspaces. `InductiveInvariant` proves what each point of a call implies:
  which resources a creation knows, that they are there and tagged in the order
  of their creation until a purge that did not know the workspace was at work,
  that a deletion is past its service before the row is cleared, and that the
  sweep's list of the rows it spares contains every live row but those in
  `unlisted`. Neither property is inductive without it, because rows and
  resources are written by different handlers.
- `DaysAreExact`, that usage is exact on every day nobody clashed on. The
  invariant `Books` says that on such a day what was run is what the row says
  plus what calls have closed and not yet written (`Balanced`), that a writer
  knows the minutes of its row, that a session is closed by one call, and that a
  call which found a row found one of its day. The sum over the calls is a
  function of the set of calls that the proof carries along, because it changes
  with one call at a time and a recursive sum could not be reasoned about.
- `JobsTypeCorrect`: the types of all three jobs.

`RedisProofs`, one part for each service of `RedisServices`, whose theorems speak
of the component's own specification:

- `StaleExpires` and `CleanIsTrue` of `ProxyCache`, from positive times to live
  and from routes none of which is Down. What a request read is no older than the request if
  the route has changed since; what it stores expires one time to live later.
  So `since` plus the time to live that is left is bounded, wherever the stale
  value is: with a request, in Redis or in a process. A cache that no lookup
  has written to over a change has only been written by lookups of the present
  route.
- `TokensAreApprovedHolds` and `OverMeansOverHolds` of `DeviceLogin`, without
  assumptions. A hash or a poll in flight that names a user names one who
  approved, across the expiry and the reuse of a user code (`UsersApproved`); a
  hash that is written after its end lacks the fields of createSession and is no
  session (`OverIsBare`).
- `ListedStaysIdle` of `WorkspaceActivity`, for any throttle and delay and any
  timeouts of which `Tightest` is the shortest. A recording that does not write
  lastActiveAt was throttled by another one, which has the throttle's key and writes
  it, or has written it. A time in Redis that is older than the last use means that
  the SET of that use was lost (`lost`), and then lastActiveAt has it.
- `TrialsAnswerOnce` of `AnonTry`: whoever is in flight has the slot alone, and
  nobody was answered since it was taken.

`TableProofs`, one part for each service of `TableServices`, whose theorems speak
of the component's own specification, for any number of handlers:

- `WithdrawnTokensGrantNothing` and `SeatsStayLimited` of `WorkspaceSharing`, from
  a finite set of people to which the owner does not belong. No two rows hold
  one token, so that what withdraws one withdraws no other. For the seats the
  invariant says what a handler has found room for; while others only take
  seats away the room is still there, and once another handler makes a
  collaborator in between, `raced` excuses the rest. A count that is
  under way has counted everybody who sits in a table it has passed, unless somebody
  moved there since; so one that nobody has overtaken counts nobody less than once.
- `StoredTokensAreTaken` and `TheDefaultIsKept` of `ModelCredentials`. One
  handler at most holds the token that replaces the stored one, and until it is
  stored whoever read the row brings a token that is refused. A handler that
  nobody has overtaken knows the rows as they are, and while there is no
  default, one handler is about to choose it.
- `BothTablesAgree` of `GitHubInstallation`: when the two tables disagree, a
  handler is between the statements that will make them agree, or it has been
  overtaken; one that has not goes by what is in them.

`WorkspacePortsProofs`, from the assumption that there are ports, whose numbers are
within the bound on domains:

- `PortsStayServed`. A handler that nobody has overtaken is alone with the
  column it read, and where it is says how far the world is from being served;
  one that was overtaken after it acted will set `torn` before it returns. What AWS
  has kept without a word is apart from `domains`, and no such handler relies on it.

Only model-checked: the liveness properties (CleanupCompletes,
IsolatedRunsSettle, SetupCompletes, FinishedIsKnown, Swept, QuotaIsEnforced,
TrialsEnd), because the prover reaches neither fairness nor ENABLED; and, in
`AL_refund`, the refutation. `RedisTypeOK` and `ServicesTypeOK` collect the type
invariants of composed modules; they hold, and are not among the runs.

## Plan

The modules of the table are done, and the properties of the runs that can be
proved are. What is left, in order of importance:

1. Compositions: the lifecycle with the runs it finalises (a terminated
   workspace has no active run once its handlers have returned) and with the
   setup it relaunches.
2. What the code keeps of the properties that fail: that every counterexample
   of the last table needs the race it names, as the theorems with `clashed`,
   `raced` and `torn` already say for theirs.

## Not modelled

- GitHub: tokens, repositories, forks and branches, each one request to an API.
- The insides of the provider adapters other than AWS's. What `WorkspaceLifecycle`
  has of them is what its provider steps show: an operation works, throws with or
  without effect, resumes on a probe (E2B), or fails unnoticed (Cloudflare, for
  pauses and teardowns). A creation or a resume that returns without having worked,
  a sandbox that dies by itself without an event, and an API that answers with old
  data are in no model.
- Events (SSE): an emitter within one process that keeps no state.
- Administration, users, listings, the encryption of headers and credentials,
  roles, ssh access, volumes: single statements or data without control flow.
- SDK, CLI, plugin, web application, Caddy proxy, migrations and e-mail:
  clients, presentation and configuration. They and the generated GraphQL types
  are most of the source lines; the mapped lines are those of the API and
  the worker.
