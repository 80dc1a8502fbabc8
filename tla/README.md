# enumscan: TLA+ models, checks and proofs

enumscan is an authorised-enumeration platform written in Go. A scan starts from
targets; modules consume events (a target, a discovered host, an open port, a
URL) and return further events, until nothing is left to do. Several processes
can share the work: coordinators elect a leader through a database lease and
hand scan jobs to remote agents.

The project models the parts of that system whose correctness depends on the
order in which goroutines, processes, operators and failures act. It consists
of specifications, TLC instances (`MC*.tla` and `*.cfg`) and TLAPS proofs
(`*Proofs.tla`).

## 1. Inventory

| Component | State it keeps | Operations | What is hard |
|---|---|---|---|
| Engine (`internal/engine/engine.go`) | `scan_runs`, events and checkpoints of a scan ID | StartScan, reload of stored events, enqueue targets, Run, FinishScan, ScanHealth | restart after a crash, partial failure, what "completed" means |
| Scheduler (`internal/scheduler/scheduler.go`, `deduper.go`) | three channels, WaitGroup, error slot, dedup set | Enqueue, nextEvent, worker, waitForScanResume, recordRun | closing channels while workers send, blocking sends, cancellation, pause |
| Adaptive workers (`adaptive_pool.go`, `scheduler.go`) | desired number, live workers, pending retirements | RecordLatency, spawn, reserve retirement, exit | two mutexes, check and act apart |
| HA coordinator (`ha_coordinator.go`, `postgres_ha.go`) | lease row with epoch, local lease and flag | acquire, renew, release, fenced mutation | timeouts, lost answers, stale time samples, split brain |
| Distributed jobs (`distributed_jobs.go`, `distributed_agents.go`, `postgres_distributed.go`, `cmd/enumscan/main.go`) | jobs, agents, evidence | register, heartbeat, lease, ingest, complete, requeue, cancel, drain, reset | lease expiry, late agents, operator racing an agent, crash between evidence and completion |
| Agent authentication (`distributed_agents.go`, `distributed_client.go`) | used nonces | sign, check time, prune and consume | replay against pruning |
| Scan modules (`internal/modules`, `internal/scope`) | page, screenshot and provider budgets | Handle of each module | scope checks across redirects and discoveries, budgets shared by workers, emission loops |
| Recurring scans (`cron_scheduler.go`) | tasks with next run | Add, Remove, Start, run due tasks | overlapping runs of a task, stop during a run |
| Evidence store (`sqlite_cli.go`, `live_encryption.go`, `encrypted_backup.go`, `backup_retention.go`) | schema version, key verifier, evidence rows, backup file | migrate, verify the key, seal existing rows, insert, back up, restore | two processes on one file, wrong or missing keys, a crash between two statements or file operations |
| Retention and review (`lifecycle.go`, `finding_review.go`) | scans, holds, findings, review trail | hold, two purges, delete, transition, assign | purge against hold and running scans, identifiers after deletion, failing deletes inside a transaction |
| Configuration (`internal/config`) | the file on disk | default, assign, profiles, validate, engagement wizard | precedence of explicit values, aliases, what the wizard's file means when it is loaded |
| API (`internal/api`) | tokens, audit, scan goroutines, subscribers | authenticate, authorise, dispatch, reload, stream | reload during a request, closing a subscriber's channel, events of two goroutines |
| Identity (`internal/api/identity.go`) | organizations, users, sessions | create, sign on, log in, revoke | the lock is taken twice in a login; just-in-time users of concurrent logins |
| Plugins (`internal/plugin`) | catalog, installed directories, `current`, manifests, stages | publish, install, load, execute, register, verify, promote, roll back | registry restarts between description and download, concurrent installers, repeated lifecycle calls |
| Analyses (`internal/vulnerability`, `internal/inventory`) | assets and findings of the scans | import, prioritise, correlate, score, compare, graph | commands read what others and they themselves wrote, row by row |
| Reporting, TUI, capability, logging | none that several actors share | formatting, outbound HTTP | not concurrency |

How they interact: the API and the command line call `Engine.Run`; it builds a
`Scheduler`, whose workers call the modules and the store; the API writes
`scan_runs.status`, which workers poll at `waitForScanResume`. Agents speak HTTP
to the coordinator's API, which authenticates each request and calls the job
store; job cancellation at a PostgreSQL coordinator passes the HA fence. The
API loads a configuration, changes a copy of it for a request and gives it to a
goroutine that runs the engine and broadcasts to subscribers. The analyses, the
purges, backup and restore are commands on the database file a scan may be
writing. The components share state only through the database, the file system
and the scheduler's channels.

`PROJECT.json` lists every component with its status, and under `hazards` what
in this code a test would hardly reach, each at its line and with the properties
that watch it.

## 2. Modules

### Scheduler

One scan: `Engine.Run` as the variable `main`, each worker goroutine as `pc[w]`,
and the rows of the database that survive a crash (`eventLog`, `ck`,
`failedRun`, `status`). Every database call of a worker is one step, so pause,
resume, cancellation, a crash or another worker may come between any two.

| Code | Model |
|---|---|
| `StartScan`, audit and raw-technique set-up | `Start`, `SetupFails` |
| `db.Events`, targets, `Enqueue` before `Run` | `LoadBacklog`, `LoadNext`, `LoadSend` |
| `Run`: spawn, `wg.Wait`, close, join | `SpawnWorkers`, `CloseQueues`, `JoinWorkers` |
| `FinishScan`, `ScanHealth` | `FinishScan`, `CheckHealth` |
| `worker`, in program order | `ResumeCheck`, `Poll`, `Select`, `StoreEvent`, `Gate`, `CheckpointStatus`, `MarkRunning`, `HandleOk`/`HandleFail`, `MarkCompleted`, `Emit`, `Send`, `FinishEvent` |
| `handlePauseScan`, `handleResumeScan`, context, process | `Pause`, `Resume`, `Cancel`, `Crash` |

An event is a record; the checkpoint key leaves out its data, as the table does.
The loop over `s.modules` is an index that `NextSubscriber` moves to the next
subscribed module. The deduper is its exact set with its eviction; the Bloom
filter in front of it only saves a lookup and is left out. Rate limiters and
retries inside a module are delays. `owed`, `handled`, `doneBefore` and `late`
are history variables that only the properties read.

What a stored event reads back as is the constant `Reload`: `flatten` joins an event's
Data with `;` and `=` unescaped and `inflate` splits it again, so a value with a `;`
(a banner, `portscan.go:142`, a UDP answer, a version) comes back changed, and the
deduper's key includes Data. Type and target survive (`ReloadAssumption`). Go's map order
makes the damage vary from one writing to the next; the model takes one result per
event.

A failing call is `Fails(kind)`: free once the context has ended, otherwise from
a budget of faults of the kinds the instance allows. Each start has a context of its
own, so a scan is also resumed after a cancelled run. Some calls ignore their own
failure (`recordRun`, the `failed` checkpoint, `FinishScan` on an error path);
they choose their outcome without using the budget.

`ScanWork` is what a scan promises whoever does the work: targets call for work, work
that is done may call for more, nothing else is done and nothing once the scan has
reported, and a first attempt reports success only when all that was called for is
done. Its `called` is `owed` and its `verdict` what `Engine.Run` returned, with
`EmittedWork` as what each piece of work may call for; `ImplementsScanWork` states
the refinement.

### AdaptiveWorkers

The goroutines of an adaptive scan. `current` is the pool's desired number under
its own mutex; `liveWorkers` and `pendingRetirements` are under `workerMu`. Reading the
desired number, comparing and every spawn are separate steps. What the events
are is irrelevant: an idle worker may take one until the queues are closed.
Latencies are arbitrary, so the pool may move either way at each sample. A worker
whose `waitForScanResume` fails, on a status lookup or a cancelled scan
(`scheduler.go:186`, `206`), gives up (`GiveUp`) and is counted in the history variable
`lost`; `workerExited` runs on every way out and takes back a retirement that
somebody else may have reserved. `MCWorkers` puts the pool next to `Scheduler`.

### HACoordinator

A row with leader, epoch and what is left of the lease, and on every node the
loop of `run`, the local lease and one `ExecuteFencedMutation` call. Times are
kept as remaining times, and the `now` of a request as the age of its sample, so
the clock is unbounded and the state space finite. Requests and answers can be
lost, nodes stop or crash. Two assumptions: nodes share a clock (the code
compares its own `time.Now` with times other nodes wrote), and a request that
has timed out is not executed by the database later.

`Leadership` is what the coordinators promise together: a sequence of terms, each
granted to one node while nobody leads, in which only that node leads. Its term is
the row's epoch, its leader the node whose `IsLeader` answers true, its owner the
row's; `ImplementsLeadership` states the refinement.

### DistributedJobs

The job and agent tables, the evidence stored per job and agent, and each agent
process from heartbeat to completion. An agent that loses an answer exits
(`log.Fatal`), so a lost answer and a crash are the same step, `Die`. The
operator's requeue, cancel, reset and drain exist at a PostgreSQL coordinator and
are bounded by `MaxOps`. The status in `scan_runs` belongs to a scan ID, not to a job:
every job that carries the ID, pause and resume (`UpdateScanStatus`) and the
coordinator's own engine (`OwnRun`) write it, so a completed scan may become running or
paused again. `revoked` is a history variable: an operator has taken a lease from an
agent. The fence in front of cancel is HACoordinator's.
`MCAgents` puts the jobs next to `AgentAuth`: the steps of an agent are requests
that `AgentAuth` has let through.

### AgentAuth

A signed request may be delivered late, repeatedly and to several handlers. The
timestamp check and the transaction that prunes and inserts are two steps with
at most `MaxDelay` between them. `RetentionAssumption` (twice the window plus the
delay is at most the retention) is what the constants two and five minutes leave:
one minute for a request between check and transaction. Signatures are taken to
be unforgeable.

### ModulePipeline

What the modules registered by `Engine.Run` do with the events the scheduler
gives them. The variable `world` is the network, the operator's import files and
the target list, chosen at the start: relations that say which name resolves to
which address, which port answers, what redirects and links where. Each module is
an operator from an event to a record with three sets: hosts it reaches by a dial
or a scope-checking client (`contacts`), hosts it reaches with a client that
checks nothing (`strays`), and the events it emits.

| Code | Model |
|---|---|
| `scope.Guard.Allowed` | `Allowed` |
| `scopedHTTPClient` (five requests, each redirect checked) | `ScopedHop`, `scopedHTTPClient` |
| `http.Client` without `CheckRedirect` (ten requests) | `FreeHop`, `DefaultClient` (external) |
| Handle of each registered module | the operator of the module's name |
| a worker taking an event, and the end of its module chain | `Take`, `Finish` |
| the subscriptions, by event type | `HandleTarget` ... `HandleURL` |
| `HTTP.pages`, screenshot counts, `PassiveIntel.seen` | `pages`, `shots`, `reserved` |

Abstractions. The chain of modules on one event is one step between `Take` and
`Finish`; how its parts interleave with faults and restarts is `Scheduler`'s
matter. Events are taken in any order. Of an event's data only depth and protocol
are kept, so two URLs that differ in their source only are one event. The checkpoint
key has neither, as in the table. Lookups at the resolver, at rdap.org and at
passive providers are not contacts with a host under test. Events nobody
subscribes to (`specialized.discovered`, `service.identified`, `url.discovered`)
and recorded assets and findings are left out. Service names belong to ports,
not to single hosts. A wildcard scope entry and its domain cover the same names.

The scope has one hole that is part of the model: `IPv6Discovery` emits the
first addresses of an IPv6 target block unchecked. `EventsInScope` names them
(`FromIPv6Block`), and `GuardedContacts` shows that the modules which consume
those events refuse them.

### EvidenceStore

One database file and the processes that run commands on it. A process has a
command, a key (one of several, or none) and a step; each database transaction
and each file operation is a step of its own, and a process may die between any
two of them.

| Code | Model |
|---|---|
| `OpenStore`, the ad hoc scans of the server | `OpenStore`, `DispatchScan` |
| `Migrate`: version, migrations, key check | `ReadVersion`, `RunMigration`, `Migrated` |
| `initializeEvidenceEncryption`, `encryptExistingEvidence` | `CheckVerifier`, `InsertVerifier`, `EncryptExistingEvidence` |
| `StartScan`, sealed inserts, `FinishScan` | `StartScan`, `WriteEvidence`, `FinishScan` |
| `BackupEncrypted`, `RestoreEncrypted`, `Restore` | `TakeSnapshot`, `EncryptBackup`, `DecryptBackup`, `TruncateLive`, `CopyLive`, `ReopenRestored` |
| a process that dies, a backup damaged on disk | `Crash`, `DamageBackup` |

Only some commands migrate, so a command may write evidence the verifier never
vouched for; `db.unchecked` records that it happened, and `StoreSealed` is about
databases where it did not. A sealed field is the key and the value; the cipher
is ideal.

### EvidenceRetention

The scans of a database with their age, findings and one child table per kind of
evidence, legal holds, the two purges, the deletion of findings and the review of
a finding with its audit trail. Transactions are single steps, because the store
has one connection. The deletes inside the lifecycle purge ignore their errors;
the model lets any of the child deletes fail. `MCEvidence` puts both stores side
by side.

### ScanConfig, Identity and ApiServer

`ScanConfig` has no state: a file is a function from keys to values, `Load` is
`Default`, `assign`, the profile and `Validate`, and `RenderEngagementConfig`
turns a wizard's input into a file again. Settings that no profile touches are
one key that is within its bounds or not. The check for a placeholder in the first
target (`config.go:129`) is left out: the model accepts more files than the code. `Identity` has one operator per method
of the identity manager, as it acts under the manager's lock. `ApiServer` composes
them with the server:

| Code | Model |
|---|---|
| the wizard, the operator's edits, the start of the server | actions on `file` and `cfg` |
| `authMiddleware`, `rbacMiddleware`, handler, `auditMiddleware` | the steps of a connection, `req[c]` |
| `handleRunScan`, its goroutine, `Engine.Run`'s own checks | `runs`, one record per scan |
| `handleReloadAPITokens` | a new `tokens`, between any two steps of a request |
| `handleWebSocketEvents`, `BroadcastEvent` | `chan[c]`; a broadcast is one step, the close of a channel another |
| the agent endpoints, exempt from tokens | requests of the kind `agent`, without a role |

An operator may edit the file at any time; `loaded` and the `file` of a run are history
variables, the file as it was when the server or a command loaded it. A scan's identifier
comes from the client or the current second (`ScanId`), so two runs may have the same one.

### PluginLifecycle

The marketplace (`Market`): publication under a trusted or another key, a registry
that restarts with another catalog, installers that describe, download, verify,
stage, rename and set `current`, and the loader with the execution of Lua and
gRPC plugins; and the hot-reload manager (`HotReload`) with its stages.

`os.WriteFile` truncates and then writes from the start, each writer for itself. When two
installers have both truncated `current`, the version written last may be the shorter one:
`10.10.0` and then `1.0.0` leave `1.0.0`, a newline and `0`. The pointer is the version it
begins with and the positions left over behind it (`Pointer`, `Remains`), with `Length`
for the length of a version's text; one position more is only a newline, which the
reader trims. `LuaRunner.Execute` reads the script from disk for every event (`Runs`), so
evidence records the manifest it is stored under and the script that ran.

### EvidenceAnalysis

The commands `analyze-vulnerabilities`, `correlate` and `score-risk`. A command
reads its tables in the code's queries and writes its rows one by one, so scans,
imports and other commands act in between and a command may die half-way. The code
throws away the error of every row it writes (`prioritization.go:80`,
`correlation.go:146`, `risk.go:88`) and goes on: `LoseWrite`. Rows are `INSERT OR
IGNORE` on type, value and parent; findings are plain inserts, so the stored ones are
numbered copies, and what is counted per finding counts copies. Scores, weights and
thresholds are the code's. Drift reports and the knowledge graph are operators on the
tables. Of an asset's text only the words the scores look for are kept. Three
simplifications: `findingKey` joins its parts with `@` (`differential.go:171`) and is taken
as injective; the four queries of `CompareStoredScans` are one snapshot; and the score
tables are carried in full, although the properties ask only for their range and for
which rows they give. `stale` and
`fresh` are history variables: which commands were overtaken by another writer or
lost a row, and which have ended unharmed since a scan last changed.

### Components side by side

`MCWorkers`, `MCAgents`, `MCEvidence` and `MCPluginLifecycle` instantiate two components that
share no variable, with properties that each speak of one. Every state of either
is reached while the other is in its initial state, so only those behaviours are
explored: the next-state relation lets one move while the other is initial.

## 3. Runs

| Run | Checks | Shows |
|---|---|---|
| `scheduler` | WaitGroupExact, CloseIsQuiet, PauseHolds, ImplementsScanWork; CountersSound, MinimumKept, AllExit | one run, two workers, three modules, one failing call or module, one pause; concurrent scaling in both directions, a worker lost to an error, and the end of a scan |
| `scheduler_restart` | CheckpointSound, ResumeSkipsDone, FaithfulStoredOnce, UncancelledScanEnds | two runs under a scan ID, one fault of any kind between any two steps, one pause |
| `ha` | OneLeader, EpochHasOneOwner, ImplementsLeadership, Failover | two nodes, a lost request, answer or process, three epochs |
| `agents` | NoReplay, OneWorker, CompletedHasEvidence, CompletedIsFinal | two requests and two handlers across the retention time; two agents, two jobs of one scan, expiry, deaths, one action of the operator or of the coordinator's engine |
| `pipeline` | EventsInScope, GuardedContacts, PageBudget, DiscoveryExact, AskedOnce, DiscoveryEnds | five small networks, two workers, every feature on, one failing page request |
| `evidence` | StoreSealed, RestoreKeepsSource, ReviewTrailSound, LifecyclePurgeSafe | two processes with two keys or none; two scans, a finding, a reviewer, holds and purges |
| `api` | RunsWithinAuthorization, ConfigFaithful, RolesEnforced, StreamSound, IdentitySound | two connections, files by hand and by the wizard, an edit at any time, logins, agents, reloads; two scans under one or two identifiers and their stream |
| `plugins` | InstallationSound, EvidenceVouched, RollbackReady | two installers, two versions of different length with two bodies, an edited file, four stages |
| `analysis` | GraphSound, AnalysisSettles, DriftExact | two scans, two concurrent commands, imports, lost writes, deaths half-way |

Several of these are conjunctions of named parts that describe one thing:
`StoreSealed` (EncryptedAtRest, MigrateNeverStuck), `ReviewTrailSound` (AuditChain,
VerifiedWasRemediated, VerifierActed), `DiscoveryExact` (CrawlBounded, Covered),
`ConfigFaithful` (ExplicitWins, EngagementLocked), `StreamSound` (NoSendOnClosed,
StreamInOrder), `IdentitySound` (OneUserPerClaim, SessionOfUser), `InstallationSound`
(InstalledSigned, PointerSound), `CompletedHasEvidence` (JobsVouched, ScansVouched),
`GraphSound` (EdgesGrounded, GraphClosed). Where a component
has no theorem for its type invariant alone (section 4), the invariant is a part of
one of them.

Four properties say how far a promise goes that the code does not keep in full.
`FaithfulStoredOnce` is about events that read back as they were written
(`scheduler_reload` shows the others). `MinimumKept` counts the workers lost to errors.
`StreamInOrder` is about scans whose identifier was dispatched once. `PointerSound` says
what may be left over in `current`: the end of an installed version, at least two
characters longer than the one the pointer begins with.

Some promises are narrower than they may sound. `CheckpointSound` is about checkpoint keys,
which events that differ only in Data share. `PageBudget` counts page events, not the extra
requests of the first page (`http.go:300-367`) or redirects, and `allowPage` is one step
because it holds its mutex. `AskedOnce` counts one question per provider and subject, not
the attempts of `doWithRetry`. `RestoreKeepsSource` is about one restore: a database reopened
after a crash that truncated it is a database like any other, and a later backup may
overwrite the good one. `LifecyclePurgeSafe` asks for the configured minimum of scans to
remain; with held scans among the oldest, `docs/data_lifecycle.md:25` may be read as asking
for more. `IdentitySound` holds although users are never changed once they exist.

Three further runs show where the code does not do what its documents say; each
stops at the counterexample.

| Run | Property | What happens |
|---|---|---|
| `scheduler_crash` | CompletedCovers | a crash between a completed checkpoint and the storing of the module's events loses them; the resumed scan completes without them |
| `scheduler_reload` | EventStoredOnce | an event whose Data holds a `;` reads back under another key; the module that emitted it is run again on resume and the event is stored a second time |
| `pipeline_scope` | ScopeRespected | with only name resolution and TCP port scanning on, a redirect of a server in scope takes `VHostDiscovery`'s client out of it |

### Bounds

* Two workers, because every hazard of the scheduler is between a worker and one
  other actor, and three modules whose chain fans out (two hosts with one
  checkpoint key), uses all three queues and loops back to a known host. The
  restart run has two of the modules, with the same fan-out, loop and events, two runs
  and a pause that may come before, during or between them.
* One fault per behaviour: it can strike at any call of any worker. The proofs
  below do not depend on this bound.
* `QueueCap` and `DedupCap` are large enough not to be reached in these runs. At
  the cap, sends block (`Send`, `LoadSend`); with all workers blocked in sends a
  scan cannot go on, which the bounds keep out of the liveness run. The safety
  theorems hold for every capacity, except that `EventStoredTheorem` needs a dedup set
  with room for every event. One event of the instance reads back as another.
* Adaptive: at least two and at most three workers with room for a fourth goroutine, so
  that two of them fill one gap; one worker is lost, which may take back the retirement
  of another.
* HA: lease three, renewal two, so a sample may be as old as the renewal interval
  and a lease can expire while a request is on its way. Three epochs allow a
  takeover and a takeover back.
* Jobs: leases of one tick expire at any point of an agent's work; two attempts
  per job allow a takeover; both jobs carry one scan ID, the case in which they meet.
  Workers, agents, handlers, processes, keys, scans of the retention model, installers
  and connections are symmetric. Symmetry is used in runs without liveness properties,
  and in `scheduler`, whose liveness property `AllExit` is about the pool: when the pool
  moves, the scheduler is in its initial state, which every permutation of its workers
  leaves as it is.
* Authentication: window two, retention five, delay one is the tightest case of
  `RetentionAssumption`.
* Pipeline: each world is one scan. `Site` has links in a circle over two ports, a
  page one link beyond `MaxDepth`, more pages than the budget, and redirects that
  leave the scope and return; `Block` and `Block6` are networks partly in scope;
  `Zone` has names, addresses and certificates that lead to each other; `Tap` has
  captured traffic, a port open for both protocols and a filtered one. The budget of
  four pages lets the crawler reach the first page beyond the depth, if it were
  wrong. Deadlock is not checked: a scan stops when nothing is left.
* Evidence: three commands, so that two run at once and a third meets what they
  left; two rows, the least that can collide; three tables, one unique, one that
  scans read again and one plain. One migration stands for all, each in a
  transaction of its own. Retention: two scans with `MinScansKeep` one, one finding
  and four trail entries, the way from open to verified through every state between.
* API: two connections. Every file, input and edit meets every request and a scan; the
  files meet each branch of `Load`, the requests ask for targets in and out of scope and
  known, unknown and no profiles. Two requests meet at a server without and one with
  tokens. Two scans, which need a third request for their subscriber, meet at the plain
  server, with channels of two events (`Overlap` in `MCApiServer`).
* Plugins: two publications let a version be published again with another body or
  key between two steps of an installer. The versions have five and seven characters, the
  least difference at which a pointer splices; one installed file is edited.
* Analysis: two commands and one import; the assets include one that two types
  share and a docker socket, which the rules, the impact and the edges single out.
* In these four, commands, requests and publications are bounded, so a behaviour
  may end: deadlock is not checked, except in `plugins`, which has none.

### Fairness

* Scheduler: weak fairness of the engine and of each worker; Go runs every
  goroutine that can move. Nothing is assumed of the operator, faults or modules
  beyond that a Handle returns (it has a timeout). `ScanEnds` allows for a scan
  the operator leaves paused; `UncancelledScanEnds` also for a cancelled one,
  which never ends (section 5). In `scheduler_restart` deadlock is not checked
  for that reason: after cancellation the scan really stops.
* Adaptive: goroutines past the queue, or at closed queues, go on and exit; that events
  keep coming is not assumed. `waitForScanResume` is inside these steps, so a scan
  that is paused is assumed to be resumed.
* Pipeline: weak fairness of the next step as a whole; a worker waits only for the
  network, under timeouts. Nothing is assumed of the order of events.
* HA: the clock ticks, loops run, a node that is down is started by its
  supervisor. `Failover` excludes endless stopping and the epoch bound.

## 4. Proofs

All theorems hold for every value of the constants that satisfies the named
assumptions of the modules.

### SchedulerProofs

Assumptions: finitely many workers, at least one event, emissions are sequences
of events, positive capacities. Subscriptions, modules, targets, fault kinds and
budgets are arbitrary.

* `WaitGroupTheorem` and `CloseTheorem`: neither invariant is inductive alone. `CountInv`
  adds that there is no worker before `SpawnWorkers` (otherwise spawning would
  forget busy ones), that a send in progress has something to send, that a worker
  past the gate is at a module, and that channels are closed only after the workers
  were spawned. The count of busy workers and of senders changes by one with each
  move (`BusyCount`, `SendCount`), that of queued events by what the channel gained
  (`QueueCount`); `WorkerCount` adds them up for every worker step. Closing is
  quiet because a WaitGroup of zero forces three non-negative counts to be zero.
* `SchedulerTypeCorrect` comes out of the same invariant: a send needs `SendPending`
  and a checkpoint write needs `LoopInside` to be well typed.
* `CheckpointTheorem`: strengthened by `HandledFirst`, a worker about to write
  "completed" has completed the module.
* `ResumeTheorem`: strengthened by `DoneStays`; the two support each other, since a
  checkpoint is overwritten only by a worker past the check.
* `PauseTheorem`: strengthened by `PauseInv`, a worker that ended a module since the
  pause is not past the gate again.
* `EventStoredTheorem`, for a finite set of events no larger than the dedup set, any
  `Reload` that keeps type and target, and any number of crashes and restarts: an event
  that reads back as it was written has one row, whatever the others read back as. An event is on its way in one place only (`OnePlace`:
  one position of one channel, one worker, or the engine), has passed the deduper
  (`PassedDedup`), and has no row unless it was loaded with one (`NotYetStored`). What
  makes it hold across restarts is `LogKnown`: once there are workers the deduper knows
  every stored event that reads back unchanged, and before that one it does not know is
  still in the backlog with only stored events ahead of it. So a target that passes the deduper
  cannot have a row. `NeverEvicts` shows by an injection that the set never overflows;
  beyond its capacity the property is false. `WorkerMoves` reduces the worker's steps to
  five: pass, receive, store, accept, send.
* `CoverTheorem`: in the first run of a scan, with any failing calls and modules,
  cancellation, crashes and pauses, but no failing status lookup, success means that
  every owed module was handled. `CoverInv` says, while nothing has been reported as
  failed, that work owed by an event the deduper knows is `Settled` (handled,
  carried by an event no worker has taken, or assigned to a worker that is not past
  the module), and that any other owed work belongs to an event returned or loaded
  and not yet enqueued. The duplicate the deduper drops is the interesting step: its
  work is settled because the deduper knows the event. A skipped module needs
  `CheckpointSound`. When the channels are closed nothing is carried, assigned or
  returned, so all that is owed is handled. Both conditions are needed:
  `scheduler_crash` refutes the property for a second run, and section 5 describes
  the lookup.
* `ScanWorkTheorem`: Engine.Run and its workers implement `ScanWork`, restarts
  included, under the same condition on status lookups. `WorkInv` says that every event
  in the events table, the backlog, a channel, a worker's hands or its returned events
  was called for: a resumed run loads only events whose work was owed when they were
  stored (`LoadBacklogCalled`), so a crash between any two steps brings in nothing new.
  A worker stops only at subscribers of its event (`AtSubscriber`), and while one is at
  work the run has not reported (`Resting`). `HandleOk` is then a step `Handle`, the
  returns of `Engine.Run` are `Report`, which `CoverInv` allows, and all other steps
  but `Start` and `LoadBacklog` stutter.

### ControlLoopProofs

The two control loops, of the coordinators and of the adaptive pool.

Coordinators (`HACoordinator`). Assumptions: `NoNode` is not a node, the renewal
interval is positive and shorter than the lease. `LeaseInv` ties every copy of a
lease, held or on its way back, to the row: an unexpired copy is the row's and
expires no later (`Covered`), a copy with the row's epoch belongs to the row's
leader (`Owned`), and no two copies of different nodes share an epoch. `LoopInv`
says that a renewal's lease cannot have more left than the sample allows, which is
where the age of the sample enters. From it: `TypeCorrect`, `OneLeaderTheorem`,
`EpochTheorem`, the action property `TakeoverTheorem`, and the refinement
`LeadershipTheorem`: because at most one node leads, the abstract leader is that
node (`ChoiceOfOne`), and because a copy with the row's epoch belongs to the row's
leader, it leads only in its own term. Every step is a grant, a lead, a resignation
or a stutter of `Leadership`.

Adaptive pool (`AdaptiveWorkers`). Assumptions: finitely many goroutines, a positive
minimum not above the maximum, any number of lost workers. `PoolInv` adds to `CountersSound`
and `MinimumKept` that a worker about to reserve its retirement holds a desired
number within the bounds: it was read before the lock was taken, and is stale by
then. The part about failed workers in `CountersSound` is what keeps `MinimumKept`: each
worker lost takes back at most one retirement that another has reserved, and one worker
more may retire for it. Running, retiring and failed workers change by one element per step
(`FiniteWorkers` and the cardinality lemmas). From it: `PoolTypeCorrect`, `CountersTheorem`,
`MinimumTheorem`.

### AgentsProofs

Authentication: `NoReplayTheorem`, from `RetentionAssumption`. `ReplayInv` adds that
a handler between check and transaction is in time, and that an accepted nonce is
remembered until no copy can pass the check. Pruning keeps it because a row older
than the retention belongs to a request whose window and delay are over.
`RememberedTheorem` states that part by itself.

Jobs, for all sets of agents, numbers of jobs, lease times and operator actions. `JobsInv`
adds `AtJob` (a working agent has a job), `LeaseKnown` (before the operator has revoked
a lease, an agent inside the time it was told has the lease in the table, with at least as
much left: this makes `OneWorker` inductive, since a row has one owner) and
`EvidenceFirst` (an agent about to complete has stored evidence). From it:
`JobsTypeCorrect`, `OneWorkerTheorem`, `CompletedTheorem`, and the action property
`CompletedFinalTheorem`. The scan's part of `CompletedTheorem` holds for any number of jobs
with one scan ID: only a completion writes "completed", unless the coordinator's own
engine ran under that ID (`own`), and a completed job stays completed. That the scan's
status itself stays is false and not claimed.

### ModulePipelineProofs

For every scope, network, feature set, bound and number of workers. Assumed of a world
(`WorldsAssumption`): it has a target, which `config.go:123` requires, and its relations
hold what their names say (names resolve to addresses, certificates hold names, links
lead from page to page, URLs of an archive have a host).

* `ScopeTheorem` and `ContactsTheorem`, from `ScopeInv`. A module's result is
  `Sound` when its contacts are in scope and its events are in scope or belong to
  the IPv6 block of the target it was given; one lemma per group of modules shows
  this from the module's own guard (`ClientInScope` for redirects, hop by hop), and
  `FinishSound` that sound results keep the invariant. `EventsInScope` alone is not
  inductive: that a target event is nothing but its host, and that a discovered
  name is no network, is needed to know which block an address came from.
  `GuardedContacts` needs it because `probeCloudURL` trusts its event.
* `AskedOnceTheorem`: strengthened by "what was asked is reserved".
* `PageBudgetTheorem`: strengthened by "no more pages of a host were requested than
  its counter says", with the cardinality of a set that grows by one element.
* `DiscoveryTheorem`, from `PipelineInv`. That the crawler stays within its depth
  (`CrawlBounded`) needs a trail behind every URL event, as long as the event's depth
  (`EventOK`): a page is requested for the event, and the next event's trail is this one
  with a link more. The reference takes trails for functions on 0..n, so no
  recursion is involved. That nothing is missed (`Covered`) needs three facts together: an
  accepted event waits, runs, or has its key done (`Accounted`); what an event whose key is
  done leads to has been accepted (`EmittedAccepted`), which is where two events with one
  checkpoint key must lead to the same hosts; and its page was requested or
  the budget is spent (`PageSettled`). When nothing waits or runs, the accepted hosts are
  a set that contains the direct hosts and its own certificate hosts, and
  `KnownHosts` is the least such set.

### PluginLifecycleProofs

For all versions, bodies, installers, publications, loads and stages; the trusted key
differs from the other one.

* `InstallationTheorem` and `EvidenceVouchedTheorem`, from `MarketInv`. The registry
  offers only what was published under its own version (`CatalogInv`). An installer
  holds a published release, one the trusted key signed from the verified download
  on, and moves `current` only to a version that has its directory (`InstallerInv`):
  the release it described may be replaced before it downloads, so the signature
  must be known of what it staged. A pointer begins with an installed version and what
  is left over behind it belongs to an installed longer one; every write keeps this,
  because the positions that remain are those the earlier writers left (`PointerSound` is
  inductive with the installers' part). A manifest of the installation holds what was
  signed (`ManagerInv`), and its directory still holds the script that was verified
  unless an installed file was edited: this is what ties the script that runs to
  the one that was verified.
* `RollbackReadyTheorem`, from `StageInv`: a stage marked verified has been verified, and there
  is no previous stage without an active one. `SwitchStages` is the common part of promotion
  and rollback.

### EvidenceProofs

For all processes, keys, tables and rows, crashes anywhere and damaged backups.

* `StoreSealedTheorem` and `RestoreKeepsSourceTheorem`, from the store's `StoreInv`.
  A database, a snapshot and a backup are each `Uniform`: plaintext throughout, or
  sealed throughout with the key of the verifier they carry, unless unvouched
  evidence was written. A process that seals or has migrated with a key has that key
  in the verifier (`KeyVouched`), whoever came first. The verifier changes under a
  process only through a restore, and who restores is alone (`RestoresAlone`). A
  restore that truncates has authenticated the backup it reads (`SourceIntact`), and
  nobody writes backups meanwhile.
* `ReviewTrailTheorem`, from `RetentionInv`. The trail of every finding is linked to
  its row: first link from open, each link from where the one before led, the last
  one at the present state, and a confirmed, remediated or verified finding has its
  earlier links since it was last open. The part that deletion makes necessary:
  identifiers at or above `nextId` have an empty trail, so a new finding never
  inherits one.
* `LifecyclePurgeTheorem`, an action property: `LifecycleOrder` shows that the scans
  selected by age are the oldest, and held scans and the configured minimum stay.

### EvidenceAnalysisProofs

For all scans, processes, assets, reports and texts, any number of commands, lost writes
and deaths. Assumed (`AnalysisAssumption`): modules store no asset of a type that the
analyses derive, and every type has a place in the order of type names. All three
theorems rest on `AnalysisInv`.

* `GraphTheorem`. `EdgesGrounded` alone is not inductive: correlate reads every
  asset, so a priority or a risk row with ends that nothing relates would become an
  edge. `TablesGrounded` says of every stored asset that its parent and value, if it
  has both, are related by an observed asset or a finding, and `Working` the same of
  the rows a process is about to write and of what its first query read. Evidence
  only grows (`Grows`), so what a process read before others wrote is still
  justified when it writes. `TypeOK` needs that scores stay in range on any finite
  tables (`ImpactRange` and its companion for risk scores), and that copies of a
  finding are numbered up to their count.
* `SettlesTheorem`. `Settling` relates a running command to the present tables: if
  it was not overtaken, what a new run would add is in the table or among the rows
  it has still to write. A row it writes changes its own input, and `OwnRowSettles`
  shows that this adds nothing: a derived row counts for no impact, and the edge an
  edge row gives rise to has the key of that row. For score-risk,
  `FirstOfTypeExists` shows by well-foundedness of the order of types that some
  asset of each value and parent is kept, so the keys of the risk rows are those of
  the assets.
* `DriftTheorem`. The comparison is a set of lists by type and parent;
  `DriftOfTables` shows that all are empty exactly if the tables agree, for any
  finite tables. `sameSet` compares sizes and one inclusion, which is equality for
  finite sets only.

### ApiServerProofs

For all targets, files, wizard inputs, requests, tokens and connections; `Cover` is any
reflexive scope relation. `TypeInv` gives every step typed tables.

* `IdentityTheorem`: strengthened by `CarriedRight`, the copy a login keeps between
  its two locks is still the stored user's.
* `StreamTheorem`: strengthened by `NotAhead`, no subscriber has or will hear of a
  stage its run has not reached. Order alone is not inductive, since a broadcast
  appends. The events of one run are in order; of one identifier they are as long
  as a single run of the server has it (`Alone`).
* `AccessTheorem`, from `AccessInv`: a server that requires authentication has tokens from its
  start on, and a reload never leaves it without, so a request past `authMiddleware` has a
  role, whenever the reload came, or is an agent's.
* `AuthorizationTheorem` and `ConfigTheorem`, from `ConfigInv`: the server's
  configuration is what `Load` makes of the file it loaded, a scan's is that changed
  by a request or what the command loaded, and the wizard's file is what it rendered,
  as long as nobody has edited it. What is edited later does not matter. The rest is about the
  pure operators. `LoadOfFile` says what a loaded configuration takes from its file,
  `RequestedOfFile` that a request's target and profile keep scope, authorization
  and active tests, and `DocumentLoads` that a rendered engagement loads back,
  setting by setting.

An absent text value is written "empty" in `ScanConfig` and `ApiServer`.

### Only model-checked

* Liveness (`UncancelledScanEnds`, `AllExit`, `Failover`, `DiscoveryEnds`): fairness
  and ENABLED are out of the prover's reach.
* `EventStoredOnce` and `CompletedCovers` in a run that resumes an earlier one, where they
  do not hold (`scheduler_reload`, `scheduler_crash`). In a first run the latter is part of `ImplementsScanWork` and proved.

Every other property of a passing run is stated by a theorem. No reference or
score is defined by recursion: trails are functions, closures least sets, and sums over
tables are cardinalities, since induction over data is out of reach too.

## 5. Not modelled

* Runtime statistics, logging, rate limiters, the Bloom filter: they report,
  delay or save work.
* The command-line completion of a job without evidence, an operator's override.
* A statement executed by the database after its request timed out.
* Times as RFC3339 text; the models have ticks.
* Modules' protocol parsers, report formats, the dashboard: no shared state.

* Recurring scans, which start engines that `Scheduler` models one at a time.
* The plain purge `PurgeScansOlderThan` is an action of `EvidenceRetention`, but it
  ignores legal holds and no property covers it; only tests call it, as they do the
  lifecycle purge and the holds.
* Plugin governance lists, the hot-reload watcher and the sandbox: nothing outside
  tests calls them. Attack paths (`CorrelationEngine.Correlate`): the same.
* The PostgreSQL variants of retention and encryption, saved queries, GraphQL, the
  framing of WebSocket messages, the NVD feed and its version ranges.

Disagreements between code and documents that no run shows; the models have the first four,
whose properties are stated so as to hold:

* `README.md:124` calls the role `viewer` read-only; `rbacMiddleware` (`server.go:346`) stops its
  POST and DELETE, and `handlePauseScan` and `handleResumeScan` (`server.go:761`, `780`) take any
  method, so a viewer pauses and resumes scans with GET. `RolesEnforced` excepts these.
  `README.md:135` has every state-changing request recorded; those are not, nor is a
  request whose insert fails (`server.go:544`).
* `docs/capabilities.md:17` calls installation atomic; a spliced `current` (`marketplace.go:235`,
  `283`) names no directory, and `LoadInstalled` fails until the next installation.
* `docs/marketplace_governance.md:23` has signatures verified before any plugin code is executed; a
  script edited after `LoadInstalled` runs, and its findings are labelled as those of a
  signed plugin (`lua_runner.go:98`, `109`). The watcher's `LoadPlugins` loads unsigned
  manifests in place of the installed ones.
* `README.md:327` says that scaling never exceeds the concurrency ceiling; `recordModuleLatency`
  compares under `workerMu` and spawns after releasing it (`scheduler.go:290`), so two workers
  fill one gap twice.
* A failed status lookup (`scheduler.go:206`) makes a worker drop its event silently and
  return, and the scan still completes; `docs/architecture.md:20` says that it completes
  only when queued work finishes.
* After cancellation all workers return while events are counted
  (`scheduler.go:186`), and `Run` waits for ever; `todo.md:50` has cancellation as done.
* `ExecuteFencedMutation` checks the fence and mutates in two statements
  (`ha_coordinator.go:148`); a takeover fits between them, which the comment at line
  137 excludes.
* `README.md:103-105` says that encryption fails closed; commands that do not migrate
  (`main.go:316-325`, `442-476`, `1015`, `sqlite_cli.go:83-92`) write without asking the
  verifier. The model has them (`db.unchecked`).
* `docs/data_lifecycle.md:34` against the plain purge (`backup_retention.go:95-126`),
  which does not look at holds.
* `README.md:423` says priorities use KEV and EPSS of the feeds; `Prioritize` never reads
  the imported CVE table.
* `docs/cli.md:44` calls risk scores deterministic; a `correlation_edge` row and the
  first `risk_assessment` of an asset stay for ever, so the stored score depends on
  the order of the commands.

Smaller observations, made while modelling and covered by no property:

* `priorityFor` names the type `target` while targets are `target.discovered`, so
  they wait in the low queue; `persistRuntime` can write an older copy last.
* Failed module runs are never deleted, so a scan that failed once is never
  reported healthy again.
* Lease times are compared as RFC3339Nano text, which drops trailing zeros; an
  agent never renews its lease, so a scan longer than the lease cannot complete.
* A heartbeat sets a drained agent online again.
* A URL's checkpoint has no depth, so a page first handled at the maximum depth is
  never expanded; a failed page request counts as completed and uses up a page of
  its host's budget.
* `VHostDiscovery` builds its candidates from the fixed domain example.com; only
  `IPv6Discovery` consumes discovered names, so those with IPv4 addresses alone are
  never scanned; `circl_cve` is never asked, because service names are `cpe:/` names
  and it needs `cpe:2.3`.
* `expandCIDR` walks a large block with a narrow scope address by address without
  looking at the context; retries of a provider request are not spaced.
* A statement of a timed-out renewal may still be executed later by the database
  (`postgres_ha.go:67`); more than 1024 stored events of one priority block the engine
  before it has workers (`engine.go:152`); the dedup set forgets its oldest key at
  100000 (`deduper.go:51`); `stopCh` is made once, so a coordinator cannot be started
  twice (`ha_coordinator.go:93`).
* The wizard's preview shows fewer modules than the loaded file enables
  (`engagement.go:94`); a custom profile without a known module enables all families; a
  requested profile whose concurrency is below `min_concurrency` is dispatched and then
  fails in the engine.
* A scan identifier that is dispatched twice, by a client or within one second
  (`server.go:676-679`), mixes two runs in the stream; the suffixes of organizations with
  one name have a resolution of one second too. The dashboard's snapshot is six separate
  queries. The identity manager's sessions are not what `authMiddleware` checks.
* `LoadInstalled` twice appends a plugin twice; `Install` of a version that exists does
  not compare its content; a slow update can set `current` back; verifying the
  active stage again marks it as verified only.
* `analyze-vulnerabilities` twice stores rule findings twice, which raises the business
  impact; an NVD import is not one transaction; a filtered knowledge graph keeps
  edges without their ends; imported severities may be any word.

## 6. Plan

1. A composition in which `Scheduler`'s emission table is what `ModulePipeline`'s
   modules emit.
2. `RecurringScans`: overlapping runs of a task and a stop during a run.
3. The late statement of a timed-out renewal in `HACoordinator`, once the code has an
   answer to it.
