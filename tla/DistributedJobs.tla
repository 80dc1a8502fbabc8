-------------------------- MODULE DistributedJobs --------------------------
(***************************************************************************)
(* Distributed scan jobs: the distributed_agents and distributed_scan_jobs *)
(* tables (internal/store/distributed_jobs.go, distributed_agents.go and   *)
(* postgres_distributed.go), the agent endpoints of internal/api/server.go *)
(* and the distributed-agent command (cmd/enumscan/main.go) that           *)
(* heartbeats, leases one job, runs it, submits evidence and completes.    *)
(*                                                                         *)
(* Every store operation is one transaction.  An agent process may die     *)
(* between any two of them, or lose the answer of one (it then exits with  *)
(* log.Fatal, which is the same thing); it never renews its lease.         *)
(* Lease times are kept as what is left of them, and Elapse moves them.    *)
(*                                                                         *)
(* scan_runs is keyed by scan_id, and several jobs may carry the same one: *)
(* each job's evidence and completion, the operator's pause and resume and *)
(* the coordinator's own engine all write the one status.                  *)
(***************************************************************************)
EXTENDS Integers, FiniteSets, FiniteSetsExt

CONSTANTS Agents,
          Scans,           \* scan_ids
          NoAgent,         \* lease_owner ''
          NumJobs,         \* bound: jobs ever enqueued
          LeaseTime,       \* lease duration asked for by an agent
          HeartbeatLimit,  \* how old a heartbeat may be (five minutes)
          MaxAttempts,     \* bound: leases per job
          MaxOps           \* bound: operator actions

Jobs == 1..NumJobs         \* numbered in the order of created_at, id

ASSUME JobsAssumption == /\ Scans # {}
                         /\ NoAgent \notin Agents
                         /\ NumJobs \in Nat /\ MaxAttempts \in Nat
                         /\ LeaseTime \in Nat \ {0}
                         /\ HeartbeatLimit \in Nat
                         /\ MaxOps \in Nat

VARIABLES
    job,       \* distributed_scan_jobs: [status, scan, owner, left, attempts]
    agent,     \* distributed_agents: [status, age of last_heartbeat]
    scan,      \* scan_runs.status at the coordinator, by scan_id
    own,       \* history: scan_ids the coordinator's own engine has run
    evidence,  \* evidence[j][a]: envelopes of agent a stored for job j
    step,        \* where each agent process is
    at,        \* the job it leased
    hold,      \* what is left of that lease, as the agent was told
    ops,       \* operator actions so far
    revoked    \* history: an operator action ended a lease early

jobsVars == <<job, agent, scan, own, evidence, step, at, hold, ops, revoked>>

JobStatus == {"none", "queued", "leased", "completed", "failed"}

ScanStatus == {"none", "running", "paused", "completed", "failed"}

NewJob == [status |-> "none", scan |-> CHOOSE x \in Scans : TRUE,
           owner |-> NoAgent, left |-> 0, attempts |-> 0]

JobsInit ==
    /\ job = [j \in Jobs |-> NewJob]
    /\ agent = [a \in Agents |-> [status |-> "none", age |-> 0]]
    /\ scan = [x \in Scans |-> "none"]
    /\ own = {}
    /\ evidence = [j \in Jobs |-> [a \in Agents |-> 0]]
    /\ step = [a \in Agents |-> "off"]
    /\ at = [a \in Agents |-> 0]
    /\ hold = [a \in Agents |-> 0]
    /\ ops = 0
    /\ revoked = FALSE

Goto(a, l) == step' = [step EXCEPT ![a] = l]

-----------------------------------------------------------------------------
(* The coordinator's store.                                                *)

RegisterDistributedAgent(a) ==
    /\ agent' = [agent EXCEPT ![a] = [status |-> "enrolled", age |-> 0]]
    /\ UNCHANGED <<job, scan, own, evidence, step, at, hold, ops, revoked>>

EnqueueDistributedScanJob ==
    /\ \E j \in Jobs :
          /\ job[j].status = "none"
          /\ \A i \in Jobs : i < j => job[i].status # "none"
          /\ \E x \in Scans :
                job' = [job EXCEPT ![j] = [@ EXCEPT !.status = "queued", !.scan = x]]
    /\ UNCHANGED <<agent, scan, own, evidence, step, at, hold, ops, revoked>>

\* The condition of a lease-owner operation on job j.
HoldsAnyLease(a, j) == job[j].status = "leased" /\ job[j].left > 0
HoldsLease(a, j) == /\ job[j].status = "leased"
                    /\ job[j].owner = a
                    /\ job[j].left > 0

\* A job that may be handed out: queued, or leased and expired.
EligibleEarly(j) == \/ job[j].status = "queued"
                    \/ job[j].status = "leased" /\ job[j].left <= 1
Eligible(j) == \/ job[j].status = "queued"
               \/ job[j].status = "leased" /\ job[j].left <= 0

CanLease(a) == agent[a].status = "online" /\ agent[a].age <= HeartbeatLimit

-----------------------------------------------------------------------------
(* The agent process.                                                      *)

\* Its heartbeat also brings a draining or re-enrolled agent online.
Heartbeat(a) ==
    /\ step[a] = "off"
    /\ agent[a].status # "none"
    /\ agent' = [agent EXCEPT ![a] = [status |-> "online", age |-> 0]]
    /\ Goto(a, "lease")
    /\ UNCHANGED <<job, scan, own, evidence, at, hold, ops, revoked>>

\* The row of a job handed to an agent.
Leased(a, j) == [status |-> "leased", scan |-> job[j].scan, owner |-> a,
                 left |-> LeaseTime, attempts |-> job[j].attempts + 1]

\* LeaseDistributedScanJob: the oldest eligible job.
Lease(a) ==
    /\ step[a] = "lease"
    /\ IF CanLease(a) /\ \E j \in Jobs : Eligible(j)
       THEN LET j == Min({i \in Jobs : Eligible(i)}) IN
            /\ job[j].attempts < MaxAttempts
            /\ job' = [job EXCEPT ![j] = Leased(a, j)]
            /\ at' = [at EXCEPT ![a] = j]
            /\ hold' = [hold EXCEPT ![a] = LeaseTime]
            /\ Goto(a, "run")
       ELSE Goto(a, "off") /\ UNCHANGED <<job, at, hold>>
    /\ UNCHANGED <<agent, scan, own, evidence, ops, revoked>>

\* engine.Run on the agent's own database; a digest or authorization
\* mismatch is the same failure.
RunScan(a) ==
    /\ step[a] = "run"
    /\ \E l \in {"submit", "abort"} : Goto(a, l)
    /\ UNCHANGED <<job, agent, scan, own, evidence, at, hold, ops, revoked>>

\* IngestDistributedEvidence: assets, findings and events in one transaction,
\* and the scan is "running" at the coordinator, whatever it was.  A rejection
\* is fatal.
SubmitEvidence(a) ==
    /\ step[a] = "submit"
    /\ LET j == at[a] IN
       IF HoldsLease(a, j)
       THEN /\ evidence' = [evidence EXCEPT ![j][a] = @ + 1]
            /\ scan' = [scan EXCEPT ![job[j].scan] = "running"]
            /\ Goto(a, "complete")
       ELSE Goto(a, "off") /\ UNCHANGED <<evidence, scan>>
    /\ UNCHANGED <<job, agent, own, at, hold, ops, revoked>>

\* CompleteDistributedScanJob "completed" after evidence, "failed" after a
\* failed run; the process ends either way.
Complete(a) ==
    /\ step[a] \in {"complete", "abort"}
    /\ LET j  == at[a]
           st == IF step[a] = "complete" THEN "completed" ELSE "failed" IN
       IF HoldsLease(a, j)
       THEN /\ job' = [job EXCEPT ![j].status = st]
            /\ scan' = [scan EXCEPT ![job[j].scan] = st]
       ELSE UNCHANGED <<job, scan>>
    /\ Goto(a, "off")
    /\ UNCHANGED <<agent, own, evidence, at, hold, ops, revoked>>

\* The process dies, or exits because an answer did not arrive.
Die(a) ==
    /\ step[a] # "off"
    /\ Goto(a, "off")
    /\ UNCHANGED <<job, agent, scan, own, evidence, at, hold, ops, revoked>>

-----------------------------------------------------------------------------
(* The operator, at a PostgreSQL coordinator.                              *)

Operate == /\ ops < MaxOps
           /\ ops' = ops + 1

Revoke == Operate /\ revoked' = TRUE

Released(j) == [status |-> "queued", scan |-> job[j].scan, owner |-> NoAgent,
                left |-> 0, attempts |-> job[j].attempts]

\* FencedCancelDistributedScanJob, once past the fence (see HACoordinator).
CancelJob(j) ==
    /\ Revoke
    /\ job[j].status \in {"queued", "leased"}
    /\ job' = [job EXCEPT ![j].status = "failed"]
    /\ UNCHANGED <<agent, scan, own, evidence, step, at, hold>>

RequeueableAny(j) == job[j].status \in {"leased", "failed", "completed"}
Requeueable(j)    == job[j].status \in {"leased", "failed"}

RequeueDistributedScanJob(j) ==
    /\ Revoke
    /\ Requeueable(j)
    /\ job' = [job EXCEPT ![j] = Released(j)]
    /\ UNCHANGED <<agent, scan, own, evidence, step, at, hold>>

ResetStuckJobs ==
    /\ Revoke
    /\ LET stuck == {j \in Jobs : job[j].status = "leased" /\ job[j].left < 0} IN
       /\ stuck # {}
       /\ job' = [j \in Jobs |-> IF j \in stuck THEN Released(j) ELSE job[j]]
    /\ UNCHANGED <<agent, scan, own, evidence, step, at, hold>>

DrainDistributedAgent(a) ==
    /\ Revoke
    /\ agent[a].status # "none"
    /\ agent' = [agent EXCEPT ![a].status = "draining"]
    /\ job' = [j \in Jobs |-> IF job[j].status = "leased" /\ job[j].owner = a
                              THEN Released(j) ELSE job[j]]
    /\ UNCHANGED <<scan, own, evidence, step, at, hold>>

-----------------------------------------------------------------------------
(* The other writers of scan_runs.                                         *)

\* UpdateScanStatus of handlePauseScan and handleResumeScan, for any scan_id.
UpdateScanStatus(x) ==
    /\ Operate
    /\ \E st \in {"paused", "running"} : scan' = [scan EXCEPT ![x] = st]
    /\ UNCHANGED <<job, agent, own, evidence, step, at, hold, revoked>>

\* The coordinator's own Engine.Run under the same scan_id: StartScan, and
\* FinishScan as it ends (see Scheduler).
OwnRun(x) ==
    /\ Operate
    /\ \E st \in {"running", "completed", "failed"} : scan' = [scan EXCEPT ![x] = st]
    /\ own' = own \cup {x}
    /\ UNCHANGED <<job, agent, evidence, step, at, hold, revoked>>

-----------------------------------------------------------------------------
\* Time passes; one tick past an expiry, or past the heartbeat limit, is as
\* good as many.
Elapse ==
    /\ job' = [j \in Jobs |->
                 IF job[j].status = "leased" /\ job[j].left >= 0
                 THEN [job[j] EXCEPT !.left = @ - 1] ELSE job[j]]
    /\ hold' = [a \in Agents |-> IF hold[a] > 0 THEN hold[a] - 1 ELSE 0]
    /\ agent' = [a \in Agents |-> IF agent[a].age <= HeartbeatLimit
                                  THEN [agent[a] EXCEPT !.age = @ + 1]
                                  ELSE agent[a]]
    /\ UNCHANGED <<scan, own, evidence, step, at, ops, revoked>>

AgentStep(a) == \/ Heartbeat(a) \/ Lease(a) \/ RunScan(a)
                \/ SubmitEvidence(a) \/ Complete(a)

JobsNext == \/ EnqueueDistributedScanJob \/ ResetStuckJobs \/ Elapse
        \/ \E a \in Agents : \/ RegisterDistributedAgent(a) \/ AgentStep(a)
                             \/ Die(a) \/ DrainDistributedAgent(a)
        \/ \E j \in Jobs : CancelJob(j) \/ RequeueDistributedScanJob(j)
        \/ \E x \in Scans : UpdateScanStatus(x) \/ OwnRun(x)

JobsSpec == JobsInit /\ [][JobsNext]_jobsVars

-----------------------------------------------------------------------------
\* Every variable has its type.
JobsTypeOK ==
    /\ job \in [Jobs -> [status : JobStatus, scan : Scans,
                         owner : Agents \cup {NoAgent}, left : -1..LeaseTime,
                         attempts : 0..MaxAttempts]]
    /\ agent \in [Agents -> [status : {"none", "enrolled", "online", "draining"},
                             age : 0..(HeartbeatLimit + 1)]]
    /\ scan \in [Scans -> ScanStatus]
    /\ own \subseteq Scans
    /\ evidence \in [Jobs -> [Agents -> Nat]]
    /\ step \in [Agents -> {"off", "lease", "run", "submit", "complete", "abort"}]
    /\ at \in [Agents -> 0..NumJobs]
    /\ hold \in [Agents -> 0..LeaseTime]
    /\ ops \in 0..MaxOps
    /\ revoked \in BOOLEAN

\* An agent that is working on a job it was given, and knows of no expiry.
WorksOn(a, j) == /\ step[a] \in {"run", "submit", "complete", "abort"}
                 /\ at[a] = j
                 /\ hold[a] > 0

\* No two agents work on the same job inside their leases: a job is handed
\* out again only after the time its first agent was told.  (The operator's
\* requeue, cancel and drain revoke a lease without telling the agent.)
OneWorker ==
    ~revoked =>
        \A a, b \in Agents, j \in Jobs : WorksOn(a, j) /\ WorksOn(b, j) => a = b

\* A job is completed only with the evidence of its last agent, and a scan
\* that nobody else ran only by a completed job.
JobsVouched ==
    \A j \in Jobs : job[j].status = "completed" =>
        job[j].owner \in Agents /\ evidence[j][job[j].owner] > 0

ScansVouched ==
    \A x \in Scans : scan[x] = "completed" /\ x \notin own =>
        \E j \in Jobs : job[j].scan = x /\ job[j].status = "completed"

\* "completed" is never an empty claim: the coordinator's store holds evidence
\* of the agent that completed the job, however often the job was leased,
\* requeued, cancelled or taken over before; and a scan that distributed jobs
\* share is "completed" only if one of them is, whatever the others and the
\* operator wrote to it.
CompletedHasEvidence == JobsVouched /\ ScansVouched

\* A completed job is final: no late agent, expiry, operator action or other
\* job of the same scan changes the job or its evidence any more.  (The scan's
\* status is not: evidence of another job, pause and resume overwrite it.)
CompletedIsFinal ==
    [][\A j \in Jobs : job[j].status = "completed" =>
          /\ job'[j].status = job[j].status /\ job'[j].owner = job[j].owner
          /\ job'[j].scan = job[j].scan
          /\ evidence'[j] = evidence[j]]_jobsVars
=============================================================================
