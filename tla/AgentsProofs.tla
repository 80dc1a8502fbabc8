---------------------------- MODULE AgentsProofs ----------------------------
(***************************************************************************)
(* Remote agents: NoReplay for every number of nonces and handlers, and    *)
(* every window, retention and delay with 2 * Window + MaxDelay <=         *)
(* Retention; leases and completion of distributed jobs for every number   *)
(* of agents and jobs, every lease duration and every number of operator   *)
(* actions.                                                                *)
(***************************************************************************)
EXTENDS AgentAuth, DistributedJobs, WellFoundedInduction, TLAPS

\* The initial state, before any agent request is signed, satisfies ReplayInv.
LEMMA InitReplayInv == Init => ReplayInv
  BY AuthAssumption
  DEF Init, ReplayInv, TypeOK, HandlerInTime, Remembered, NoReplay

\* Signing, checking a timestamp, consuming a nonce and waiting keep it.
LEMMA NextReplayInv == ReplayInv /\ [Next]_vars => ReplayInv'
<1> SUFFICES ASSUME ReplayInv, [Next]_vars PROVE ReplayInv'
  OBVIOUS
<1> USE AuthAssumption DEF ReplayInv
<1>1. ASSUME NEW x \in Nonces, Sign(x) PROVE ReplayInv'
  <2>1. TypeOK'
    BY <1>1 DEF Sign, TypeOK
  <2>2. signed[x] = -1 /\ accepted[x] = 0
    BY <1>1 DEF Sign, TypeOK, Remembered
  <2>3. \A h \in Handlers : pc[h] = "consume" => req[h] # x
    BY <2>2 DEF HandlerInTime
  <2>4. \A y \in Nonces : y # x => signed'[y] = signed[y]
    BY <1>1 DEF Sign, TypeOK
  <2>5. HandlerInTime'
    BY <1>1, <2>3, <2>4 DEF Sign, HandlerInTime, TypeOK
  <2>6. Remembered'
    BY <1>1, <2>2, <2>4 DEF Sign, Remembered, TypeOK
  <2>7. NoReplay'
    BY <1>1 DEF Sign, NoReplay
  <2> QED BY <2>1, <2>5, <2>6, <2>7
<1>2. ASSUME NEW x \in Nonces, NEW h \in Handlers, CheckTimestamp(h, x)
      PROVE ReplayInv'
  <2>1. TypeOK'
    BY <1>2 DEF CheckTimestamp, TypeOK
  <2>2. HandlerInTime'
    BY <1>2 DEF CheckTimestamp, HandlerInTime, TypeOK
  <2>3. Remembered' /\ NoReplay'
    BY <1>2 DEF CheckTimestamp, Remembered, NoReplay
  <2> QED BY <2>1, <2>2, <2>3
<1>3. ASSUME NEW h \in Handlers, ConsumeNonce(h) PROVE ReplayInv'
  <2>1. CASE Duplicate(h)
    <3>1. TypeOK'
      BY <1>3, <2>1 DEF ConsumeNonce, TypeOK
    <3>2. HandlerInTime'
      BY <1>3, <2>1 DEF ConsumeNonce, HandlerInTime, TypeOK
    <3>3. Remembered' /\ NoReplay'
      BY <1>3, <2>1 DEF ConsumeNonce, Remembered, NoReplay
    <3> QED BY <3>1, <3>2, <3>3
  <2>2. CASE ~Duplicate(h)
    <3> DEFINE x == req[h]
    <3>1. x \in Nonces /\ clock \in Nat /\ signed[x] \in Int
      BY DEF TypeOK
    \* The request is still in its window and delay...
    <3>2. clock <= signed[x] + Window + MaxDelay /\ clock >= signed[x] - Window
          /\ signed[x] >= 0
      BY <1>3, <3>1 DEF ConsumeNonce, HandlerInTime, TypeOK
    \* ... so a row for it could not have been deleted: there was none.
    <3>3. accepted[x] = 0
      <4> SUFFICES ASSUME accepted[x] > 0 PROVE FALSE
        BY <3>1 DEF TypeOK
      <4>1. PICK u \in used : u.nonce = x /\ u.at >= signed[x] - Window
        BY <3>1, <3>2 DEF Remembered
      <4>2. u.at \in Nat
        BY DEF TypeOK
      <4>3. u.at >= clock - Retention
        BY <3>1, <3>2, <4>1, <4>2, RetentionAssumption
      <4> QED BY <2>2, <4>1, <4>3 DEF Kept, Duplicate
    <3>4. /\ used' = Kept \cup {[nonce |-> x, at |-> clock]}
          /\ accepted' = [accepted EXCEPT ![x] = @ + 1]
          /\ UNCHANGED <<clock, signed, req, since>>
          /\ pc' = [pc EXCEPT ![h] = "idle"]
      BY <1>3, <2>2 DEF ConsumeNonce
    <3>5. TypeOK'
      BY <3>1, <3>4 DEF TypeOK, Kept
    <3>6. HandlerInTime'
      BY <3>4 DEF HandlerInTime, TypeOK
    <3>7. Remembered'
      <4> SUFFICES ASSUME NEW y \in Nonces, accepted'[y] > 0
                   PROVE  /\ signed[y] >= 0
                          /\ \/ clock > signed[y] + Window + MaxDelay
                             \/ \E u \in used' : /\ u.nonce = y
                                                 /\ u.at >= signed[y] - Window
        BY <3>4 DEF Remembered
      <4>1. CASE y = x
        <5> DEFINE r == [nonce |-> x, at |-> clock]
        <5>1. r \in used' /\ r.nonce = x /\ r.at = clock
          BY <3>4
        <5>2. r.at >= signed[x] - Window
          BY <3>1, <3>2, <5>1
        <5> HIDE DEF r, x
        <5> QED BY <3>2, <4>1, <5>1, <5>2
      <4>2. CASE y # x
        <5>1. accepted[y] > 0
          BY <3>4, <4>2 DEF TypeOK
        <5>2. CASE clock > signed[y] + Window + MaxDelay
          BY <5>1, <5>2 DEF Remembered
        <5>3. CASE ~(clock > signed[y] + Window + MaxDelay)
          <6>1. PICK u \in used : u.nonce = y /\ u.at >= signed[y] - Window
            BY <5>1, <5>3 DEF Remembered
          <6>2. u.at \in Nat /\ signed[y] \in Int /\ signed[y] >= 0
            BY <5>1 DEF TypeOK, Remembered
          <6>3. u.at >= clock - Retention
            BY <3>1, <5>3, <6>1, <6>2, RetentionAssumption
          <6>4. u \in used'
            BY <3>4, <6>3 DEF Kept
          <6> QED BY <6>1, <6>2, <6>4
        <5> QED BY <5>2, <5>3
      <4> QED BY <4>1, <4>2
    <3>8. NoReplay'
      BY <3>1, <3>3, <3>4 DEF NoReplay, TypeOK
    <3> QED BY <3>5, <3>6, <3>7, <3>8
  <2> QED BY <2>1, <2>2
<1>4. ASSUME Tick PROVE ReplayInv'
  <2>1. TypeOK'
    BY <1>4 DEF Tick, TypeOK
  <2>2. HandlerInTime'
    BY <1>4 DEF Tick, HandlerInTime, TypeOK
  <2>3. Remembered'
    BY <1>4 DEF Tick, Remembered, TypeOK
  <2>4. NoReplay'
    BY <1>4 DEF Tick, NoReplay
  <2> QED BY <2>1, <2>2, <2>3, <2>4
<1>5. ASSUME UNCHANGED vars PROVE ReplayInv'
  BY <1>5 DEF vars, TypeOK, HandlerInTime, Remembered, NoReplay
<1> QED
  BY <1>1, <1>2, <1>3, <1>4, <1>5 DEF Next, AtEnd

\* AuthenticateDistributedAgent lets no signed request through twice, for
\* every window, retention and delay the retention covers.
THEOREM NoReplayTheorem == Spec => []NoReplay
<1>1. ReplayInv => NoReplay
  BY DEF ReplayInv
<1> QED
  BY InitReplayInv, NextReplayInv, <1>1, PTL DEF Spec

\* The nonce of an accepted request stays in agent_request_nonces until no copy
\* of the request can pass the timestamp check, for every window and retention.
THEOREM RememberedTheorem == Spec => []Remembered
<1>1. ReplayInv => Remembered
  BY DEF ReplayInv
<1> QED
  BY InitReplayInv, NextReplayInv, <1>1, PTL DEF Spec

-----------------------------------------------------------------------------
Working == {"run", "submit", "complete", "abort"}

\* A working agent has been given a job of the table.
AtJob == \A a \in Agents : step[a] \in Working => at[a] \in Jobs

\* As long as no operator action ended a lease, an agent inside the lease it was told of has that
\* lease in the table, with at least as much time left.
LeaseKnown ==
  ~revoked =>
    \A a \in Agents, j \in Jobs : WorksOn(a, j) =>
      job[j].status = "leased" /\ job[j].owner = a /\ hold[a] <= job[j].left

\* An agent about to report completion has evidence in the store.
EvidenceFirst == \A a \in Agents : step[a] = "complete" => evidence[at[a]][a] > 0

\* The inductive invariant.
JobsInv == JobsTypeOK /\ AtJob /\ LeaseKnown /\ EvidenceFirst /\ JobsVouched

JobRow == [status : JobStatus, scan : Scans, owner : Agents \cup {NoAgent},
           left : -1..LeaseTime, attempts : 0..MaxAttempts]

\* The least element of a non-empty set of jobs is one of them.
LEMMA LeastJob == ASSUME NEW S \in SUBSET Jobs, S # {} PROVE Min(S) \in S
<1>1. S \subseteq Nat
  BY JobsAssumption DEF Jobs
<1> DEFINE R == OpToRel(<, Nat)
<1>2. IsWellFoundedOn(R, Nat)
  BY NatLessThanWellFounded
<1>3. \A x, y \in S : x < y => <<x, y>> \in R
  BY <1>1 DEF OpToRel
<1> HIDE DEF R
<1>4. \E x \in S : \A y \in S : ~(<<y, x>> \in R)
  BY <1>1, <1>2, WFMin
<1>5. PICK x \in S : \A y \in S : ~(<<y, x>> \in R)
  BY <1>4
<1>6. \A y \in S : x <= y
  <2> TAKE y \in S
  <2>1. ~(<<y, x>> \in R)
    BY <1>5
  <2>2. ~(y < x)
    BY <1>3, <2>1
  <2>3. x \in Nat /\ y \in Nat
    BY <1>1
  <2> QED BY <2>2, <2>3
<1> QED
  BY <1>6 DEF Min

\* No job and no agent at the start.
LEMMA InitJobsInv == JobsInit => JobsInv
<1> SUFFICES ASSUME JobsInit PROVE JobsInv
  OBVIOUS
<1>1. (CHOOSE x \in Scans : TRUE) \in Scans
  BY JobsAssumption
<1>2. NewJob \in JobRow /\ NewJob.status = "none"
  BY <1>1, JobsAssumption DEF NewJob, JobRow, JobStatus
<1>3. job \in [Jobs -> JobRow] /\ \A j \in Jobs : job[j].status = "none"
  BY <1>2 DEF JobsInit
<1>4. revoked \in BOOLEAN
  BY Zenon DEF JobsInit
<1>5. JobsTypeOK
  BY <1>3, <1>4, JobsAssumption DEF JobsInit, JobsTypeOK, JobRow, ScanStatus
<1>6. AtJob /\ EvidenceFirst /\ LeaseKnown
  BY DEF JobsInit, AtJob, Working, EvidenceFirst, LeaseKnown, WorksOn
<1>7. JobsVouched
  BY <1>3 DEF JobsVouched
<1> QED BY <1>5, <1>6, <1>7 DEF JobsInv

\* Every operation of the store, of the agents and of the operator keeps it.
LEMMA NextJobsInv == JobsInv /\ [JobsNext]_jobsVars => JobsInv'
<1> SUFFICES ASSUME JobsInv, [JobsNext]_jobsVars PROVE JobsInv'
  OBVIOUS
<1> USE DEF JobsInv
<1>t. /\ job \in [Jobs -> JobRow] /\ step \in [Agents -> {"off", "lease"} \cup Working]
      /\ at \in [Agents -> 0..NumJobs] /\ hold \in [Agents -> 0..LeaseTime]
      /\ evidence \in [Jobs -> [Agents -> Nat]] /\ ops \in Nat
  BY DEF JobsTypeOK, JobRow, Working
<1>1. CASE EnqueueDistributedScanJob
  <2>1. PICK j \in Jobs, x \in Scans :
          /\ job[j].status = "none"
          /\ job' = [job EXCEPT ![j] = [@ EXCEPT !.status = "queued", !.scan = x]]
    BY <1>1 DEF EnqueueDistributedScanJob
  <2>2. UNCHANGED <<agent, scan, own, evidence, step, at, hold, ops, revoked>>
    BY <1>1 DEF EnqueueDistributedScanJob
  <2>t. "queued" \in JobStatus
    BY DEF JobStatus
  <2>u. job' \in [Jobs -> JobRow]
    BY <1>t, <2>1, <2>t DEF JobRow
  <2>3. JobsTypeOK'
    BY <2>u, <2>2 DEF JobsTypeOK, JobRow
  <2>4. AtJob' /\ EvidenceFirst'
    BY <2>2 DEF AtJob, EvidenceFirst
  <2>5. LeaseKnown'
    BY <2>1, <2>2, <1>t DEF LeaseKnown, WorksOn, JobRow
  <2>6. JobsVouched'
    BY <2>1, <2>2, <1>t DEF JobsVouched, JobRow
  <2> QED BY <2>3, <2>4, <2>5, <2>6
<1>2. CASE ResetStuckJobs
  <2> DEFINE stuck == {j \in Jobs : job[j].status = "leased" /\ job[j].left < 0}
  <2>1. /\ job' = [j \in Jobs |-> IF j \in stuck THEN Released(j) ELSE job[j]]
        /\ ops' = ops + 1 /\ ops < MaxOps /\ revoked'
        /\ UNCHANGED <<agent, scan, own, evidence, step, at, hold>>
    BY <1>2 DEF ResetStuckJobs, Revoke, Operate
  <2>2. \A j \in Jobs : job'[j] = job[j] \/ (job'[j] = Released(j) /\ job[j].status = "leased")
    BY <2>1
  <2>3. \A j \in Jobs : Released(j) \in JobRow /\ Released(j).status = "queued"
    BY <1>t, JobsAssumption DEF Released, JobRow, JobStatus
  <2>4. job' \in [Jobs -> JobRow]
    BY <2>1, <2>3, <1>t
  <2>r. revoked' \in BOOLEAN /\ ops' \in 0..MaxOps
    <3>1. revoked' = TRUE
      BY <1>2 DEF ResetStuckJobs, Revoke
    <3>2. ops \in 0..MaxOps
      BY DEF JobsTypeOK
    <3>3. ops' \in 0..MaxOps
      BY <2>1, <3>2, JobsAssumption
    <3> QED BY <3>1, <3>3
  <2>5. JobsTypeOK'
    BY <2>1, <2>4, <2>r DEF JobsTypeOK, JobRow
  <2>6. AtJob' /\ EvidenceFirst'
    BY <2>1 DEF AtJob, EvidenceFirst
  <2>7. LeaseKnown'
    BY <2>1, <1>t DEF LeaseKnown
  <2>8. JobsVouched'
    BY <2>1, <2>2, <2>3 DEF JobsVouched
  <2> QED BY <2>5, <2>6, <2>7, <2>8
<1>3. CASE Elapse
  <2>1. /\ job' = [j \in Jobs |-> IF job[j].status = "leased" /\ job[j].left >= 0
                                   THEN [job[j] EXCEPT !.left = @ - 1] ELSE job[j]]
        /\ hold' = [a \in Agents |-> IF hold[a] > 0 THEN hold[a] - 1 ELSE 0]
        /\ UNCHANGED <<scan, own, evidence, step, at, ops, revoked>>
    BY <1>3 DEF Elapse
  <2>2. \A j \in Jobs : job'[j] \in JobRow
    <3> TAKE j \in Jobs
    <3>1. job[j] \in JobRow /\ job[j].left \in -1..LeaseTime
      BY <1>t DEF JobRow
    <3>2. job[j].left >= 0 => job[j].left - 1 \in -1..LeaseTime
      BY <3>1, JobsAssumption
    <3>3. job[j].left >= 0 => [job[j] EXCEPT !.left = @ - 1] \in JobRow
      BY <3>1, <3>2 DEF JobRow
    <3> QED BY <2>1, <3>1, <3>3
  <2>3. job' \in [Jobs -> JobRow]
    BY <2>1, <2>2
  <2>4. \A a \in Agents : hold'[a] \in 0..LeaseTime
    BY <2>1, <1>t, JobsAssumption
  <2>5. agent' \in [Agents -> [status : {"none", "enrolled", "online", "draining"},
                               age : 0..(HeartbeatLimit + 1)]]
    BY <1>3, JobsAssumption DEF Elapse, JobsTypeOK
  <2>6. JobsTypeOK'
    BY <2>1, <2>3, <2>4, <2>5 DEF JobsTypeOK, JobRow
  <2>7. AtJob' /\ EvidenceFirst'
    BY <2>1 DEF AtJob, EvidenceFirst
  <2>8. \A j \in Jobs : /\ job'[j].status = job[j].status /\ job'[j].owner = job[j].owner
                        /\ job[j].status = "leased" /\ job[j].left > 0 => job'[j].left = job[j].left - 1
    BY <2>1, <1>t, JobsAssumption DEF JobRow
  <2>9. LeaseKnown'
    <3> SUFFICES ASSUME ~revoked', NEW a \in Agents, NEW j \in Jobs, WorksOn(a, j)'
                 PROVE  /\ job'[j].status = "leased" /\ job'[j].owner = a
                        /\ hold'[a] <= job'[j].left
      BY DEF LeaseKnown
    <3>1. hold[a] > 0 /\ hold'[a] = hold[a] - 1 /\ ~revoked /\ WorksOn(a, j)
      BY <2>1, <1>t, JobsAssumption DEF WorksOn
    <3>2. job[j].status = "leased" /\ job[j].owner = a /\ hold[a] <= job[j].left
      BY <3>1 DEF LeaseKnown
    <3> QED BY <3>1, <3>2, <2>8, <1>t, JobsAssumption DEF JobRow
  <2>10. JobsVouched'
    BY <2>1, <2>8 DEF JobsVouched
  <2> QED BY <2>6, <2>7, <2>9, <2>10
<1>4. ASSUME NEW a \in Agents, RegisterDistributedAgent(a) PROVE JobsInv'
  BY <1>4, JobsAssumption DEF RegisterDistributedAgent, JobsTypeOK, AtJob, LeaseKnown, WorksOn, EvidenceFirst,
     JobsVouched
<1>5. ASSUME NEW a \in Agents, Heartbeat(a) PROVE JobsInv'
  <2>1. /\ step' = [step EXCEPT ![a] = "lease"] /\ step[a] = "off"
        /\ UNCHANGED <<job, scan, own, evidence, at, hold, ops, revoked>>
    BY <1>5 DEF Heartbeat, Goto
  <2>2. JobsTypeOK'
    BY <1>5, JobsAssumption DEF Heartbeat, Goto, JobsTypeOK
  <2>3. AtJob' /\ EvidenceFirst'
    BY <2>1, <1>t DEF AtJob, EvidenceFirst, Working
  <2>4. LeaseKnown'
    BY <2>1, <1>t DEF LeaseKnown, WorksOn
  <2>5. JobsVouched'
    BY <2>1 DEF JobsVouched
  <2> QED BY <2>2, <2>3, <2>4, <2>5
<1>6. ASSUME NEW a \in Agents, Lease(a) PROVE JobsInv'
  <2>0. UNCHANGED <<agent, scan, own, evidence, ops, revoked>> /\ step[a] = "lease"
    BY <1>6 DEF Lease
  <2>1. CASE CanLease(a) /\ \E j \in Jobs : Eligible(j)
    <3>1. PICK j \in Jobs : /\ Eligible(j) /\ job[j].attempts < MaxAttempts
                            /\ job' = [job EXCEPT ![j] = Leased(a, j)]
                            /\ at' = [at EXCEPT ![a] = j]
                            /\ hold' = [hold EXCEPT ![a] = LeaseTime]
                            /\ step' = [step EXCEPT ![a] = "run"]
      <4> DEFINE S == {i \in Jobs : Eligible(i)}
      <4>1. S \in SUBSET Jobs /\ S # {}
        BY <2>1
      <4> HIDE DEF S
      <4>2. Min(S) \in S
        BY <4>1, LeastJob
      <4> QED BY <1>6, <2>1, <4>2 DEF Lease, Goto, S
    <3>2. /\ Leased(a, j) \in JobRow
          /\ Leased(a, j).status = "leased" /\ Leased(a, j).owner = a /\ Leased(a, j).left = LeaseTime
      BY <3>1, <1>t, JobsAssumption DEF Leased, JobRow, JobStatus
    <3>3. /\ job' \in [Jobs -> JobRow] /\ job'[j] = Leased(a, j)
          /\ \A i \in Jobs : i # j => job'[i] = job[i]
      BY <3>1, <3>2, <1>t
    <3>a. /\ at' \in [Agents -> 0..NumJobs] /\ hold' \in [Agents -> 0..LeaseTime]
          /\ step' \in [Agents -> {"off", "lease", "run", "submit", "complete", "abort"}]
      BY <3>1, <1>t, JobsAssumption DEF Jobs, Working
    <3>4. JobsTypeOK'
      BY <2>0, <3>a, <3>3 DEF JobsTypeOK, JobRow
    <3>5. AtJob' /\ EvidenceFirst'
      BY <2>0, <3>1, <1>t DEF AtJob, EvidenceFirst
    <3>6. LeaseKnown'
      <4> SUFFICES ASSUME ~revoked', NEW b \in Agents, NEW i \in Jobs, WorksOn(b, i)'
                   PROVE  /\ job'[i].status = "leased" /\ job'[i].owner = b
                          /\ hold'[b] <= job'[i].left
        BY DEF LeaseKnown
      <4>1. CASE b = a
        <5>1. i = j /\ hold'[a] = LeaseTime
          BY <4>1, <3>1, <1>t DEF WorksOn
        <5> QED BY <4>1, <5>1, <3>2, <3>3, JobsAssumption
      <4>2. CASE b # a
        <5>1. WorksOn(b, i) /\ hold'[b] = hold[b] /\ ~revoked
          BY <4>2, <2>0, <3>1, <1>t DEF WorksOn
        <5>2. job[i].status = "leased" /\ job[i].owner = b /\ hold[b] <= job[i].left /\ hold[b] > 0
          BY <5>1 DEF LeaseKnown, WorksOn
        <5>3. i # j
          BY <5>2, <3>1, <1>t, JobsAssumption DEF Eligible, JobRow
        <5> QED BY <5>1, <5>2, <5>3, <3>3
      <4> QED BY <4>1, <4>2
    <3>7. JobsVouched'
      BY <2>0, <3>2, <3>3 DEF JobsVouched
    <3> QED BY <3>4, <3>5, <3>6, <3>7
  <2>2. CASE ~(CanLease(a) /\ \E j \in Jobs : Eligible(j))
    <3>1. step' = [step EXCEPT ![a] = "off"] /\ UNCHANGED <<job, at, hold>>
      BY <1>6, <2>2 DEF Lease, Goto
    <3>2. JobsTypeOK'
      BY <2>0, <3>1 DEF JobsTypeOK
    <3>3. AtJob' /\ EvidenceFirst'
      BY <2>0, <3>1, <1>t DEF AtJob, EvidenceFirst, Working
    <3>4. LeaseKnown'
      BY <2>0, <3>1, <1>t DEF LeaseKnown, WorksOn
    <3>5. JobsVouched'
      BY <2>0, <3>1 DEF JobsVouched
    <3> QED BY <3>2, <3>3, <3>4, <3>5
  <2> QED BY <2>1, <2>2
<1>7. ASSUME NEW a \in Agents, RunScan(a) PROVE JobsInv'
  <2>1. PICK l \in {"submit", "abort"} : step' = [step EXCEPT ![a] = l]
    BY <1>7 DEF RunScan, Goto
  <2>2. UNCHANGED <<job, agent, scan, own, evidence, at, hold, ops, revoked>> /\ step[a] = "run"
    BY <1>7 DEF RunScan
  <2>3. JobsTypeOK'
    BY <2>1, <2>2 DEF JobsTypeOK
  <2>4. AtJob' /\ EvidenceFirst'
    BY <2>1, <2>2, <1>t DEF AtJob, EvidenceFirst, Working
  <2>5. LeaseKnown'
    BY <2>1, <2>2, <1>t DEF LeaseKnown, WorksOn
  <2>6. JobsVouched'
    BY <2>2 DEF JobsVouched
  <2> QED BY <2>3, <2>4, <2>5, <2>6
<1>8. ASSUME NEW a \in Agents, SubmitEvidence(a) PROVE JobsInv'
  <2>0. /\ UNCHANGED <<job, agent, own, at, hold, ops, revoked>> /\ step[a] = "submit" /\ at[a] \in Jobs
    BY <1>8 DEF SubmitEvidence, AtJob, Working
  <2>1. CASE HoldsLease(a, at[a])
    <3>1. /\ evidence' = [evidence EXCEPT ![at[a]][a] = @ + 1]
          /\ scan' = [scan EXCEPT ![job[at[a]].scan] = "running"]
          /\ step' = [step EXCEPT ![a] = "complete"]
      BY <1>8, <2>1 DEF SubmitEvidence, Goto
    <3> DEFINE e == [evidence[at[a]] EXCEPT ![a] = @ + 1]
    <3>a. /\ e \in [Agents -> Nat] /\ e[a] > 0
          /\ \A b \in Agents : evidence[at[a]][b] \in Nat /\ e[b] >= evidence[at[a]][b]
      <4>1. evidence[at[a]] \in [Agents -> Nat]
        BY <2>0, <1>t
      <4>2. e \in [Agents -> Nat] /\ e[a] = evidence[at[a]][a] + 1
        BY <4>1
      <4>3. \A b \in Agents : b # a => e[b] = evidence[at[a]][b]
        BY <4>1
      <4>4. \A b \in Agents : evidence[at[a]][b] \in Nat
        BY <4>1
      <4> HIDE DEF e
      <4> QED BY <4>2, <4>3, <4>4
    <3>b. evidence' = [evidence EXCEPT ![at[a]] = e]
      BY <3>1
    <3> HIDE DEF e
    <3>c. /\ evidence' \in [Jobs -> [Agents -> Nat]] /\ evidence'[at[a]] = e
          /\ \A j \in Jobs : j # at[a] => evidence'[j] = evidence[j]
      BY <2>0, <3>a, <3>b, <1>t
    <3>d. \A j \in Jobs, b \in Agents : evidence[j][b] \in Nat
      BY <1>t
    <3>2. /\ evidence' \in [Jobs -> [Agents -> Nat]] /\ evidence'[at[a]][a] > 0
          /\ \A j \in Jobs, b \in Agents : evidence'[j][b] >= evidence[j][b]
      BY <3>a, <3>c, <3>d
    <3>3. JobsTypeOK'
      BY <2>0, <3>1, <3>2 DEF JobsTypeOK, ScanStatus
    <3>4. AtJob'
      BY <2>0, <3>1, <1>t DEF AtJob, Working
    <3>5. EvidenceFirst'
      <4> SUFFICES ASSUME NEW b \in Agents, step'[b] = "complete" PROVE evidence'[at[b]][b] > 0
        BY <2>0 DEF EvidenceFirst
      <4>1. CASE b = a
        BY <4>1, <3>2
      <4>2. CASE b # a
        <5>1. step[b] = "complete"
          BY <4>2, <3>1, <1>t
        <5>2. at[b] \in Jobs /\ evidence[at[b]][b] > 0
          BY <5>1 DEF AtJob, EvidenceFirst, Working
        <5> QED BY <5>2, <3>2, <1>t
      <4> QED BY <4>1, <4>2
    <3>6. LeaseKnown'
      BY <2>0, <3>1, <1>t DEF LeaseKnown, WorksOn
    <3>7. JobsVouched'
      <4> SUFFICES ASSUME NEW j \in Jobs, job[j].status = "completed"
                   PROVE  job[j].owner \in Agents /\ evidence'[j][job[j].owner] > 0
        BY <2>0 DEF JobsVouched
      <4>1. j # at[a]
        BY <2>1 DEF HoldsLease
      <4>2. job[j].owner \in Agents /\ evidence[j][job[j].owner] > 0
        BY DEF JobsVouched
      <4>3. evidence'[j] = evidence[j]
        BY <4>1, <3>1, <1>t
      <4> QED BY <4>2, <4>3
    <3> QED BY <3>3, <3>4, <3>5, <3>6, <3>7
  <2>2. CASE ~HoldsLease(a, at[a])
    <3>1. step' = [step EXCEPT ![a] = "off"] /\ UNCHANGED <<evidence, scan>>
      BY <1>8, <2>2 DEF SubmitEvidence, Goto
    <3>2. JobsTypeOK'
      BY <2>0, <3>1 DEF JobsTypeOK
    <3>3. AtJob' /\ EvidenceFirst'
      BY <2>0, <3>1, <1>t DEF AtJob, EvidenceFirst, Working
    <3>4. LeaseKnown'
      BY <2>0, <3>1, <1>t DEF LeaseKnown, WorksOn
    <3>5. JobsVouched'
      BY <2>0, <3>1 DEF JobsVouched
    <3> QED BY <3>2, <3>3, <3>4, <3>5
  <2> QED BY <2>1, <2>2
<1>9. ASSUME NEW a \in Agents, Complete(a) PROVE JobsInv'
  <2>0. /\ UNCHANGED <<agent, own, evidence, at, hold, ops, revoked>> /\ step' = [step EXCEPT ![a] = "off"]
        /\ step[a] \in {"complete", "abort"} /\ at[a] \in Jobs
    BY <1>9 DEF Complete, Goto, AtJob, Working
  <2>a. AtJob' /\ EvidenceFirst'
    BY <2>0, <1>t DEF AtJob, EvidenceFirst, Working
  <2> DEFINE st == IF step[a] = "complete" THEN "completed" ELSE "failed"
  <2>1. CASE HoldsLease(a, at[a])
    <3>1. job' = [job EXCEPT ![at[a]].status = st] /\ scan' = [scan EXCEPT ![job[at[a]].scan] = st]
      BY <1>9, <2>1 DEF Complete
    <3>a. /\ job' \in [Jobs -> JobRow]
          /\ scan' \in [Scans -> ScanStatus]
      <4>1. st \in {"completed", "failed"}
        OBVIOUS
      <4>2. scan \in [Scans -> ScanStatus]
        BY DEF JobsTypeOK
      <4> HIDE DEF st
      <4>3. scan' \in [Scans -> ScanStatus]
        BY <3>1, <4>1, <4>2 DEF ScanStatus
      <4>4. job' \in [Jobs -> JobRow]
        BY <2>0, <3>1, <4>1, <1>t DEF JobRow, JobStatus
      <4> QED BY <4>3, <4>4
    <3>b. step' \in [Agents -> {"off", "lease", "run", "submit", "complete", "abort"}]
      BY <2>0, <1>t DEF Working
    <3>2. JobsTypeOK'
      BY <2>0, <3>a, <3>b DEF JobsTypeOK, JobRow
    <3>3. /\ job'[at[a]].status = st /\ job'[at[a]].owner = job[at[a]].owner
          /\ \A j \in Jobs : j # at[a] => job'[j] = job[j]
      BY <2>0, <3>1, <1>t DEF JobRow, JobsTypeOK
    <3>4. LeaseKnown'
      <4> SUFFICES ASSUME ~revoked', NEW b \in Agents, NEW i \in Jobs, WorksOn(b, i)'
                   PROVE  /\ job'[i].status = "leased" /\ job'[i].owner = b
                          /\ hold'[b] <= job'[i].left
        BY DEF LeaseKnown
      <4>1. b # a /\ WorksOn(b, i) /\ ~revoked /\ hold' = hold
        BY <2>0, <1>t DEF WorksOn
      <4>2. job[i].status = "leased" /\ job[i].owner = b /\ hold[b] <= job[i].left
        BY <4>1 DEF LeaseKnown
      <4>3. i # at[a]
        BY <2>1, <4>1, <4>2 DEF HoldsLease
      <4> QED BY <4>1, <4>2, <4>3, <3>3
    <3>5. JobsVouched'
      <4> SUFFICES ASSUME NEW j \in Jobs, job'[j].status = "completed"
                   PROVE  job'[j].owner \in Agents /\ evidence[j][job'[j].owner] > 0
        BY <2>0 DEF JobsVouched
      <4>1. CASE j = at[a]
        <5>1. step[a] = "complete"
          BY <4>1, <3>3, <2>0
        <5>2. evidence[at[a]][a] > 0 /\ job[at[a]].owner = a
          BY <5>1, <2>1 DEF EvidenceFirst, HoldsLease
        <5> QED BY <4>1, <5>1, <5>2, <3>3
      <4>2. CASE j # at[a]
        BY <4>2, <3>3 DEF JobsVouched
      <4> QED BY <4>1, <4>2
    <3> QED BY <2>a, <3>2, <3>4, <3>5
  <2>2. CASE ~HoldsLease(a, at[a])
    <3>1. UNCHANGED <<job, scan>>
      BY <1>9, <2>2 DEF Complete
    <3>2. JobsTypeOK'
      BY <2>0, <3>1 DEF JobsTypeOK
    <3>3. LeaseKnown'
      BY <2>0, <3>1, <1>t DEF LeaseKnown, WorksOn
    <3>4. JobsVouched'
      BY <2>0, <3>1 DEF JobsVouched
    <3> QED BY <2>a, <3>2, <3>3, <3>4
  <2> QED BY <2>1, <2>2
<1>10. ASSUME NEW a \in Agents, Die(a) PROVE JobsInv'
  <2>1. step' = [step EXCEPT ![a] = "off"] /\ UNCHANGED <<job, agent, scan, own, evidence, at, hold, ops, revoked>>
    BY <1>10 DEF Die, Goto
  <2>2. JobsTypeOK'
    BY <2>1 DEF JobsTypeOK
  <2>3. AtJob' /\ EvidenceFirst'
    BY <2>1, <1>t DEF AtJob, EvidenceFirst, Working
  <2>4. LeaseKnown'
    BY <2>1, <1>t DEF LeaseKnown, WorksOn
  <2>5. JobsVouched'
    BY <2>1 DEF JobsVouched
  <2> QED BY <2>2, <2>3, <2>4, <2>5
<1>11. ASSUME NEW a \in Agents, DrainDistributedAgent(a) PROVE JobsInv'
  <2>1. /\ job' = [j \in Jobs |-> IF job[j].status = "leased" /\ job[j].owner = a THEN Released(j) ELSE job[j]]
        /\ agent' = [agent EXCEPT ![a].status = "draining"]
        /\ ops' = ops + 1 /\ ops < MaxOps /\ revoked'
        /\ UNCHANGED <<scan, own, evidence, step, at, hold>>
    BY <1>11 DEF DrainDistributedAgent, Revoke, Operate
  <2>2. \A j \in Jobs : job'[j] = job[j] \/ job'[j] = Released(j)
    BY <2>1
  <2>3. \A j \in Jobs : Released(j) \in JobRow /\ Released(j).status = "queued"
    BY <1>t, JobsAssumption DEF Released, JobRow, JobStatus
  <2>4. job' \in [Jobs -> JobRow]
    BY <2>1, <2>3, <1>t
  <2>5. agent' \in [Agents -> [status : {"none", "enrolled", "online", "draining"},
                               age : 0..(HeartbeatLimit + 1)]]
    BY <2>1 DEF JobsTypeOK
  <2>6. JobsTypeOK'
    BY <2>1, <2>4, <2>5, JobsAssumption DEF JobsTypeOK, JobRow
  <2>7. AtJob' /\ EvidenceFirst'
    BY <2>1 DEF AtJob, EvidenceFirst
  <2>8. LeaseKnown'
    BY <2>1, <1>t DEF LeaseKnown
  <2>9. JobsVouched'
    BY <2>1, <2>2, <2>3 DEF JobsVouched
  <2> QED BY <2>6, <2>7, <2>8, <2>9
<1>12. ASSUME NEW k \in Jobs, CancelJob(k) \/ RequeueDistributedScanJob(k) PROVE JobsInv'
  <2>1. /\ ops' = ops + 1 /\ ops < MaxOps /\ revoked'
        /\ UNCHANGED <<agent, scan, own, evidence, step, at, hold>>
        /\ job[k].status # "completed"
        /\ \/ job' = [job EXCEPT ![k].status = "failed"]
           \/ job' = [job EXCEPT ![k] = Released(k)]
    BY <1>12 DEF CancelJob, RequeueDistributedScanJob, Requeueable, Revoke, Operate
  <2>2. /\ job' \in [Jobs -> JobRow] /\ job'[k].status \in {"failed", "queued"}
        /\ \A j \in Jobs : j # k => job'[j] = job[j]
    <3>1. Released(k) \in JobRow /\ Released(k).status = "queued"
      BY <1>t, JobsAssumption DEF Released, JobRow, JobStatus
    <3>2. CASE job' = [job EXCEPT ![k].status = "failed"]
      BY <3>2, <1>t DEF JobRow, JobStatus
    <3>3. CASE job' = [job EXCEPT ![k] = Released(k)]
      BY <3>3, <3>1, <1>t
    <3> QED BY <2>1, <3>2, <3>3
  <2>3. JobsTypeOK'
    BY <2>1, <2>2, JobsAssumption DEF JobsTypeOK, JobRow
  <2>4. AtJob' /\ EvidenceFirst'
    BY <2>1 DEF AtJob, EvidenceFirst
  <2>5. LeaseKnown'
    BY <2>1, <1>t DEF LeaseKnown
  <2>6. JobsVouched'
    BY <2>1, <2>2 DEF JobsVouched
  <2> QED BY <2>3, <2>4, <2>5, <2>6
<1>14. ASSUME NEW x \in Scans, UpdateScanStatus(x) \/ OwnRun(x) PROVE JobsInv'
  <2>1. PICK st \in ScanStatus : scan' = [scan EXCEPT ![x] = st]
    BY <1>14 DEF UpdateScanStatus, OwnRun, ScanStatus
  <2>2. /\ UNCHANGED <<job, agent, evidence, step, at, hold, revoked>>
        /\ ops' = ops + 1 /\ ops < MaxOps /\ own' \subseteq own \cup {x}
    BY <1>14 DEF UpdateScanStatus, OwnRun, Operate
  <2>3. JobsTypeOK'
    BY <2>1, <2>2, <1>t, JobsAssumption DEF JobsTypeOK
  <2>4. AtJob' /\ EvidenceFirst' /\ LeaseKnown' /\ JobsVouched'
    BY <2>2 DEF AtJob, EvidenceFirst, LeaseKnown, WorksOn, JobsVouched
  <2> QED BY <2>3, <2>4
<1>13. CASE UNCHANGED jobsVars
  BY <1>13 DEF jobsVars, JobsTypeOK, AtJob, LeaseKnown, WorksOn, EvidenceFirst, JobsVouched
<1> QED
  BY <1>1, <1>2, <1>3, <1>4, <1>5, <1>6, <1>7, <1>8, <1>9, <1>10, <1>11, <1>12, <1>13, <1>14 DEF JobsNext, AgentStep

\* Every variable of the job store and of the agents keeps its type.
THEOREM JobsTypeCorrect == JobsSpec => []JobsTypeOK
<1>1. JobsInv => JobsTypeOK
  BY DEF JobsInv
<1> QED
  BY InitJobsInv, NextJobsInv, <1>1, PTL DEF JobsSpec

\* LeaseDistributedScanJob hands a job out again only after the time its agent
\* was told, for every number of agents and jobs and every lease duration.
THEOREM OneWorkerTheorem == JobsSpec => []OneWorker
<1>1. JobsInv => OneWorker
  BY DEF JobsInv, LeaseKnown, OneWorker
<1> QED
  BY InitJobsInv, NextJobsInv, <1>1, PTL DEF JobsSpec

\* What no step changes of a completed job.
FinalJobs == \A j \in Jobs : job[j].status = "completed" =>
               /\ job'[j].status = job[j].status /\ job'[j].owner = job[j].owner
               /\ job'[j].scan = job[j].scan
               /\ evidence'[j] = evidence[j]

\* Every statement that could change a completed job is guarded by the lease or
\* by a status that a completed job no longer has.
LEMMA NextFinalJobs == JobsInv /\ [JobsNext]_jobsVars => FinalJobs
<1>0. JobsInv /\ UNCHANGED jobsVars => FinalJobs
  BY DEF jobsVars, FinalJobs
<1> SUFFICES ASSUME JobsInv, JobsNext, NEW j \in Jobs, job[j].status = "completed"
             PROVE  job'[j] = job[j] /\ evidence'[j] = evidence[j]
  BY <1>0 DEF FinalJobs
<1>t. job \in [Jobs -> JobRow] /\ evidence \in [Jobs -> [Agents -> Nat]]
  BY DEF JobsInv, JobsTypeOK, JobRow
<1>1. CASE EnqueueDistributedScanJob \/ ResetStuckJobs \/ Elapse
  BY <1>1, <1>t DEF EnqueueDistributedScanJob, ResetStuckJobs, Elapse
<1>2. ASSUME NEW a \in Agents,
             RegisterDistributedAgent(a) \/ Heartbeat(a) \/ RunScan(a) \/ Die(a)
      PROVE  UNCHANGED <<job, evidence>>
  BY <1>2 DEF RegisterDistributedAgent, Heartbeat, RunScan, Die
<1>3. ASSUME NEW a \in Agents, Lease(a)
      PROVE  job'[j] = job[j] /\ UNCHANGED evidence
  <2>1. UNCHANGED evidence
    BY <1>3 DEF Lease
  <2> DEFINE S == {i \in Jobs : Eligible(i)}
  <2>2. CASE S # {}
    <3>1. Min(S) \in S
      BY <2>2, LeastJob
    <3>2. ~Eligible(j)
      BY DEF Eligible
    <3>3. Min(S) # j
      BY <3>1, <3>2
    <3>4. UNCHANGED job \/ job' = [job EXCEPT ![Min(S)] = Leased(a, Min(S))]
      BY <1>3 DEF Lease
    <3> QED BY <2>1, <3>3, <3>4, <1>t
  <2>3. CASE S = {}
    BY <1>3, <2>1, <2>3 DEF Lease
  <2> QED BY <2>2, <2>3
<1>4. ASSUME NEW a \in Agents, SubmitEvidence(a)
      PROVE  job' = job /\ evidence'[j] = evidence[j]
  <2>1. HoldsLease(a, at[a]) => at[a] # j
    BY DEF HoldsLease
  <2> QED BY <1>4, <2>1, <1>t DEF SubmitEvidence
<1>5. ASSUME NEW a \in Agents, Complete(a)
      PROVE  job'[j] = job[j] /\ evidence' = evidence
  <2>1. HoldsLease(a, at[a]) => at[a] # j
    BY DEF HoldsLease
  <2> QED BY <1>5, <2>1, <1>t DEF Complete
<1>6. ASSUME NEW a \in Agents, DrainDistributedAgent(a)
      PROVE  job'[j] = job[j] /\ UNCHANGED evidence
  BY <1>6 DEF DrainDistributedAgent
<1>7. ASSUME NEW k \in Jobs, CancelJob(k) \/ RequeueDistributedScanJob(k)
      PROVE  job'[j] = job[j] /\ UNCHANGED evidence
  <2>1. k # j
    BY <1>7 DEF CancelJob, RequeueDistributedScanJob, Requeueable
  <2> QED BY <1>7, <2>1, <1>t DEF CancelJob, RequeueDistributedScanJob
<1>8. ASSUME NEW x \in Scans, UpdateScanStatus(x) \/ OwnRun(x)
      PROVE  UNCHANGED <<job, evidence>>
  BY <1>8 DEF UpdateScanStatus, OwnRun
<1> QED BY <1>1, <1>2, <1>3, <1>4, <1>5, <1>6, <1>7, <1>8 DEF JobsNext, AgentStep

\* No step but the completion of a job, or the coordinator's own run, leaves a
\* scan "completed" that was not.
LEMMA NextScansVouched ==
  JobsInv /\ ScansVouched /\ [JobsNext]_jobsVars => ScansVouched'
<1> SUFFICES ASSUME JobsInv, ScansVouched, [JobsNext]_jobsVars,
                    NEW x \in Scans, scan'[x] = "completed", x \notin own'
             PROVE  \E j \in Jobs : job'[j].scan = x /\ job'[j].status = "completed"
  BY DEF ScansVouched
<1>t. job \in [Jobs -> JobRow] /\ scan \in [Scans -> ScanStatus]
  BY DEF JobsInv, JobsTypeOK, JobRow
<1>1. FinalJobs
  BY NextFinalJobs
<1>2. ASSUME scan[x] = "completed", x \notin own
      PROVE  \E j \in Jobs : job'[j].scan = x /\ job'[j].status = "completed"
  <2>1. PICK j \in Jobs : job[j].scan = x /\ job[j].status = "completed"
    BY <1>2 DEF ScansVouched
  <2> QED BY <1>1, <2>1 DEF FinalJobs
<1>3. CASE UNCHANGED <<scan, own>>
  BY <1>2, <1>3
<1>4. ASSUME NEW a \in Agents, SubmitEvidence(a)
      PROVE  scan[x] = "completed" /\ x \notin own
  <2>1. job[at[a]].scan \in Scans
    <3>1. at[a] \in Jobs
      BY <1>4 DEF SubmitEvidence, JobsInv, AtJob, Working
    <3> QED BY <3>1, <1>t DEF JobRow
  <2>2. UNCHANGED own /\ (UNCHANGED scan \/ scan' = [scan EXCEPT ![job[at[a]].scan] = "running"])
    BY <1>4 DEF SubmitEvidence
  <2> QED BY <2>1, <2>2, <1>t
<1>5. ASSUME NEW a \in Agents, Complete(a)
      PROVE  \E j \in Jobs : job'[j].scan = x /\ job'[j].status = "completed"
  <2> DEFINE k == at[a]
             st == IF step[a] = "complete" THEN "completed" ELSE "failed"
  <2>1. k \in Jobs /\ job[k].scan \in Scans
    <3>1. k \in Jobs
      BY <1>5 DEF Complete, JobsInv, AtJob, Working
    <3> QED BY <3>1, <1>t DEF JobRow
  <2>2. UNCHANGED own
    BY <1>5 DEF Complete
  <2>3. CASE HoldsLease(a, k)
    <3>1. job' = [job EXCEPT ![k].status = st] /\ scan' = [scan EXCEPT ![job[k].scan] = st]
      BY <1>5, <2>3 DEF Complete
    <3> HIDE DEF st, k
    <3>2. job'[k].status = st /\ job'[k].scan = job[k].scan
      BY <2>1, <3>1, <1>t DEF JobRow
    <3>3. CASE x = job[k].scan
      <4>1. st = "completed"
        BY <3>1, <3>3, <1>t
      <4> QED BY <2>1, <3>2, <3>3, <4>1
    <3>4. CASE x # job[k].scan
      BY <1>2, <2>2, <3>1, <3>4, <1>t
    <3> QED BY <3>3, <3>4
  <2>4. CASE ~HoldsLease(a, k)
    <3>1. UNCHANGED scan
      BY <1>5, <2>4 DEF Complete
    <3> QED BY <1>3, <2>2, <3>1
  <2> QED BY <2>3, <2>4
<1>6. ASSUME NEW y \in Scans, UpdateScanStatus(y)
      PROVE  scan[x] = "completed" /\ x \notin own
  <2>1. PICK st \in {"paused", "running"} : scan' = [scan EXCEPT ![y] = st]
    BY <1>6 DEF UpdateScanStatus
  <2>2. UNCHANGED own
    BY <1>6 DEF UpdateScanStatus
  <2> QED BY <2>1, <2>2, <1>t
<1>7. ASSUME NEW y \in Scans, OwnRun(y)
      PROVE  scan[x] = "completed" /\ x \notin own
  <2>1. PICK st \in {"running", "completed", "failed"} : scan' = [scan EXCEPT ![y] = st]
    BY <1>7 DEF OwnRun
  <2>2. own' = own \cup {y}
    BY <1>7 DEF OwnRun
  <2> QED BY <2>1, <2>2, <1>t
<1>8. CASE EnqueueDistributedScanJob \/ ResetStuckJobs \/ Elapse
  <2>1. UNCHANGED <<scan, own>>
    BY <1>8 DEF EnqueueDistributedScanJob, ResetStuckJobs, Elapse
  <2> QED BY <1>3, <2>1
<1>9. ASSUME NEW a \in Agents,
             \/ RegisterDistributedAgent(a) \/ Heartbeat(a) \/ Lease(a) \/ RunScan(a)
             \/ Die(a) \/ DrainDistributedAgent(a)
      PROVE  UNCHANGED <<scan, own>>
  BY <1>9 DEF RegisterDistributedAgent, Heartbeat, Lease, RunScan, Die, DrainDistributedAgent
<1>10. ASSUME NEW k \in Jobs, CancelJob(k) \/ RequeueDistributedScanJob(k)
       PROVE  UNCHANGED <<scan, own>>
  BY <1>10 DEF CancelJob, RequeueDistributedScanJob
<1>11. CASE UNCHANGED jobsVars
  <2>1. UNCHANGED <<scan, own>>
    BY <1>11 DEF jobsVars
  <2> QED BY <1>3, <2>1
<1> QED
  BY <1>2, <1>3, <1>4, <1>5, <1>6, <1>7, <1>8, <1>9, <1>10, <1>11 DEF JobsNext, AgentStep

\* CompleteDistributedScanJob marks a job completed only when the store holds
\* evidence of the agent that completed it, for any number of agents that lose
\* their leases, die and come back, and any number of operator actions; and a
\* scan is completed only if a job of it is, however many jobs and operators
\* write the one row of scan_runs.
THEOREM CompletedTheorem == JobsSpec => []CompletedHasEvidence
<1>1. JobsInv /\ ScansVouched => CompletedHasEvidence
  BY DEF JobsInv, CompletedHasEvidence
<1>2. JobsInit => ScansVouched
  BY DEF JobsInit, ScansVouched
<1> QED
  BY InitJobsInv, NextJobsInv, NextScansVouched, <1>1, <1>2, PTL DEF JobsSpec

\* No late agent, expiry, operator action or other job of the same scan changes
\* a completed job or its evidence.
THEOREM CompletedFinalTheorem == JobsSpec => CompletedIsFinal
<1> DEFINE Final == \A j \in Jobs : job[j].status = "completed" =>
                      /\ job'[j].status = job[j].status /\ job'[j].owner = job[j].owner
                      /\ job'[j].scan = job[j].scan
                      /\ evidence'[j] = evidence[j]
<1>1. JobsInv /\ [JobsNext]_jobsVars => [Final]_jobsVars
  BY NextFinalJobs DEF FinalJobs
<1> QED
  BY InitJobsInv, NextJobsInv, <1>1, PTL DEF JobsSpec, CompletedIsFinal
=============================================================================
