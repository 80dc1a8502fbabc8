------------------------- MODULE ControlLoopProofs -------------------------
(***************************************************************************)
(* The two control loops of internal/scheduler.  The counters of the       *)
(* adaptive workers and the minimum below which they never retire, for     *)
(* every number of goroutines and every pair of bounds.  The lease         *)
(* protocol of HACoordinator and coordinator_leases, for every set of      *)
(* nodes, every lease duration and renewal interval, and any number of     *)
(* takeovers and faults.                                                   *)
(***************************************************************************)
EXTENDS AdaptiveWorkers, HACoordinator, FiniteSetTheorems, TLAPS

-----------------------------------------------------------------------------
(***************************************************************************)
(* The adaptive workers.                                                   *)
(***************************************************************************)

\* A worker about to reserve its retirement holds a desired number of the pool.
DesiredInBounds == \A s \in Slots : goroutine[s] = "reserve" => desired[s] >= minConcurrency

\* The inductive invariant.
PoolInv == PoolTypeOK /\ CountersSound /\ MinimumKept /\ DesiredInBounds

\* The workers that go on are the running ones less the retiring and failed.
WorkersCounted ==
  /\ IsFiniteSet(Running) /\ Cardinality(Running) \in Nat
  /\ IsFiniteSet(Retiring) /\ Cardinality(Retiring) \in Nat
  /\ IsFiniteSet(Failed) /\ Cardinality(Failed) \in Nat
  /\ Cardinality(Running \ (Retiring \cup Failed))
       = Cardinality(Running) - Cardinality(Retiring) - Cardinality(Failed)

\* The sets of workers are finite and the two ways to leave are disjoint.
LEMMA FiniteWorkers == WorkersCounted
<1>1. Running \subseteq Slots /\ Retiring \subseteq Running /\ Failed \subseteq Running
      /\ Retiring \cap Failed = {}
  BY DEF Running, Retiring, Failed
<1>2. IsFiniteSet(Running)
  BY <1>1, PoolAssumption, FS_Subset
<1>3. IsFiniteSet(Retiring) /\ IsFiniteSet(Failed)
  BY <1>1, <1>2, FS_Subset
<1>4. /\ IsFiniteSet(Retiring \cup Failed)
      /\ Cardinality(Retiring \cup Failed)
           = Cardinality(Retiring) + Cardinality(Failed) - Cardinality(Retiring \cap Failed)
  BY <1>3, FS_Union
<1>5. Cardinality(Retiring \cap Failed) = 0
  BY <1>1, FS_EmptySet
<1>6. Cardinality(Running \ (Retiring \cup Failed))
        = Cardinality(Running) - Cardinality(Running \cap (Retiring \cup Failed))
  BY <1>2, FS_Difference
<1>7. Running \cap (Retiring \cup Failed) = Retiring \cup Failed
  BY <1>1
<1>8. Cardinality(Running) \in Nat /\ Cardinality(Retiring) \in Nat /\ Cardinality(Failed) \in Nat
  BY <1>2, <1>3, FS_CardinalityType
<1> QED
  BY <1>2, <1>3, <1>4, <1>5, <1>6, <1>7, <1>8 DEF WorkersCounted

\* The same after a step.
LEMMA FiniteWorkersNext == WorkersCounted'
BY FiniteWorkers, PTL

\* The workers at the start: minConcurrency idle ones.
LEMMA InitPoolInv == PoolInit => PoolInv
<1> SUFFICES ASSUME PoolInit PROVE PoolInv
  OBVIOUS
<1>1. PICK first \in SUBSET Slots :
        /\ Cardinality(first) = minConcurrency
        /\ goroutine = [s \in Slots |-> IF s \in first THEN "idle" ELSE "off"]
  BY DEF PoolInit
<1>2. PoolTypeOK
  <2>1. goroutine \in [Slots -> GoroutineStates]
    BY <1>1 DEF GoroutineStates
  <2>2. desired \in [Slots -> Int]
    BY DEF PoolInit
  <2>4. closing \in BOOLEAN
    BY Zenon DEF PoolInit
  <2>3. /\ current \in minConcurrency..maxConcurrency /\ liveWorkers \in Nat
        /\ pendingRetirements \in Nat /\ lost \in 0..MaxLost
    BY PoolAssumption DEF PoolInit
  <2> QED BY <2>1, <2>2, <2>3, <2>4 DEF PoolTypeOK
<1>3. Running = first /\ Retiring = {} /\ Failed = {}
  BY <1>1 DEF Running, Retiring, Failed
<1>4. Cardinality(Retiring) = 0 /\ Cardinality(Failed) = 0
  BY <1>3, FS_EmptySet
<1>5. Running \ (Retiring \cup Failed) = first
  BY <1>3
<1>6. CountersSound
  BY <1>1, <1>3, <1>4 DEF PoolInit, CountersSound
<1>7. MinimumKept
  BY <1>1, <1>5, PoolAssumption DEF MinimumKept, PoolInit
<1>8. DesiredInBounds
  BY <1>1 DEF DesiredInBounds
<1> QED
  BY <1>2, <1>6, <1>7, <1>8 DEF PoolInv

\* A step that starts, ends, retires and fails nobody keeps the counters sound.
LEMMA SameWorkers ==
  ASSUME CountersSound, MinimumKept,
         Running' = Running, Retiring' = Retiring, Failed' = Failed,
         UNCHANGED <<liveWorkers, pendingRetirements, closing, lost>>
  PROVE  CountersSound' /\ MinimumKept'
BY DEF CountersSound, MinimumKept

\* Every step of a goroutine, and the closing of the queues, keeps the invariant.
LEMMA NextPoolInv == PoolInv /\ [PoolNext]_poolVars => PoolInv'
<1> SUFFICES ASSUME PoolInv, [PoolNext]_poolVars PROVE PoolInv'
  OBVIOUS
<1> USE DEF PoolInv
<1>t. /\ PoolTypeOK /\ goroutine \in [Slots -> GoroutineStates] /\ desired \in [Slots -> Int]
      /\ liveWorkers \in Nat /\ pendingRetirements \in Nat /\ lost \in Nat
  BY PoolAssumption DEF PoolTypeOK
<1>c. WorkersCounted /\ WorkersCounted'
  BY FiniteWorkers, FiniteWorkersNext
<1>1. ASSUME NEW s \in Slots, TakeEvent(s) PROVE PoolInv'
  <2>1. PoolTypeOK'
    BY <1>1, PoolAssumption DEF TakeEvent, PoolTypeOK, Becomes, GoroutineStates
  <2>2. Running' = Running /\ Retiring' = Retiring /\ Failed' = Failed
    BY <1>1, <1>t DEF TakeEvent, Becomes, Running, Retiring, Failed
  <2>3. CountersSound' /\ MinimumKept'
    BY <1>1, <2>2, SameWorkers DEF TakeEvent
  <2>4. DesiredInBounds'
    BY <1>1, <1>t, PoolAssumption DEF TakeEvent, Becomes, DesiredInBounds, PoolTypeOK
  <2> QED BY <2>1, <2>3, <2>4
<1>0. ASSUME NEW s \in Slots, GiveUp(s) PROVE PoolInv'
  <2>0. /\ goroutine[s] \in {"idle", "module"} /\ lost < MaxLost /\ lost' = lost + 1 /\ Becomes(s, "failed")
        /\ UNCHANGED <<current, liveWorkers, pendingRetirements, desired, closing>>
    BY <1>0 DEF GiveUp
  <2>1. PoolTypeOK'
    BY <2>0, PoolAssumption DEF PoolTypeOK, Becomes, GoroutineStates
  <2>2. Running' = Running /\ Retiring' = Retiring /\ Failed' = Failed \cup {s} /\ s \notin Failed
    BY <2>0, <1>t DEF Becomes, Running, Retiring, Failed
  <2>3. Cardinality(Failed') = Cardinality(Failed) + 1
    BY <2>2, <1>c, FS_AddElement DEF WorkersCounted
  <2>4. CountersSound'
    BY <2>0, <2>2, <2>3, <1>c, <1>t DEF CountersSound, WorkersCounted
  <2>5. MinimumKept'
    BY <2>0, <2>2, <2>3, <1>c, <1>t, PoolAssumption DEF MinimumKept, WorkersCounted
  <2>6. DesiredInBounds'
    BY <2>0, <1>t DEF Becomes, DesiredInBounds
  <2> QED BY <2>1, <2>4, <2>5, <2>6
<1>2. ASSUME NEW s \in Slots, RecordLatency(s) PROVE PoolInv'
  <2>1. PoolTypeOK'
    BY <1>2, PoolAssumption DEF RecordLatency, PoolTypeOK, Becomes, GoroutineStates, Adjusted
  <2>2. Running' = Running /\ Retiring' = Retiring /\ Failed' = Failed
    BY <1>2, <1>t DEF RecordLatency, Becomes, Running, Retiring, Failed
  <2>3. CountersSound' /\ MinimumKept'
    BY <1>2, <2>2, SameWorkers DEF RecordLatency
  <2>4. DesiredInBounds'
    BY <1>2, <1>t, PoolAssumption DEF RecordLatency, Becomes, DesiredInBounds, PoolTypeOK
  <2> QED BY <2>1, <2>3, <2>4
<1>3. ASSUME NEW s \in Slots, ReadDesired(s) PROVE PoolInv'
  <2>1. PoolTypeOK'
    BY <1>3, PoolAssumption DEF ReadDesired, PoolTypeOK, Becomes, GoroutineStates
  <2>2. Running' = Running /\ Retiring' = Retiring /\ Failed' = Failed
    BY <1>3, <1>t DEF ReadDesired, Becomes, Running, Retiring, Failed
  <2>3. CountersSound' /\ MinimumKept'
    BY <1>3, <2>2, SameWorkers DEF ReadDesired
  <2>4. DesiredInBounds'
    BY <1>3, <1>t, PoolAssumption DEF ReadDesired, Becomes, DesiredInBounds, PoolTypeOK
  <2> QED BY <2>1, <2>3, <2>4
<1>4. ASSUME NEW s \in Slots, Compare(s) PROVE PoolInv'
  <2>1. PoolTypeOK'
    BY <1>4, PoolAssumption DEF Compare, PoolTypeOK, Becomes, GoroutineStates
  <2>2. Running' = Running /\ Retiring' = Retiring /\ Failed' = Failed
    BY <1>4, <1>t DEF Compare, Becomes, Running, Retiring, Failed
  <2>3. CountersSound' /\ MinimumKept'
    BY <1>4, <2>2, SameWorkers DEF Compare
  <2>4. DesiredInBounds'
    BY <1>4, <1>t, PoolAssumption DEF Compare, Becomes, DesiredInBounds, PoolTypeOK
  <2> QED BY <2>1, <2>3, <2>4
<1>5. ASSUME NEW s \in Slots, SpawnOrContinue(s) PROVE PoolInv'
  <2>1. CASE desired[s] > 0
    <3>1. PICK new \in Slots \ Running : goroutine' = [goroutine EXCEPT ![new] = "idle"]
      BY <1>5, <1>t, <2>1 DEF SpawnOrContinue
    <3>2. /\ liveWorkers' = liveWorkers + 1 /\ desired' = [desired EXCEPT ![s] = @ - 1]
          /\ UNCHANGED <<current, pendingRetirements, closing, lost>>
      BY <1>5, <1>t, <2>1 DEF SpawnOrContinue
    <3>3. PoolTypeOK'
      BY <3>1, <3>2 DEF PoolTypeOK, GoroutineStates
    <3>4. /\ Running' = Running \cup {new} /\ new \notin Running
          /\ Retiring' = Retiring /\ Failed' = Failed
      BY <3>1, <1>t DEF Running, Retiring, Failed
    <3>5. Cardinality(Running') = Cardinality(Running) + 1
      BY <3>4, <1>c, FS_AddElement DEF WorkersCounted
    <3>6. CountersSound'
      BY <3>2, <3>4, <3>5, <1>c DEF CountersSound, WorkersCounted
    <3>7. MinimumKept'
      BY <3>2, <3>4, <3>5, <1>c, <1>t, PoolAssumption DEF MinimumKept, WorkersCounted
    <3>8. DesiredInBounds'
      BY <1>5, <1>t, <3>1, <3>2 DEF DesiredInBounds, SpawnOrContinue
    <3> QED BY <3>3, <3>6, <3>7, <3>8
  <2>2. CASE ~(desired[s] > 0)
    <3>1. PICK l \in {"module", "finish"} : Becomes(s, l)
      BY <1>5, <1>t, <2>2 DEF SpawnOrContinue
    <3>2. /\ UNCHANGED <<current, liveWorkers, pendingRetirements, closing, lost>>
          /\ desired' = [desired EXCEPT ![s] = 0] /\ goroutine[s] = "spawn"
      BY <1>5, <1>t, <2>2 DEF SpawnOrContinue
    <3>3. PoolTypeOK'
      BY <3>1, <3>2 DEF PoolTypeOK, GoroutineStates, Becomes
    <3>4. Running' = Running /\ Retiring' = Retiring /\ Failed' = Failed
      BY <3>1, <3>2, <1>t DEF Becomes, Running, Retiring, Failed
    <3>5. CountersSound' /\ MinimumKept'
      BY <3>2, <3>4, SameWorkers
    <3>6. DesiredInBounds'
      BY <3>1, <3>2, <1>t DEF Becomes, DesiredInBounds
    <3> QED BY <3>3, <3>5, <3>6
  <2> QED BY <2>1, <2>2
<1>6. ASSUME NEW s \in Slots, reserveAdaptiveRetirement(s) PROVE PoolInv'
  <2>0. /\ goroutine[s] = "reserve" /\ desired' = [desired EXCEPT ![s] = 0]
        /\ UNCHANGED <<current, liveWorkers, closing, lost>>
    BY <1>6 DEF reserveAdaptiveRetirement
  <2>1. CASE StillNeeded(s)
    <3>1. Becomes(s, "idle") /\ UNCHANGED pendingRetirements
      BY <1>6, <2>1 DEF reserveAdaptiveRetirement
    <3>2. PoolTypeOK'
      BY <2>0, <3>1 DEF PoolTypeOK, GoroutineStates, Becomes
    <3>3. Running' = Running /\ Retiring' = Retiring /\ Failed' = Failed
      BY <2>0, <3>1, <1>t DEF Becomes, Running, Retiring, Failed
    <3>4. CountersSound' /\ MinimumKept'
      BY <2>0, <3>1, <3>3, SameWorkers
    <3>5. DesiredInBounds'
      BY <2>0, <3>1, <1>t DEF Becomes, DesiredInBounds
    <3> QED BY <3>2, <3>4, <3>5
  <2>2. CASE ~StillNeeded(s)
    <3>1. Becomes(s, "retire") /\ pendingRetirements' = pendingRetirements + 1
      BY <1>6, <2>2 DEF reserveAdaptiveRetirement
    <3>2. PoolTypeOK'
      BY <2>0, <3>1 DEF PoolTypeOK, GoroutineStates, Becomes
    <3>3. /\ Running' = Running /\ Retiring' = Retiring \cup {s} /\ s \notin Retiring
          /\ Failed' = Failed
      BY <2>0, <3>1, <1>t DEF Becomes, Running, Retiring, Failed
    <3>4. Cardinality(Retiring') = Cardinality(Retiring) + 1
      BY <3>3, <1>c, FS_AddElement DEF WorkersCounted
    <3>5. CountersSound'
      BY <2>0, <3>1, <3>3, <3>4, <1>c, <1>t DEF CountersSound, WorkersCounted
    <3>6. liveWorkers - pendingRetirements > minConcurrency
      BY <2>0, <2>2, <1>t, PoolAssumption DEF StillNeeded, DesiredInBounds
    \* The retirements that failed workers took back are at most lost.
    <3>7. MinimumKept'
      BY <2>0, <3>3, <3>4, <3>6, <1>c, <1>t, PoolAssumption
      DEF CountersSound, MinimumKept, WorkersCounted
    <3>8. DesiredInBounds'
      BY <2>0, <3>1, <1>t DEF Becomes, DesiredInBounds
    <3> QED BY <3>2, <3>5, <3>7, <3>8
  <2> QED BY <2>1, <2>2
<1>7. ASSUME NEW s \in Slots, workerExited(s) PROVE PoolInv'
  <2>0. /\ Becomes(s, "off") /\ UNCHANGED <<current, desired, closing, lost>>
        /\ liveWorkers' = Decremented(liveWorkers)
        /\ pendingRetirements' = Decremented(pendingRetirements)
        /\ goroutine[s] \in {"retire", "failed"} \/ (closing /\ goroutine[s] = "idle")
    BY <1>7 DEF workerExited, Exits
  <2>1. PoolTypeOK'
    BY <2>0 DEF PoolTypeOK, GoroutineStates, Becomes, Decremented
  <2>2. /\ Running' = Running \ {s} /\ Retiring' = Retiring \ {s} /\ Failed' = Failed \ {s}
        /\ s \in Running
    BY <2>0, <1>t DEF Becomes, Running, Retiring, Failed
  <2>3. Cardinality(Running') = Cardinality(Running) - 1
    BY <2>2, <1>c, FS_RemoveElement DEF WorkersCounted
  <2>4. liveWorkers' = Cardinality(Running')
    BY <2>0, <2>3, <1>c DEF CountersSound, Decremented, WorkersCounted
  <2>5. DesiredInBounds'
    BY <2>0, <1>t DEF Becomes, DesiredInBounds
  <2>6. CASE goroutine[s] = "retire"
    <3>1. s \in Retiring /\ Failed' = Failed
      BY <2>2, <2>6 DEF Retiring, Failed
    <3>2. Cardinality(Retiring') = Cardinality(Retiring) - 1
      BY <2>2, <3>1, <1>c, FS_RemoveElement DEF WorkersCounted
    <3>3. CountersSound'
      BY <2>0, <2>4, <3>1, <3>2, <1>c, <1>t DEF CountersSound, Decremented, WorkersCounted
    <3>4. MinimumKept'
      BY <2>0, <2>3, <3>1, <3>2, <1>c, <1>t, PoolAssumption DEF MinimumKept, WorkersCounted
    <3> QED BY <2>1, <2>5, <3>3, <3>4
  <2>7. CASE goroutine[s] = "failed"
    <3>1. s \in Failed /\ Retiring' = Retiring
      BY <2>2, <2>7 DEF Retiring, Failed
    <3>2. Cardinality(Failed') = Cardinality(Failed) - 1
      BY <2>2, <3>1, <1>c, FS_RemoveElement DEF WorkersCounted
    <3>3. CountersSound'
      BY <2>0, <2>4, <3>1, <3>2, <1>c, <1>t DEF CountersSound, Decremented, WorkersCounted
    <3>4. MinimumKept'
      BY <2>0, <2>3, <3>1, <3>2, <1>c, <1>t, PoolAssumption DEF MinimumKept, WorkersCounted
    <3> QED BY <2>1, <2>5, <3>3, <3>4
  <2>8. CASE closing /\ goroutine[s] = "idle"
    <3>1. Retiring' = Retiring /\ closing'
      BY <2>0, <2>2, <2>8 DEF Retiring
    <3>2. CountersSound'
      BY <2>4, <2>0, <3>1, <1>c, <1>t DEF CountersSound, Decremented, WorkersCounted
    <3>3. MinimumKept'
      BY <3>1 DEF MinimumKept
    <3> QED BY <2>1, <2>5, <3>2, <3>3
  <2> QED BY <2>0, <2>6, <2>7, <2>8
<1>8. ASSUME Close PROVE PoolInv'
  BY <1>8 DEF Close, PoolTypeOK, CountersSound, MinimumKept, DesiredInBounds, Running, Retiring, Failed
<1>9. ASSUME UNCHANGED poolVars PROVE PoolInv'
  BY <1>9 DEF poolVars, PoolTypeOK, CountersSound, MinimumKept, DesiredInBounds, Running, Retiring, Failed
<1> QED
  BY <1>0, <1>1, <1>2, <1>3, <1>4, <1>5, <1>6, <1>7, <1>8, <1>9 DEF PoolNext, Step, Done

\* Every variable of the pool keeps its type.
THEOREM PoolTypeCorrect == PoolSpec => []PoolTypeOK
<1>1. PoolInv => PoolTypeOK
  BY DEF PoolInv
<1> QED
  BY InitPoolInv, NextPoolInv, <1>1, PTL DEF PoolSpec

\* spawnWorker, reserveAdaptiveRetirement and workerExited keep the two counters
\* sound, for every number of goroutines that scale up, scale down, fail and
\* exit at once: a failed worker takes back at most one retirement.
THEOREM CountersTheorem == PoolSpec => []CountersSound
<1>1. PoolInv => CountersSound
  BY DEF PoolInv
<1> QED
  BY InitPoolInv, NextPoolInv, <1>1, PTL DEF PoolSpec

\* However many workers finish their events at once, reserveAdaptiveRetirement
\* leaves minConcurrency of them at work less the workers lost to errors, for
\* every minimum and maximum and any number of losses.
THEOREM MinimumTheorem == PoolSpec => []MinimumKept
<1>1. PoolInv => MinimumKept
  BY DEF PoolInv
<1> QED
  BY InitPoolInv, NextPoolInv, <1>1, PTL DEF PoolSpec

-----------------------------------------------------------------------------
(***************************************************************************)
(* The coordinator and its lease.                                          *)
(***************************************************************************)

USE NodesAssumption, TimingAssumption, LimitsAssumption

\* What a tick of the clock leaves of a lease.
LEMMA OlderType ==
  \A l \in Lefts : Older(l) \in Lefts /\ (l > 0 => Older(l) = l - 1)
                   /\ (l <= 0 => Older(l) <= 0)
  BY DEF Older, Lefts

\* No coordinator runs in the initial state.
LEMMA InitLeaseInv == Init => LeaseInv
  BY DEF Init, LeaseInv, TypeOK, LoopInv, HeldCovered, AnswerCovered, HeldOwned,
         AnswerOwned, AnswerDistinct, AnswersDistinct, EpochHasOneOwner,
         Answered, Lease, NoLease, Lefts, Epochs, Reqs

\* Every step of a node's loop, of a mutation call, every fault and every
\* tick keeps the types.
LEMMA NextTypeOK == LeaseInv /\ [Next]_vars => TypeOK'
<1> SUFFICES ASSUME LeaseInv, [Next]_vars PROVE TypeOK'
  OBVIOUS
<1> USE DEF LeaseInv, TypeOK
<1> NoLease \in Lease
  BY DEF NoLease, Lease, Lefts, Epochs
<1>1. ASSUME NEW n \in Nodes, Start(n) PROVE TypeOK'
  BY <1>1 DEF Start, Reqs, Epochs
<1>2. ASSUME NEW n \in Nodes, RunTick(n) PROVE TypeOK'
  BY <1>2 DEF RunTick, Send, Reqs
<1>3. ASSUME NEW n \in Nodes, AcquireCoordinatorLease(n) PROVE TypeOK'
  <2>1. CASE row.leader # n /\ row.leader # NoNode /\ Unexpired(n)
    BY <1>3, <2>1 DEF AcquireCoordinatorLease, Reqs
  <2>2. CASE ~(row.leader # n /\ row.leader # NoNode /\ Unexpired(n))
    <3> DEFINE e == NextEpoch(n)
               l == NewLeft(n)
    <3>1. /\ e <= MaxEpoch
          /\ row' = [leader |-> n, epoch |-> e, left |-> l]
          /\ ans' = [ans EXCEPT ![n] = [epoch |-> e, left |-> l]]
          /\ req' = [req EXCEPT ![n] = "acquired"]
          /\ UNCHANGED <<up, isLeader, lease, age, mpc, mepoch, faults>>
      BY <1>3, <2>2 DEF AcquireCoordinatorLease
    <3>2. e \in Epochs
      BY <3>1 DEF Epochs, NextEpoch
    <3>3. l \in Lefts
      BY DEF Lefts, NewLeft
    <3> HIDE DEF e, l
    <3> QED BY <3>1, <3>2, <3>3 DEF Lease, Reqs
  <2> QED BY <2>1, <2>2
<1>4. ASSUME NEW n \in Nodes, RenewCoordinatorLease(n) PROVE TypeOK'
  <2> DEFINE l == NewLeft(n)
             c == [ans[n] EXCEPT !.left = l]
  <2>1. l \in Lefts
    BY DEF Lefts, NewLeft
  <2>2. c \in Lease
    BY <2>1 DEF Lease
  <2>3. row' \in [leader : Nodes \cup {NoNode}, epoch : Epochs, left : Lefts]
    BY <1>4, <2>1 DEF RenewCoordinatorLease
  <2>4. ans' \in [Nodes -> Lease]
    BY <1>4, <2>2 DEF RenewCoordinatorLease
  <2>5. req' \in [Nodes -> Reqs]
    BY <1>4 DEF RenewCoordinatorLease, Reqs
  <2> QED BY <1>4, <2>3, <2>4, <2>5 DEF RenewCoordinatorLease
<1>5. ASSUME NEW n \in Nodes, Apply(n) PROVE TypeOK'
  <2>1. req' \in [Nodes -> Reqs] /\ age' \in [Nodes -> 0..RenewInterval]
    BY <1>5 DEF Apply, Reqs
  <2>2. lease' \in [Nodes -> Lease]
    BY <1>5 DEF Apply
  <2>3. isLeader' \in [Nodes -> BOOLEAN]
    BY <1>5 DEF Apply, StepDown
  <2> QED BY <1>5, <2>1, <2>2, <2>3 DEF Apply
<1>6. ASSUME NEW n \in Nodes, LoseRequest(n) PROVE TypeOK'
  BY <1>6 DEF LoseRequest, Reqs
<1>7. ASSUME NEW n \in Nodes, Stop(n) PROVE TypeOK'
  BY <1>7 DEF Stop, Lefts
<1>8. ASSUME NEW n \in Nodes, Crash(n) PROVE TypeOK'
  BY <1>8 DEF Crash, Reqs, Epochs
<1>9. ASSUME NEW n \in Nodes, MutationStep(n) PROVE TypeOK'
  BY <1>9 DEF MutationStep, BeginMutation, RequireCoordinatorFence, Mutate, Lease,
              StepDown
<1>10. ASSUME Tick PROVE TypeOK'
  <2>1. row' \in [leader : Nodes \cup {NoNode}, epoch : Epochs, left : Lefts]
    BY <1>10, OlderType DEF Tick
  <2>2. ASSUME NEW c \in Lease PROVE [c EXCEPT !.left = Older(@)] \in Lease
    BY OlderType DEF Lease
  <2>3. lease' \in [Nodes -> Lease] /\ ans' \in [Nodes -> Lease]
    BY <1>10, <2>2 DEF Tick
  <2>4. age' \in [Nodes -> 0..RenewInterval]
    BY <1>10 DEF Tick
  <2> QED BY <1>10, <2>1, <2>3, <2>4 DEF Tick
<1>11. ASSUME UNCHANGED vars PROVE TypeOK'
  BY <1>11 DEF vars
<1> QED
  BY <1>1, <1>2, <1>3, <1>4, <1>5, <1>6, <1>7, <1>8, <1>9, <1>10, <1>11
  DEF Next, NodeStep, LoopStep

-----------------------------------------------------------------------------
\* The part of LeaseInv that ties copies of the lease to the row.
CopiesInv == /\ HeldCovered /\ AnswerCovered /\ HeldOwned /\ AnswerOwned
             /\ AnswerDistinct /\ AnswersDistinct /\ EpochHasOneOwner

\* A step that leaves the row alone and makes no new copy keeps CopiesInv:
\* sending or losing a request, an error, a crash, a mutation call.
LEMMA FewerCopies ==
  ASSUME CopiesInv, row' = row,
         \A n \in Nodes : isLeader'[n] => isLeader[n] /\ lease'[n] = lease[n],
         \A n \in Nodes : Answered(n)' => Answered(n) /\ ans'[n] = ans[n]
  PROVE  CopiesInv'
<1> USE DEF CopiesInv
<1>1. HeldCovered' /\ HeldOwned'
  BY DEF HeldCovered, HeldOwned, Covered, Owned
<1>2. AnswerCovered' /\ AnswerOwned'
  BY DEF AnswerCovered, AnswerOwned, Covered, Owned
<1>3. AnswerDistinct' /\ AnswersDistinct' /\ EpochHasOneOwner'
  BY DEF AnswerDistinct, AnswersDistinct, EpochHasOneOwner
<1> QED BY <1>1, <1>2, <1>3

\* AcquireCoordinatorLease takes the row over only when no unexpired copy
\* is left, or keeps it for the node that has it.
LEMMA AcquireCopies ==
  ASSUME LeaseInv, NEW n \in Nodes, AcquireCoordinatorLease(n)
  PROVE  CopiesInv'
<1> USE DEF LeaseInv
<1>1. CASE row.leader # n /\ row.leader # NoNode /\ Unexpired(n)
  <2>1. \A m \in Nodes : Answered(m)' => Answered(m) /\ ans'[m] = ans[m]
    BY <1>1 DEF AcquireCoordinatorLease, Answered, TypeOK
  <2>2. UNCHANGED <<row, isLeader, lease>>
    BY <1>1 DEF AcquireCoordinatorLease
  <2> QED BY <2>1, <2>2, FewerCopies DEF CopiesInv
<1>2. CASE ~(row.leader # n /\ row.leader # NoNode /\ Unexpired(n))
  <2> DEFINE e == NextEpoch(n)
             l == NewLeft(n)
  <2>1. /\ row' = [leader |-> n, epoch |-> e, left |-> l]
        /\ ans' = [ans EXCEPT ![n] = [epoch |-> e, left |-> l]]
        /\ req' = [req EXCEPT ![n] = "acquired"]
        /\ UNCHANGED <<isLeader, lease>>
        /\ req[n] = "acquire"
    BY <1>2 DEF AcquireCoordinatorLease
  <2>2. /\ row'.leader = n /\ row'.epoch = e /\ row'.left = l
        /\ ans'[n].epoch = e /\ ans'[n].left = l
    BY <2>1 DEF TypeOK
  <2>3. /\ row.epoch \in Int /\ e \in Int /\ row.epoch <= e
        /\ row.leader # n => e > row.epoch
        /\ row.left \in Int /\ l \in Int
    BY DEF TypeOK, Epochs, Lefts, NextEpoch, NewLeft
  \* No other node holds an unexpired copy, and none the new epoch.
  <2>4. \A m \in Nodes, c \in Lease :
           Covered(m, c) /\ Owned(m, c) /\ m # n => c.left <= 0 /\ c.epoch # e
    <3> SUFFICES ASSUME NEW m \in Nodes, NEW c \in Lease,
                        Covered(m, c), Owned(m, c), m # n
                 PROVE  c.left <= 0 /\ c.epoch # e
      OBVIOUS
    <3>1. c.epoch \in Int /\ c.left \in Int
      BY DEF Lease, Epochs, Lefts
    <3>2. c.epoch # e
      BY <2>3, <3>1 DEF Owned
    <3>3. c.left <= 0
      <4>1. CASE row.leader = n \/ row.leader = NoNode
        BY <3>1, <4>1 DEF Covered
      <4>2. CASE ~Unexpired(n)
        BY <2>3, <3>1, <4>2 DEF Covered, Unexpired, TypeOK
      <4> QED BY <1>2, <4>1, <4>2
    <3> QED BY <3>2, <3>3
  <2>5. \A m \in Nodes : Answered(m)' => m = n \/ (Answered(m) /\ ans'[m] = ans[m])
    BY <2>1 DEF Answered, TypeOK
  <2>6. ~isLeader[n]
    BY <2>1 DEF LoopInv
  <2>7. \A m \in Nodes : lease[m] \in Lease /\ ans[m] \in Lease
    BY DEF TypeOK
  <2>8. \A m \in Nodes : isLeader'[m] => /\ m # n /\ lease'[m] = lease[m]
                                         /\ lease[m].left <= 0
                                         /\ lease[m].epoch # e
                                         /\ lease[m].epoch <= row.epoch
    BY <2>1, <2>4, <2>6, <2>7 DEF HeldCovered, HeldOwned, Owned
  <2>9. \A m \in Nodes : Answered(m)' /\ m # n => /\ Answered(m)
                                                  /\ ans'[m] = ans[m]
                                                  /\ ans[m].left <= 0
                                                  /\ ans[m].epoch # e
                                                  /\ ans[m].epoch <= row.epoch
    BY <2>4, <2>5, <2>7 DEF AnswerCovered, AnswerOwned, Owned
  <2>10. \A m \in Nodes : /\ lease[m].epoch \in Int /\ lease[m].left \in Int
                          /\ ans[m].epoch \in Int /\ ans[m].left \in Int
    BY <2>7 DEF Lease, Epochs, Lefts
  <2> HIDE DEF e, l
  <2>11. HeldCovered' /\ HeldOwned'
    BY <2>2, <2>3, <2>8, <2>10 DEF HeldCovered, HeldOwned, Covered, Owned
  <2>12. AnswerCovered' /\ AnswerOwned'
    BY <2>2, <2>3, <2>9, <2>10 DEF AnswerCovered, AnswerOwned, Covered, Owned
  <2>13. AnswerDistinct'
    BY <2>1, <2>2, <2>8, <2>9 DEF AnswerDistinct
  <2>14. AnswersDistinct'
    BY <2>2, <2>9 DEF AnswersDistinct
  <2>15. EpochHasOneOwner'
    BY <2>1 DEF EpochHasOneOwner
  <2> QED BY <2>11, <2>12, <2>13, <2>14, <2>15 DEF CopiesInv
<1> QED BY <1>1, <1>2

\* RenewCoordinatorLease lengthens only the row of its own, unexpired epoch.
LEMMA RenewCopies ==
  ASSUME LeaseInv, NEW n \in Nodes, RenewCoordinatorLease(n)
  PROVE  CopiesInv'
<1> USE DEF LeaseInv
<1>1. CASE ~(row.leader = n /\ row.epoch = ans[n].epoch /\ Unexpired(n))
  <2>1. \A m \in Nodes : Answered(m)' => Answered(m) /\ ans'[m] = ans[m]
    BY <1>1 DEF RenewCoordinatorLease, Answered, TypeOK
  <2>2. UNCHANGED <<row, isLeader, lease>>
    BY <1>1 DEF RenewCoordinatorLease
  <2> QED BY <2>1, <2>2, FewerCopies DEF CopiesInv
<1>2. CASE row.leader = n /\ row.epoch = ans[n].epoch /\ Unexpired(n)
  <2> DEFINE l == NewLeft(n)
  <2>1. /\ row' = [row EXCEPT !.left = l]
        /\ ans' = [ans EXCEPT ![n].left = l]
        /\ req' = [req EXCEPT ![n] = "renewed"]
        /\ UNCHANGED <<isLeader, lease>>
        /\ req[n] = "renew"
    BY <1>2 DEF RenewCoordinatorLease
  <2>2. /\ row'.leader = n /\ row'.epoch = row.epoch /\ row'.left = l
        /\ ans'[n].epoch = row.epoch /\ ans'[n].left = l
    BY <1>2, <2>1 DEF TypeOK, Lease
  <2>3. row.epoch \in Int /\ row.left \in Int /\ l \in Int
    BY DEF TypeOK, Epochs, Lefts, NewLeft
  <2>4. lease[n].left <= l
    BY <2>1 DEF LoopInv, NewLeft
  <2>5. \A m \in Nodes : Answered(m)' => m = n \/ (Answered(m) /\ ans'[m] = ans[m])
    BY <2>1 DEF Answered, TypeOK
  <2>6. \A m \in Nodes : /\ lease[m].epoch \in Int /\ lease[m].left \in Int
                         /\ ans[m].epoch \in Int /\ ans[m].left \in Int
    BY DEF TypeOK, Lease, Epochs, Lefts
  <2> HIDE DEF l
  <2>7. HeldCovered' /\ HeldOwned'
    BY <1>2, <2>1, <2>2, <2>3, <2>4, <2>6 DEF HeldCovered, HeldOwned, Covered, Owned
  <2>8. AnswerCovered' /\ AnswerOwned'
    BY <1>2, <2>2, <2>3, <2>5, <2>6 DEF AnswerCovered, AnswerOwned, Covered, Owned
  <2>9. AnswerDistinct'
    BY <1>2, <2>1, <2>2, <2>5 DEF AnswerDistinct, HeldOwned, Owned
  <2>10. AnswersDistinct'
    BY <1>2, <2>2, <2>5 DEF AnswersDistinct, AnswerOwned, Owned
  <2>11. EpochHasOneOwner'
    BY <2>1 DEF EpochHasOneOwner
  <2> QED BY <2>7, <2>8, <2>9, <2>10, <2>11 DEF CopiesInv
<1> QED BY <1>1, <1>2

\* The loop's copy of the lease is the one of its answer.
LEMMA ApplyCopies ==
  ASSUME LeaseInv, NEW n \in Nodes, Apply(n)
  PROVE  CopiesInv'
<1> USE DEF LeaseInv
<1>1. \A m \in Nodes : Answered(m)' => Answered(m) /\ ans'[m] = ans[m] /\ m # n
  BY DEF Apply, Answered, TypeOK
<1>2. CASE req[n] = "failed"
  <2>1. /\ row' = row
        /\ \A m \in Nodes : isLeader'[m] => isLeader[m] /\ lease'[m] = lease[m]
    BY <1>2 DEF Apply, StepDown, TypeOK
  <2> QED BY <1>1, <2>1, FewerCopies DEF CopiesInv
<1>3. CASE Answered(n)
  <2>1. /\ row' = row
        /\ lease'[n] = ans[n]
        /\ \A m \in Nodes : isLeader'[m] =>
              m = n \/ (isLeader[m] /\ lease'[m] = lease[m])
    <3>1. row' = row /\ lease' = [lease EXCEPT ![n] = ans[n]]
      BY <1>3 DEF Apply, Answered
    <3>2. \A m \in Nodes : m # n => isLeader'[m] = isLeader[m]
      BY <1>3 DEF Apply, Answered, TypeOK
    <3>3. lease'[n] = ans[n] /\ \A m \in Nodes : m # n => lease'[m] = lease[m]
      BY <3>1 DEF TypeOK
    <3> QED BY <3>1, <3>2, <3>3, Zenon
  <2>2. HeldCovered' /\ HeldOwned'
    BY <1>3, <2>1
    DEF HeldCovered, HeldOwned, AnswerCovered, AnswerOwned, Covered, Owned
  <2>3. AnswerCovered' /\ AnswerOwned'
    BY <1>1, <2>1 DEF AnswerCovered, AnswerOwned, Covered, Owned
  <2>4. AnswersDistinct'
    BY <1>1 DEF AnswersDistinct
  <2>5. AnswerDistinct'
    BY <1>1, <1>3, <2>1 DEF AnswerDistinct, AnswersDistinct
  <2>6. EpochHasOneOwner'
    BY <1>3, <2>1 DEF EpochHasOneOwner, AnswerDistinct
  <2> QED BY <2>2, <2>3, <2>4, <2>5, <2>6 DEF CopiesInv
<1> QED BY <1>2, <1>3 DEF Apply, Answered

\* Stop gives the row up only after its node has stepped down.
LEMMA StopCopies ==
  ASSUME LeaseInv, NEW n \in Nodes, Stop(n)
  PROVE  CopiesInv'
<1> USE DEF LeaseInv
<1>1. /\ \A m \in Nodes : isLeader'[m] => isLeader[m] /\ m # n
      /\ lease' = lease /\ ans' = ans
      /\ \A m \in Nodes : Answered(m)' => Answered(m) /\ m # n
  BY DEF Stop, Answered, TypeOK
<1>2. CASE row' = row
  BY <1>1, <1>2, FewerCopies DEF CopiesInv
<1>3. CASE row' # row
  <2>1. row.leader = n /\ row' = [row EXCEPT !.left = 0]
    BY <1>3 DEF Stop
  <2>2. row'.leader = row.leader /\ row'.epoch = row.epoch
    BY <2>1 DEF TypeOK
  <2>3. HeldCovered' /\ HeldOwned'
    BY <1>1, <2>1, <2>2 DEF HeldCovered, HeldOwned, Covered, Owned
  <2>4. AnswerCovered' /\ AnswerOwned'
    BY <1>1, <2>1, <2>2 DEF AnswerCovered, AnswerOwned, Covered, Owned
  <2>5. AnswerDistinct' /\ AnswersDistinct' /\ EpochHasOneOwner'
    BY <1>1 DEF AnswerDistinct, AnswersDistinct, EpochHasOneOwner
  <2> QED BY <2>3, <2>4, <2>5 DEF CopiesInv
<1> QED BY <1>2, <1>3

\* Time shortens the row and every copy alike.
LEMMA TickCopies ==
  ASSUME LeaseInv, Tick
  PROVE  CopiesInv'
<1> USE DEF LeaseInv
<1>1. /\ row'.leader = row.leader /\ row'.epoch = row.epoch
      /\ row'.left = Older(row.left) /\ row.left \in Lefts
  BY DEF Tick, TypeOK
<1>2. \A n \in Nodes :
        /\ lease'[n].epoch = lease[n].epoch /\ ans'[n].epoch = ans[n].epoch
        /\ lease'[n].left = Older(lease[n].left) /\ lease[n].left \in Lefts
        /\ ans'[n].left = Older(ans[n].left) /\ ans[n].left \in Lefts
  BY DEF Tick, TypeOK, Lease
<1>3. isLeader' = isLeader /\ \A n \in Nodes : Answered(n)' = Answered(n)
  BY DEF Tick, Answered
<1>4. ASSUME NEW a \in Lefts, NEW b \in Lefts, Older(a) > 0, a > 0 => a <= b
      PROVE  a > 0 /\ Older(a) <= Older(b)
  BY <1>4 DEF Older, Lefts
<1>5. HeldCovered' /\ HeldOwned'
  BY <1>1, <1>2, <1>3, <1>4 DEF HeldCovered, HeldOwned, Covered, Owned
<1>6. AnswerCovered' /\ AnswerOwned'
  BY <1>1, <1>2, <1>3, <1>4 DEF AnswerCovered, AnswerOwned, Covered, Owned
<1>7. AnswerDistinct' /\ AnswersDistinct' /\ EpochHasOneOwner'
  BY <1>2, <1>3 DEF AnswerDistinct, AnswersDistinct, EpochHasOneOwner
<1> QED BY <1>5, <1>6, <1>7 DEF CopiesInv

\* Every step keeps what a node that waits for an answer may hold.
LEMMA NextLoopInv == LeaseInv /\ [Next]_vars => LoopInv'
<1> SUFFICES ASSUME LeaseInv, [Next]_vars PROVE LoopInv'
  OBVIOUS
<1> USE DEF LeaseInv, LoopInv, TypeOK
<1>1. ASSUME NEW n \in Nodes, Start(n) PROVE LoopInv'
  BY <1>1 DEF Start
<1>2. ASSUME NEW n \in Nodes, RunTick(n) PROVE LoopInv'
  BY <1>2 DEF RunTick, Send, Lease, Lefts
<1>3. ASSUME NEW n \in Nodes, AcquireCoordinatorLease(n) PROVE LoopInv'
  BY <1>3 DEF AcquireCoordinatorLease
<1>4. ASSUME NEW n \in Nodes, RenewCoordinatorLease(n) PROVE LoopInv'
  BY <1>4 DEF RenewCoordinatorLease
<1>5. ASSUME NEW n \in Nodes, Apply(n) PROVE LoopInv'
  <2>1. req' = [req EXCEPT ![n] = "idle"] /\ up' = up /\ up[n]
    BY <1>5 DEF Apply
  <2>2. \A m \in Nodes : m # n => /\ isLeader'[m] = isLeader[m]
                                  /\ lease'[m] = lease[m] /\ age'[m] = age[m]
    BY <1>5 DEF Apply, StepDown
  <2> QED BY <2>1, <2>2
<1>6. ASSUME NEW n \in Nodes, LoseRequest(n) PROVE LoopInv'
  BY <1>6 DEF LoseRequest
<1>7. ASSUME NEW n \in Nodes, Stop(n) PROVE LoopInv'
  BY <1>7 DEF Stop
<1>8. ASSUME NEW n \in Nodes, Crash(n) PROVE LoopInv'
  BY <1>8 DEF Crash
<1>9. ASSUME NEW n \in Nodes, MutationStep(n) PROVE LoopInv'
  BY <1>9 DEF MutationStep, BeginMutation, RequireCoordinatorFence, Mutate,
              StepDown
<1>10. ASSUME Tick PROVE LoopInv'
  <2>1. \A n \in Nodes : req[n] = "renew" =>
          lease'[n].left <= LeaseDuration - age'[n]
    BY <1>10 DEF Tick, Lease, Lefts, Older
  <2> QED BY <1>10, <2>1 DEF Tick
<1>11. ASSUME UNCHANGED vars PROVE LoopInv'
  BY <1>11 DEF vars
<1> QED
  BY <1>1, <1>2, <1>3, <1>4, <1>5, <1>6, <1>7, <1>8, <1>9, <1>10, <1>11
  DEF Next, NodeStep, LoopStep

\* LeaseInv is inductive.
LEMMA NextLeaseInv == LeaseInv /\ [Next]_vars => LeaseInv'
<1> SUFFICES ASSUME LeaseInv, [Next]_vars PROVE CopiesInv'
  BY NextTypeOK, NextLoopInv DEF LeaseInv, CopiesInv
<1>1. ASSUME NEW n \in Nodes, Start(n) \/ RunTick(n) \/ LoseRequest(n)
                              \/ Crash(n) \/ MutationStep(n)
      PROVE  CopiesInv'
  <2>1. row' = row
    BY <1>1 DEF Start, RunTick, LoseRequest, Crash, MutationStep,
                BeginMutation, RequireCoordinatorFence, Mutate
  <2>2. \A m \in Nodes : isLeader'[m] => isLeader[m] /\ lease'[m] = lease[m]
    BY <1>1 DEF Start, RunTick, LoseRequest, Crash, MutationStep, LeaseInv,
                BeginMutation, RequireCoordinatorFence, Mutate, StepDown, TypeOK,
                LoopInv
  <2>3. \A m \in Nodes : Answered(m)' => Answered(m) /\ ans'[m] = ans[m]
    BY <1>1 DEF Start, RunTick, Send, LoseRequest, Crash, MutationStep, LeaseInv,
                BeginMutation, RequireCoordinatorFence, Mutate, TypeOK, Answered
  <2> QED BY <2>1, <2>2, <2>3, FewerCopies DEF LeaseInv, CopiesInv
<1>2. ASSUME UNCHANGED vars PROVE CopiesInv'
  <2>1. \A m \in Nodes : Answered(m)' = Answered(m)
    BY <1>2 DEF vars, Answered
  <2> QED BY <1>2, <2>1, FewerCopies DEF vars, LeaseInv, CopiesInv
<1> QED
  BY <1>1, <1>2, AcquireCopies, RenewCopies, ApplyCopies, StopCopies, TickCopies
  DEF Next, NodeStep, LoopStep

-----------------------------------------------------------------------------
\* The types of HACoordinator hold in every reachable state.
THEOREM TypeCorrect == Spec => []TypeOK
<1>1. LeaseInv => TypeOK
  BY DEF LeaseInv
<1> QED BY InitLeaseInv, NextLeaseInv, <1>1, PTL DEF Spec

\* At most one coordinator answers true to IsLeader, for every cluster.
THEOREM OneLeaderTheorem == Spec => []OneLeader
<1>1. LeaseInv => OneLeader
  BY DEF LeaseInv, HeldCovered, Covered, OneLeader, Leads
<1> QED BY InitLeaseInv, NextLeaseInv, <1>1, PTL DEF Spec

\* Two nodes that consider themselves leaders never hold the same epoch.
THEOREM EpochTheorem == Spec => []EpochHasOneOwner
<1>1. LeaseInv => EpochHasOneOwner
  BY DEF LeaseInv
<1> QED BY InitLeaseInv, NextLeaseInv, <1>1, PTL DEF Spec

\* Every takeover of the row raises the epoch, and happens when no node
\* believes it leads.
THEOREM TakeoverTheorem == Spec => TakeoverFences
<1> DEFINE Fences == /\ row'.epoch >= row.epoch
                     /\ row'.leader # row.leader =>
                            /\ row'.epoch > row.epoch
                            /\ \A n \in Nodes : ~Leads(n)
<1>1. LeaseInv /\ [Next]_vars => [Fences]_vars
  <2> SUFFICES ASSUME LeaseInv, [Next]_vars PROVE Fences \/ UNCHANGED vars
    OBVIOUS
  <2> USE DEF LeaseInv
  <2>1. row.epoch \in Int /\ row.left \in Int
    BY DEF TypeOK, Epochs, Lefts
  <2>2. ASSUME NEW n \in Nodes, AcquireCoordinatorLease(n) PROVE Fences
    <3>1. CASE row'.leader = row.leader
      BY <2>1, <2>2, <3>1 DEF AcquireCoordinatorLease, NextEpoch, TypeOK
    <3>2. CASE row'.leader # row.leader
      <4>1. row.leader # n /\ (row.leader = NoNode \/ ~Unexpired(n))
            /\ row'.epoch = row.epoch + 1
        BY <2>2, <3>2 DEF AcquireCoordinatorLease, NextEpoch
      <4>2. ASSUME NEW m \in Nodes, Leads(m) PROVE FALSE
        <5>1. row.leader = m /\ lease[m].left > 0 /\ lease[m].left <= row.left
          BY <4>2 DEF Leads, HeldCovered, Covered
        <5>2. lease[m].left \in Int /\ age[n] \in Nat
          BY DEF TypeOK, Lease, Lefts
        <5> QED BY <2>1, <4>1, <5>1, <5>2 DEF Unexpired
      <4> QED BY <2>1, <4>1, <4>2
    <3> QED BY <3>1, <3>2
  <2>3. ASSUME row'.leader = row.leader, row'.epoch = row.epoch PROVE Fences
    BY <2>1, <2>3
  <2>4. ASSUME NEW n \in Nodes, RenewCoordinatorLease(n) \/ Stop(n) \/ Tick
        PROVE  row'.leader = row.leader /\ row'.epoch = row.epoch
    BY <2>4 DEF RenewCoordinatorLease, Stop, Tick, TypeOK
  <2>5. ASSUME NEW n \in Nodes,
               \/ Start(n) \/ RunTick(n) \/ Apply(n) \/ LoseRequest(n)
               \/ Crash(n) \/ MutationStep(n)
        PROVE  row' = row
    BY <2>5 DEF Start, RunTick, Apply, LoseRequest, Crash, MutationStep,
                BeginMutation, RequireCoordinatorFence, Mutate
  <2>6. ASSUME Tick PROVE row'.leader = row.leader /\ row'.epoch = row.epoch
    BY <2>6 DEF Tick, TypeOK
  <2> HIDE DEF Fences
  <2> QED BY <2>2, <2>3, <2>4, <2>5, <2>6 DEF Next, NodeStep, LoopStep
<1> QED BY InitLeaseInv, NextLeaseInv, <1>1, PTL DEF Spec, TakeoverFences

\* Of a set with at most one member, Leader's choice is that member.
LEMMA ChoiceOfOne ==
  ASSUME NEW S, NEW n \in S, \A m \in S : m = n
  PROVE  (IF S = {} THEN NoNode ELSE CHOOSE m \in S : TRUE) = n
<1>1. (CHOOSE m \in S : TRUE) \in S
  OBVIOUS
<1> QED BY <1>1

\* A step that leaves leader and epoch of the row alone grants no term.
LEMMA SameTerm ==
  ASSUME LeaseInv, LeaseInv', row'.leader = row.leader, row'.epoch = row.epoch
  PROVE  [Abstract!Next]_Abstract!state
<1>1. \A n \in Leading : n \in Nodes /\ row.leader = n
  BY DEF Leading, Leads, LeaseInv, HeldCovered, Covered
<1>2. \A n \in Leading' : n \in Nodes /\ row.leader = n
  BY DEF Leading, Leads, LeaseInv, HeldCovered, Covered
<1>3. CASE Leading' = {}
  <2>1. Leader' = NoNode
    BY <1>3 DEF Leader
  <2> QED BY <2>1 DEF Abstract!Next, Abstract!Resign
<1>4. ASSUME NEW n \in Leading' PROVE [Abstract!Next]_Abstract!state
  <2>1. Leader' = n
    BY <1>2, <1>4, ChoiceOfOne DEF Leader
  <2>2. CASE Leading = {}
    <3>1. Leader = NoNode
      BY <2>2 DEF Leader
    <3> QED BY <1>2, <1>4, <2>1, <3>1 DEF Abstract!Next, Abstract!Lead
  <2>3. ASSUME NEW m \in Leading PROVE [Abstract!Next]_Abstract!state
    <3>1. m = n
      BY <1>1, <1>2, <1>4, <2>3
    <3>2. Leader = n
      BY <1>1, <2>3, <3>1, ChoiceOfOne DEF Leader
    <3> QED BY <2>1, <3>2 DEF Abstract!state
  <2> QED BY <2>2, <2>3
<1> QED BY <1>3, <1>4

\* The coordinators and their lease row implement Leadership, for every set of
\* nodes, every lease duration and any number of faults.
THEOREM LeadershipTheorem == Spec => ImplementsLeadership
<1>1. Init => Abstract!Init
  <2> SUFFICES ASSUME Init PROVE Abstract!Init
    OBVIOUS
  <2>1. Leading = {}
    BY DEF Init, Leading, Leads
  <2> QED BY <2>1 DEF Init, Abstract!Init, Leader
<1>2. LeaseInv /\ LeaseInv' /\ [Next]_vars => [Abstract!Next]_Abstract!state
  <2> SUFFICES ASSUME LeaseInv, LeaseInv', [Next]_vars PROVE [Abstract!Next]_Abstract!state
    OBVIOUS
  <2>1. ASSUME NEW n \in Nodes, AcquireCoordinatorLease(n), row.leader # n, row' # row
        PROVE  [Abstract!Next]_Abstract!state
    <3>1. /\ row.leader = NoNode \/ ~Unexpired(n)
          /\ row'.epoch = row.epoch + 1 /\ row'.leader = n
          /\ UNCHANGED <<isLeader, lease>>
      BY <2>1 DEF AcquireCoordinatorLease, NextEpoch
    <3>2. ASSUME NEW m \in Nodes, Leads(m) PROVE FALSE
      <4>1. row.leader = m /\ lease[m].left > 0 /\ lease[m].left <= row.left
        BY <3>2 DEF Leads, LeaseInv, HeldCovered, Covered
      <4>2. lease[m].left \in Int /\ row.left \in Int /\ age[n] \in Nat
        BY DEF LeaseInv, TypeOK, Lease, Lefts
      <4> QED BY NodesAssumption, <3>1, <4>1, <4>2 DEF Unexpired
    <3>3. Leading = {} /\ Leading' = {}
      BY <3>1, <3>2 DEF Leading, Leads
    <3>4. Leader = NoNode /\ Leader' = NoNode
      BY <3>3 DEF Leader
    <3> QED BY <2>1, <3>1, <3>4 DEF Abstract!Next, Abstract!Grant
  <2>2. ASSUME NEW n \in Nodes, AcquireCoordinatorLease(n), row.leader = n \/ row' = row
        PROVE  row'.leader = row.leader /\ row'.epoch = row.epoch
    BY <2>2 DEF AcquireCoordinatorLease, NextEpoch
  <2>3. ASSUME NEW n \in Nodes, RenewCoordinatorLease(n) \/ Stop(n) \/ Tick
        PROVE  row'.leader = row.leader /\ row'.epoch = row.epoch
    BY <2>3 DEF RenewCoordinatorLease, Stop, Tick, LeaseInv, TypeOK
  <2>4. ASSUME NEW n \in Nodes,
               \/ Start(n) \/ RunTick(n) \/ Apply(n) \/ LoseRequest(n)
               \/ Crash(n) \/ MutationStep(n)
        PROVE  row' = row
    BY <2>4 DEF Start, RunTick, Apply, LoseRequest, Crash, MutationStep,
                BeginMutation, RequireCoordinatorFence, Mutate
  <2>5. ASSUME Tick PROVE row'.leader = row.leader /\ row'.epoch = row.epoch
    BY <2>5 DEF Tick, LeaseInv, TypeOK
  <2>6. ASSUME UNCHANGED vars PROVE row' = row
    BY <2>6 DEF vars
  <2> QED BY SameTerm, <2>1, <2>2, <2>3, <2>4, <2>5, <2>6 DEF Next, NodeStep, LoopStep
<1>3. Spec => []LeaseInv
  BY InitLeaseInv, NextLeaseInv, PTL DEF Spec
<1> QED BY <1>1, <1>2, <1>3, PTL DEF Spec, ImplementsLeadership, Abstract!Spec
=============================================================================
