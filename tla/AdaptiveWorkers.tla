-------------------------- MODULE AdaptiveWorkers --------------------------
(***************************************************************************)
(* The worker goroutines of a scan with adaptive workers enabled:          *)
(* AdaptiveWorkerPool (internal/scheduler/adaptive_pool.go) decides a      *)
(* desired number from module latencies, and recordModuleLatency,          *)
(* spawnWorker, reserveAdaptiveRetirement and workerExited                 *)
(* (internal/scheduler/scheduler.go) move the number of goroutines there.  *)
(*                                                                         *)
(* The pool and the live-worker count have different mutexes, so reading   *)
(* the desired number, comparing it with the live count and every single   *)
(* spawn are separate steps of a worker.  What the events are does not     *)
(* matter here: an idle worker may always receive one until the queues are *)
(* closed.                                                                 *)
(*                                                                         *)
(* A worker also returns when waitForScanResume fails, before an event or  *)
(* before a module, on a status lookup that fails or a cancelled scan.     *)
(* workerExited runs on every way out and cannot tell them apart.          *)
(***************************************************************************)
EXTENDS Integers, FiniteSets

CONSTANTS Slots,           \* bound: goroutines that can exist at once
          minConcurrency,  \* after the clamping of EnableAdaptiveWorkers
          maxConcurrency,  \* Scheduler.concurrency
          MaxLost          \* bound: workers that return on an error

ASSUME PoolAssumption == /\ IsFiniteSet(Slots)
                         /\ minConcurrency \in Nat \ {0}
                         /\ maxConcurrency \in Nat
                         /\ MaxLost \in Nat
                         /\ minConcurrency <= maxConcurrency
                         /\ maxConcurrency <= Cardinality(Slots)

VARIABLES
    current,             \* AdaptiveWorkerPool.current
    liveWorkers,         \* under workerMu
    pendingRetirements,  \* under workerMu
    goroutine,           \* where each goroutine is
    desired,             \* its local, later the spawns left
    closing,             \* the queues are closed, workers drain
    lost                 \* history: workers that returned on an error

poolVars == <<current, liveWorkers, pendingRetirements, goroutine, desired,
              closing, lost>>

\* "off": no goroutine; "idle", "module": in waitForScanResume or past it, in
\* nextEvent or in a Handle; "desire", "compare", "spawn": in
\* recordModuleLatency; "finish", "reserve": in reserveAdaptiveRetirement;
\* "retire", "failed": decided to return, about to run workerExited.
GoroutineStates == {"off", "idle", "module", "desire", "compare", "spawn",
                    "finish", "reserve", "retire", "failed"}

Running == {s \in Slots : goroutine[s] # "off"}

Becomes(s, l) == goroutine' = [goroutine EXCEPT ![s] = l]

\* Run spawns as many workers as the pool starts with, its minimum.
PoolInit ==
    /\ current = minConcurrency
    /\ liveWorkers = minConcurrency
    /\ pendingRetirements = 0
    /\ \E first \in SUBSET Slots :
          /\ Cardinality(first) = minConcurrency
          /\ goroutine = [s \in Slots |-> IF s \in first THEN "idle" ELSE "off"]
    /\ desired = [s \in Slots |-> 0]
    /\ closing = FALSE
    /\ lost = 0

\* nextEvent returns an event with at least one subscribed module.
TakeEvent(s) ==
    /\ goroutine[s] = "idle"
    /\ ~closing
    /\ Becomes(s, "module")
    /\ UNCHANGED <<current, liveWorkers, pendingRetirements, desired, closing, lost>>

\* waitForScanResume returns an error before an event or before a module and
\* the worker returns, whatever its event still has to do.
GiveUp(s) ==
    /\ goroutine[s] \in {"idle", "module"}
    /\ lost < MaxLost
    /\ lost' = lost + 1
    /\ Becomes(s, "failed")
    /\ UNCHANGED <<current, liveWorkers, pendingRetirements, desired, closing>>

\* Where RecordLatency may move current, inside the pool's bounds.
Adjusted == {c \in {current - 1, current, current + 1} :
                minConcurrency <= c /\ c <= maxConcurrency}

\* Handle returns; RecordLatency moves current by at most one inside its
\* bounds.  Any window of latencies, hence any direction, is possible.
RecordLatency(s) ==
    /\ goroutine[s] = "module"
    /\ current' \in Adjusted
    /\ Becomes(s, "desire")
    /\ UNCHANGED <<liveWorkers, pendingRetirements, desired, closing, lost>>

\* desired := s.adaptive.Concurrency(), in either function.
ReadDesired(s) ==
    /\ \/ goroutine[s] = "desire" /\ Becomes(s, "compare")
       \/ goroutine[s] = "finish" /\ Becomes(s, "reserve")
    /\ desired' = [desired EXCEPT ![s] = current]
    /\ UNCHANGED <<current, liveWorkers, pendingRetirements, closing, lost>>

\* additional := desired - s.liveWorkers, under workerMu.
Compare(s) ==
    /\ goroutine[s] = "compare"
    /\ desired' = [desired EXCEPT ![s] = @ - liveWorkers]
    /\ Becomes(s, "spawn")
    /\ UNCHANGED <<current, liveWorkers, pendingRetirements, closing, lost>>

\* One turn of the spawn loop, outside workerMu: two workers may each fill the
\* same gap, beyond maxConcurrency.  spawnWorker counts the new goroutine
\* before it starts.  The worker then goes on to its next module or
\* has finished its event.
SpawnOrContinue(s) ==
    /\ goroutine[s] = "spawn"
    /\ \/ /\ desired[s] > 0
          /\ \E new \in Slots \ Running :
                goroutine' = [goroutine EXCEPT ![new] = "idle"]
          /\ liveWorkers' = liveWorkers + 1
          /\ desired' = [desired EXCEPT ![s] = @ - 1]
       \/ /\ desired[s] <= 0
          /\ \E l \in {"module", "finish"} : Becomes(s, l)
          /\ desired' = [desired EXCEPT ![s] = 0]
          /\ UNCHANGED liveWorkers
    /\ UNCHANGED <<current, pendingRetirements, closing, lost>>

\* Whether a worker with this desired number is still needed.
StillNeededNow(s) == liveWorkers <= desired[s]
StillNeeded(s)    == liveWorkers - pendingRetirements <= desired[s]

\* The locked part of reserveAdaptiveRetirement.
reserveAdaptiveRetirement(s) ==
    /\ goroutine[s] = "reserve"
    /\ IF StillNeeded(s)
       THEN /\ Becomes(s, "idle")
            /\ UNCHANGED pendingRetirements
       ELSE /\ Becomes(s, "retire")
            /\ pendingRetirements' = pendingRetirements + 1
    /\ desired' = [desired EXCEPT ![s] = 0]
    /\ UNCHANGED <<current, liveWorkers, closing, lost>>

\* "if x > 0 { x-- }".
DecrementedLate(x) == IF x > 1 THEN x - 1 ELSE x
Decremented(x)     == IF x > 0 THEN x - 1 ELSE 0

\* The ways out of the worker's loop: retired, failed, or the queues closed.
ExitsRetired(s) == goroutine[s] = "retire"
Exits(s)        == \/ goroutine[s] \in {"retire", "failed"}
                   \/ closing /\ goroutine[s] = "idle"

\* workerExited, the same for all of them: also a failed worker takes back a
\* retirement that another one has reserved.
workerExited(s) ==
    /\ Exits(s)
    /\ liveWorkers' = Decremented(liveWorkers)
    /\ pendingRetirements' = Decremented(pendingRetirements)
    /\ Becomes(s, "off")
    /\ UNCHANGED <<current, desired, closing, lost>>

\* Run closes the queues once no event is left: no worker holds one.
Close ==
    /\ ~closing
    /\ \A s \in Slots : goroutine[s] \in {"off", "idle", "finish", "reserve", "retire", "failed"}
    /\ closing' = TRUE
    /\ UNCHANGED <<current, liveWorkers, pendingRetirements, goroutine, desired, lost>>

\* workers.Wait has returned.
Done == closing /\ Running = {} /\ UNCHANGED poolVars

Step(s) == \/ TakeEvent(s) \/ GiveUp(s) \/ RecordLatency(s) \/ ReadDesired(s) \/ Compare(s)
           \/ SpawnOrContinue(s) \/ reserveAdaptiveRetirement(s)
           \/ workerExited(s)

PoolNext == (\E s \in Slots : Step(s)) \/ Close \/ Done

PoolSpec == PoolInit /\ [][PoolNext]_poolVars

\* A worker past its queue, or at closed queues, can go on by itself; whether
\* an idle one gets an event is up to the scan.
Proceeds(s) == (goroutine[s] # "idle" \/ closing) /\ Step(s)

PoolFairness == \A s \in Slots : WF_poolVars(Proceeds(s))

-----------------------------------------------------------------------------
\* Every variable has its type.
PoolTypeOK ==
    /\ current \in minConcurrency..maxConcurrency
    /\ liveWorkers \in Nat
    /\ pendingRetirements \in Nat
    /\ goroutine \in [Slots -> GoroutineStates]
    /\ desired \in [Slots -> Int]
    /\ closing \in BOOLEAN
    /\ lost \in 0..MaxLost

Retiring == {s \in Slots : goroutine[s] = "retire"}
Failed   == {s \in Slots : goroutine[s] = "failed"}

\* The counters under workerMu stay sound although workerExited runs on every
\* way out: as many live workers as goroutines, never more retirements
\* counted than workers retiring, and none missing but the ones that failed
\* workers took with them.
CountersSound ==
    /\ liveWorkers = Cardinality(Running)
    /\ pendingRetirements <= Cardinality(Retiring)
    /\ ~closing => Cardinality(Retiring) + Cardinality(Failed)
                       <= pendingRetirements + lost

\* Scaling down never strands the scan: until the queues are closed at least
\* minConcurrency workers go on, less those lost to errors, however many
\* finish their events at once and although every lost worker may have taken
\* back another's retirement.
MinimumKept ==
    ~closing => Cardinality(Running \ (Retiring \cup Failed)) + lost
                    >= minConcurrency

\* Closing the queues ends every worker.
AllExit == closing ~> Running = {}
=============================================================================
