----------------------------- MODULE MCWorkers -----------------------------
(***************************************************************************)
(* The worker goroutines of a scan: what they do with events (Scheduler,   *)
(* in the instance of MCScheduler) and how many of them there are          *)
(* (AdaptiveWorkers).                                                      *)
(***************************************************************************)
EXTENDS MCScheduler, AdaptiveWorkers

\* The two share no variable and no property relates one to the other: every
\* state of either is reached while the other is in its initial state, and
\* only those behaviours are explored.  Goroutines are alike, so it does not
\* matter which of them are the first.  Symmetry in Workers leaves AllExit
\* alone: the queues of the pool close only while the scheduler is in its
\* initial state, which every permutation of Workers maps to itself.
First == CHOOSE first \in SUBSET Slots : Cardinality(first) = minConcurrency

PoolAtStart == PoolInit /\ \A s \in First : goroutine[s] = "idle"

MCInit == Init /\ PoolAtStart

MCNext == \/ PoolAtStart /\ Next /\ UNCHANGED poolVars
          \/ Init /\ PoolNext /\ UNCHANGED vars

MCSpec == MCInit /\ [][MCNext]_<<vars, poolVars>> /\ PoolFairness
============================================================================
