--------------------------- MODULE HACoordinator ---------------------------
(***************************************************************************)
(* Active/passive coordinators of one cluster: HACoordinator               *)
(* (internal/scheduler/ha_coordinator.go) on each node, and the            *)
(* coordinator_leases row of internal/store/postgres_ha.go.                *)
(*                                                                         *)
(* Times are kept as what is left of them: a lease with LeaseUntil u is    *)
(* u - now, and a "now" sampled by a request before its transaction is the *)
(* age of that sample.  Tick moves all of them, so time is unbounded.      *)
(* Everything below -RenewInterval behaves alike and is kept there.        *)
(*                                                                         *)
(* The nodes are assumed to share a clock: the code compares its own       *)
(* time.Now with times other nodes wrote.                                  *)
(***************************************************************************)
EXTENDS Integers, FiniteSets

CONSTANTS Nodes,
          NoNode,         \* leader_id '' of the row before any election
          LeaseDuration,
          RenewInterval,  \* also the timeout of every lease request
          MaxEpoch,       \* bound: takeovers
          MaxFaults       \* bound: lost requests, lost answers and crashes

ASSUME NodesAssumption == NoNode \notin Nodes
ASSUME TimingAssumption == /\ LeaseDuration \in Nat
                           /\ RenewInterval \in Nat \ {0}
                           /\ RenewInterval < LeaseDuration
ASSUME LimitsAssumption == MaxEpoch \in Nat /\ MaxFaults \in Nat

VARIABLES
    row,       \* coordinator_leases: [leader, epoch, left]
    up,        \* the coordinator process of the node runs
    isLeader,  \* HACoordinator.isLeader
    lease,     \* HACoordinator.lease: [epoch, left]
    req,       \* where the node's election/renewal loop is
    age,       \* how long ago the request sampled time.Now
    ans,       \* the lease a request works on, then the one it returns
    mpc,       \* where the node's ExecuteFencedMutation call is
    mepoch,    \* the epoch of its activeLease
    faults     \* faults so far

vars == <<row, up, isLeader, lease, req, age, ans, mpc, mepoch, faults>>

\* "idle": between ticks; "acquire", "renew": request sent;
\* "acquired", "renewed": answered with a lease; "failed": with an error.
Reqs == {"idle", "acquire", "renew", "acquired", "renewed", "failed"}

Epochs == 0..MaxEpoch

Lefts == (-RenewInterval)..LeaseDuration

Lease == [epoch : Epochs, left : Lefts]

NoLease == [epoch |-> 0, left |-> -RenewInterval]

Init ==
    /\ row = [leader |-> NoNode, epoch |-> 0, left |-> -RenewInterval]
    /\ up = [n \in Nodes |-> FALSE]
    /\ isLeader = [n \in Nodes |-> FALSE]
    /\ lease = [n \in Nodes |-> NoLease]
    /\ req = [n \in Nodes |-> "idle"]
    /\ age = [n \in Nodes |-> 0]
    /\ ans = [n \in Nodes |-> NoLease]
    /\ mpc = [n \in Nodes |-> "idle"]
    /\ mepoch = [n \in Nodes |-> 0]
    /\ faults = 0

\* A lease request samples time.Now and goes out.
Send(n, kind) ==
    /\ req' = [req EXCEPT ![n] = kind]
    /\ age' = [age EXCEPT ![n] = 0]
    /\ ans' = [ans EXCEPT ![n] = lease[n]]

\* Start of a new process, after the old one has stopped or died: its first,
\* synchronous election attempt.
Start(n) ==
    /\ ~up[n]
    /\ up' = [up EXCEPT ![n] = TRUE]
    /\ lease' = [lease EXCEPT ![n] = NoLease]
    /\ req' = [req EXCEPT ![n] = "acquire"]
    /\ age' = [age EXCEPT ![n] = 0]
    /\ ans' = [ans EXCEPT ![n] = NoLease]
    /\ mpc' = [mpc EXCEPT ![n] = "idle"]
    /\ mepoch' = [mepoch EXCEPT ![n] = 0]
    /\ UNCHANGED <<row, isLeader, faults>>

\* The ticker of run fires: a leader renews, a standby campaigns.
RunTick(n) ==
    /\ up[n]
    /\ req[n] = "idle"
    /\ Send(n, IF isLeader[n] THEN "renew" ELSE "acquire")
    /\ UNCHANGED <<row, up, isLeader, lease, mpc, mepoch, faults>>

\* The row's lease as a request with this sample of time.Now sees it.
UnexpiredAhead(n) == row.left > age[n]
Unexpired(n)      == row.left > -age[n]

\* The lease_until such a request writes: now.Add(duration).
NewLeft(n)      == LeaseDuration - age[n]

\* The epoch it acquires: a takeover increments it.
NextEpochSame(n) == row.epoch
NextEpoch(n)     == IF row.leader = n THEN row.epoch ELSE row.epoch + 1

\* AcquireCoordinatorLease: one transaction on the locked row.
AcquireCoordinatorLease(n) ==
    /\ req[n] = "acquire"
    /\ IF row.leader # n /\ row.leader # NoNode /\ Unexpired(n)
       THEN /\ req' = [req EXCEPT ![n] = "failed"]
            /\ UNCHANGED <<row, ans>>
       ELSE LET e == NextEpoch(n) IN
            /\ e <= MaxEpoch
            /\ row' = [leader |-> n, epoch |-> e, left |-> NewLeft(n)]
            /\ ans' = [ans EXCEPT ![n] = [epoch |-> e, left |-> NewLeft(n)]]
            /\ req' = [req EXCEPT ![n] = "acquired"]
    /\ UNCHANGED <<up, isLeader, lease, age, mpc, mepoch, faults>>

\* RenewCoordinatorLease: the conditional update.
RenewCoordinatorLease(n) ==
    /\ req[n] = "renew"
    /\ IF row.leader = n /\ row.epoch = ans[n].epoch /\ Unexpired(n)
       THEN /\ row' = [row EXCEPT !.left = NewLeft(n)]
            /\ ans' = [ans EXCEPT ![n].left = NewLeft(n)]
            /\ req' = [req EXCEPT ![n] = "renewed"]
       ELSE /\ req' = [req EXCEPT ![n] = "failed"]
            /\ UNCHANGED <<row, ans>>
    /\ UNCHANGED <<up, isLeader, lease, age, mpc, mepoch, faults>>

\* The request times out or its answer is lost: the caller sees an error
\* whether or not the row was written.
LoseRequest(n) ==
    /\ req[n] \in {"acquire", "renew", "acquired", "renewed"}
    /\ faults < MaxFaults
    /\ faults' = faults + 1
    /\ req' = [req EXCEPT ![n] = "failed"]
    /\ UNCHANGED <<row, up, isLeader, lease, age, ans, mpc, mepoch>>

\* c.isLeader = false after an error.
StepDownNot(n) == UNCHANGED isLeader
StepDown(n)    == isLeader' = [isLeader EXCEPT ![n] = FALSE]

\* The loop applies the answer under mu.  A renewal does not set isLeader.
Apply(n) ==
    /\ \/ /\ req[n] = "acquired"
          /\ isLeader' = [isLeader EXCEPT ![n] = TRUE]
          /\ lease' = [lease EXCEPT ![n] = ans[n]]
       \/ /\ req[n] = "renewed"
          /\ lease' = [lease EXCEPT ![n] = ans[n]]
          /\ UNCHANGED isLeader
       \/ /\ req[n] = "failed"
          /\ StepDown(n)
          /\ UNCHANGED lease
    /\ req' = [req EXCEPT ![n] = "idle"]
    /\ age' = [age EXCEPT ![n] = 0]
    /\ UNCHANGED <<row, up, ans, mpc, mepoch, faults>>

\* Stop, once run has returned: step down and release a lease that is held.
\* A release that fails is ignored.
Stop(n) ==
    /\ up[n]
    /\ req[n] = "idle"
    /\ up' = [up EXCEPT ![n] = FALSE]
    /\ isLeader' = [isLeader EXCEPT ![n] = FALSE]
    /\ \/ /\ isLeader[n]
          /\ row.leader = n /\ row.epoch = lease[n].epoch
          /\ row' = [row EXCEPT !.left = 0]
          /\ UNCHANGED faults
       \/ /\ ~(isLeader[n] /\ row.leader = n /\ row.epoch = lease[n].epoch)
          /\ UNCHANGED <<row, faults>>
       \/ /\ isLeader[n]
          /\ faults < MaxFaults
          /\ faults' = faults + 1
          /\ UNCHANGED row
    /\ UNCHANGED <<lease, req, age, ans, mpc, mepoch>>

\* The process dies; a mutation it had sent dies with it.
Crash(n) ==
    /\ up[n]
    /\ faults < MaxFaults
    /\ faults' = faults + 1
    /\ up' = [up EXCEPT ![n] = FALSE]
    /\ isLeader' = [isLeader EXCEPT ![n] = FALSE]
    /\ lease' = [lease EXCEPT ![n] = NoLease]
    /\ req' = [req EXCEPT ![n] = "idle"]
    /\ age' = [age EXCEPT ![n] = 0]
    /\ ans' = [ans EXCEPT ![n] = NoLease]
    /\ mpc' = [mpc EXCEPT ![n] = "idle"]
    /\ mepoch' = [mepoch EXCEPT ![n] = 0]
    /\ UNCHANGED row

\* IsLeader(): what the node believes at this moment.
LeadsUntimed(n) == isLeader[n]
Leads(n) == isLeader[n] /\ lease[n].left > 0

\* ExecuteFencedMutation, first part: the local check and the snapshot.
BeginMutation(n) ==
    /\ mpc[n] = "idle"
    /\ Leads(n)
    /\ mpc' = [mpc EXCEPT ![n] = "fence"]
    /\ mepoch' = [mepoch EXCEPT ![n] = lease[n].epoch]
    /\ UNCHANGED <<row, up, isLeader, lease, req, age, ans, faults>>

\* RequireCoordinatorFence.  On an error the node steps down, whatever lease
\* it has by now.
RequireCoordinatorFence(n) ==
    /\ mpc[n] = "fence"
    /\ IF row.leader = n /\ row.epoch = mepoch[n] /\ row.left > 0
       THEN /\ mpc' = [mpc EXCEPT ![n] = "mutate"]
            /\ UNCHANGED isLeader
       ELSE /\ mpc' = [mpc EXCEPT ![n] = "idle"]
            /\ StepDown(n)
    /\ UNCHANGED <<row, up, lease, req, age, ans, mepoch, faults>>

\* mutation(ctx, activeLease): a statement of its own in the datastore.
Mutate(n) ==
    /\ mpc[n] = "mutate"
    /\ mpc' = [mpc EXCEPT ![n] = "idle"]
    /\ UNCHANGED <<row, up, isLeader, lease, req, age, ans, mepoch, faults>>

Older(l) == IF l > -RenewInterval THEN l - 1 ELSE l

\* Time passes.  A request that samples time.Now is over, one way or the
\* other, within RenewInterval: that is its context's timeout.
Tick ==
    /\ \A n \in Nodes : req[n] # "idle" => age[n] < RenewInterval
    /\ row' = [row EXCEPT !.left = Older(@)]
    /\ lease' = [n \in Nodes |-> [lease[n] EXCEPT !.left = Older(@)]]
    /\ ans' = [n \in Nodes |-> [ans[n] EXCEPT !.left = Older(@)]]
    /\ age' = [n \in Nodes |-> IF req[n] = "idle" THEN 0 ELSE age[n] + 1]
    /\ UNCHANGED <<up, isLeader, req, mpc, mepoch, faults>>

LoopStep(n) == \/ RunTick(n) \/ AcquireCoordinatorLease(n)
               \/ RenewCoordinatorLease(n) \/ Apply(n)

MutationStep(n) == BeginMutation(n) \/ RequireCoordinatorFence(n) \/ Mutate(n)

NodeStep(n) == \/ Start(n) \/ LoopStep(n) \/ LoseRequest(n) \/ Stop(n)
               \/ Crash(n) \/ MutationStep(n)

Next == (\E n \in Nodes : NodeStep(n)) \/ Tick

Spec == Init /\ [][Next]_vars

-----------------------------------------------------------------------------
\* Every variable has its type.
TypeOK ==
    /\ row \in [leader : Nodes \cup {NoNode}, epoch : Epochs, left : Lefts]
    /\ up \in [Nodes -> BOOLEAN]
    /\ isLeader \in [Nodes -> BOOLEAN]
    /\ lease \in [Nodes -> Lease]
    /\ req \in [Nodes -> Reqs]
    /\ age \in [Nodes -> 0..RenewInterval]
    /\ ans \in [Nodes -> Lease]
    /\ mpc \in [Nodes -> {"idle", "fence", "mutate"}]
    /\ mepoch \in [Nodes -> Epochs]
    /\ faults \in 0..MaxFaults

\* No two coordinators both answer true to IsLeader, whatever requests time
\* out, answers are lost, or processes stop, crash and come back.
OneLeader == \A m, n \in Nodes : Leads(m) /\ Leads(n) => m = n

\* A fencing token belongs to one node: two nodes that consider themselves
\* leaders, even out of date, never hold the same epoch.
EpochHasOneOwner ==
    \A m, n \in Nodes :
        /\ isLeader[m] /\ isLeader[n]
        /\ lease[m].epoch = lease[n].epoch
        => m = n

\* "Every takeover increments Epoch": the row changes hands only to a higher
\* epoch, and never from a node that still believes it leads.
TakeoverFences ==
    [][ /\ row'.epoch >= row.epoch
        /\ row'.leader # row.leader =>
               /\ row'.epoch > row.epoch
               /\ \A n \in Nodes : ~Leads(n) ]_vars

\* The node that leads, if one does.
Leading == {n \in Nodes : Leads(n)}
Leader == IF Leading = {} THEN NoNode ELSE CHOOSE n \in Leading : TRUE

Abstract == INSTANCE Leadership WITH leader <- Leader, term <- row.epoch, owner <- row.leader

\* Nodes and row implement Leadership: terms are granted one at a time, by the
\* row and only while nobody leads, and a node leads, for the first time or
\* again after a lost answer or a late renewal, only in a term that is its own
\* and still the current one (AcquireCoordinatorLease, run, IsLeader).
ImplementsLeadership == Abstract!Spec

-----------------------------------------------------------------------------
(* The inductive strengthening of OneLeader and EpochHasOneOwner: every    *)
(* copy of a lease that is in use, or on its way back to the loop, is tied *)
(* to the row.                                                             *)

\* A copy of the lease that has not expired is the row's, and the row's
\* expires no earlier.
Covered(n, c) == c.left > 0 => /\ row.leader = n
                               /\ row.epoch = c.epoch
                               /\ c.left <= row.left

\* A copy with the row's epoch belongs to the row's leader.
Owned(n, c) == /\ c.epoch <= row.epoch
               /\ c.epoch = row.epoch => row.leader = n

Answered(n) == req[n] \in {"acquired", "renewed"}

HeldCovered     == \A n \in Nodes : isLeader[n] => Covered(n, lease[n])
AnswerCovered   == \A n \in Nodes : Answered(n) => Covered(n, ans[n])
HeldOwned       == \A n \in Nodes : isLeader[n] => Owned(n, lease[n])
AnswerOwned     == \A n \in Nodes : Answered(n) => Owned(n, ans[n])

\* An epoch in an answer is not another leader's epoch.
AnswerDistinct  ==
    \A m, n \in Nodes : /\ isLeader[m] /\ Answered(n)
                        /\ lease[m].epoch = ans[n].epoch
                        => m = n
AnswersDistinct ==
    \A m, n \in Nodes : /\ Answered(m) /\ Answered(n)
                        /\ ans[m].epoch = ans[n].epoch
                        => m = n

\* What a node that waits for an answer may hold.
LoopInv ==
    \A n \in Nodes :
        /\ ~up[n] => ~isLeader[n] /\ req[n] = "idle"
        /\ req[n] \in {"acquire", "acquired"} => ~isLeader[n]
        /\ req[n] = "renew" => lease[n].left <= LeaseDuration - age[n]

LeaseInv == /\ TypeOK /\ LoopInv
            /\ HeldCovered /\ AnswerCovered /\ HeldOwned /\ AnswerOwned
            /\ AnswerDistinct /\ AnswersDistinct /\ EpochHasOneOwner

-----------------------------------------------------------------------------
\* The processes run, clocks advance and the database answers; a node that
\* is down is started again by its supervisor (deployment is external).
FairSpec == /\ Spec
            /\ WF_vars(Tick)
            /\ \A n \in Nodes : /\ WF_vars(LoopStep(n))
                                /\ WF_vars(Start(n))

\* Failover: again and again some node leads, as long as nodes stop only
\* finitely often and takeovers stay within the bound.
Failover == \/ []<>(\E n \in Nodes : Leads(n))
            \/ []<>(\E n \in Nodes : ~up[n])
            \/ <>[](row.epoch = MaxEpoch)
=============================================================================
