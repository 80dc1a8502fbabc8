------------------------------ MODULE MCAgents ------------------------------
(***************************************************************************)
(* The agents' requests: AgentAuth, which lets each signed request through *)
(* at most once, and DistributedJobs, whose steps are the requests it has  *)
(* let through.  AgentAuth is in minutes: the code's window of 2 and       *)
(* retention of 5.                                                         *)
(***************************************************************************)
EXTENDS AgentAuth, DistributedJobs, TLC

AgentsSymmetry == Permutations(Handlers) \cup Permutations(Agents)

\* The two share no variable and no property relates one to the other: every
\* state of either is reached while the other is in one of its initial states,
\* and only those behaviours are explored.
AuthAtStart == clock = 0 /\ \A x \in Nonces : signed[x] = -1
JobsAtStart == JobsInit

MCInit == Init /\ JobsInit

MCNext ==
    \/ /\ AuthAtStart /\ req = [h \in Handlers |-> CHOOSE x \in Nonces : TRUE]
       /\ JobsNext /\ UNCHANGED vars
    \/ JobsAtStart /\ Next /\ UNCHANGED jobsVars

MCSpec == MCInit /\ [][MCNext]_<<vars, jobsVars>>
=============================================================================
