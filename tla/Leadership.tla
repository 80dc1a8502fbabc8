----------------------------- MODULE Leadership -----------------------------
(***************************************************************************)
(* What the high-availability coordinators promise together: a sequence of *)
(* terms, each granted to one node while nobody leads, in which only that  *)
(* node leads, perhaps with interruptions.  The term is the fencing epoch. *)
(***************************************************************************)
EXTENDS Integers

CONSTANTS Nodes, NoNode

VARIABLES leader,  \* who leads at this moment, or NoNode
          term,    \* number of the current term
          owner    \* the node it was granted to

state == <<leader, term, owner>>

Init == leader = NoNode /\ term = 0 /\ owner = NoNode

\* A new term begins, of a node other than the last one.
Grant(n) ==
    /\ leader = NoNode /\ owner # n
    /\ term' = term + 1 /\ owner' = n
    /\ UNCHANGED leader

\* The term's node takes, or takes up again, the lead.
Lead(n) ==
    /\ leader = NoNode /\ owner = n
    /\ leader' = n
    /\ UNCHANGED <<term, owner>>

Resign ==
    /\ leader' = NoNode
    /\ UNCHANGED <<term, owner>>

Next == Resign \/ \E n \in Nodes : Grant(n) \/ Lead(n)

Spec == Init /\ [][Next]_state
=============================================================================
