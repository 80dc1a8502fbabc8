----------------------------- MODULE MCEvidence -----------------------------
(***************************************************************************)
(* The evidence database: EvidenceStore, with two processes that run       *)
(* commands one after the other on the database file, and                  *)
(* EvidenceRetention, with two scans of different age, a finding and a     *)
(* reviewer.                                                               *)
(***************************************************************************)
EXTENDS EvidenceStore, EvidenceRetention, TLC

EvidenceSymmetry == Permutations(Proc) \cup Permutations(Key) \cup Permutations(ScanRun)

\* The two share no variable and no property relates one to the other: every
\* state of either is reached while the other is in its initial state, and only
\* those behaviours are explored.
MCNext ==
  \/ RetentionInit /\ Next /\ UNCHANGED retentionVars
  \/ Init /\ RetentionNext /\ UNCHANGED vars

MCInit == Init /\ RetentionInit

MCSpec == MCInit /\ [][MCNext]_<<vars, retentionVars>>
=============================================================================
