------------------------- MODULE EvidenceRetention -------------------------
(***************************************************************************)
(* Retention of scans and review of findings in the SQLite store: legal    *)
(* holds, the two purges, deletion of findings, review transitions with    *)
(* their audit trail, and scans that go on writing meanwhile.  The store   *)
(* has one connection, so each transaction is one step.                    *)
(***************************************************************************)
EXTENDS Naturals, Sequences, FiniteSets, Functions

CONSTANTS
  ScanRun,       \* scan identifiers
  ChildTable,    \* evidence tables besides findings
  Actor, NoActor,\* reviewers, and none
  MaxAge,        \* RetentionPolicy.MaxAge, in ticks of the clock
  MinScansKeep,  \* RetentionPolicy.MinScansKeep
  MaxTime,       \* bound: clock
  MaxFinding,    \* bound: findings ever stored
  MaxAudit       \* bound: entries of the review trail

ASSUME RetentionAssumption ==
  /\ NoActor \notin Actor
  /\ ChildTable \subseteq {"assets", "events", "checkpoints"}
  /\ {MaxAge, MinScansKeep, MaxTime, MaxFinding, MaxAudit} \subseteq Nat

VARIABLES
  started,   \* scan_runs: scan -> started_at, for the scans that have a row
  child,     \* scans with rows in assets, events and checkpoints, by table
  findings,  \* id -> row, for the findings that exist
  nextId,    \* AUTOINCREMENT of the findings table
  holds,     \* scan_legal_holds with enabled = 1
  audit,     \* finding_state_audit: id of a finding -> its entries, in order
  now

retentionVars == <<started, child, findings, nextId, holds, audit, now>>

States == {"open", "in_review", "confirmed", "false_positive", "accepted_risk", "remediated", "verified"}

Runs == DOMAIN started

(***************************************************************************)
(* A requested state may be written in capitals: validation folds case,    *)
(* the row stores what was sent, and the verifier is recorded only for the *)
(* lower-case spelling.  "Verified" stands for the other spellings of      *)
(* "verified"; those of the other states behave like the lower-case one.   *)
(***************************************************************************)
Spelling == States \cup {"Verified"}

ToLower(state) == IF state = "Verified" THEN "verified" ELSE state

Finding == [scan: ScanRun, review: Spelling, verifier: Actor \cup {NoActor}]

ValidTransitions ==
  [open           |-> {"in_review", "confirmed", "false_positive", "accepted_risk"},
   in_review      |-> {"confirmed", "false_positive", "accepted_risk", "open"},
   confirmed      |-> {"remediated", "accepted_risk", "in_review"},
   remediated     |-> {"verified", "open", "in_review"},
   false_positive |-> {"open", "in_review"},
   accepted_risk  |-> {"open", "in_review"},
   verified       |-> {"open"}]

ValidateFindingStateTransition(from, to) ==
  ToLower(from) = ToLower(to) \/ ToLower(to) \in ValidTransitions[ToLower(from)]

Drop(f, ids) == [x \in DOMAIN f \ ids |-> f[x]]

Entries == SumFunction([f \in DOMAIN audit |-> Len(audit[f])])

Put(f, x, v) == [y \in DOMAIN f \cup {x} |-> IF y = x THEN v ELSE f[y]]

----------------------------------------------------------------------------
(***************************************************************************)
(* Scans.  Resuming a scan keeps its started_at, so only a scan without a  *)
(* row gets one.  Evidence may come for any scan: one that runs, one whose *)
(* row a purge has deleted, or one that an import names.                   *)
(***************************************************************************)

RecordScan(s) ==
  /\ s \notin Runs
  /\ started' = Put(started, s, now)
  /\ UNCHANGED <<child, findings, nextId, holds, audit, now>>

AddEvidence(s, t) ==
  /\ child' = [child EXCEPT ![t] = @ \cup {s}]
  /\ UNCHANGED <<started, findings, nextId, holds, audit, now>>

\* Mutant: without AUTOINCREMENT the identifier of a deleted row is used again.
AddFindingReused(s) ==
  /\ \E id \in (1..MaxFinding) \ DOMAIN findings :
       /\ \A f \in DOMAIN findings : f < id
       /\ findings' = Put(findings, id, [scan |-> s, review |-> "open", verifier |-> NoActor])
  /\ UNCHANGED <<started, child, nextId, holds, audit, now>>

AddFinding(s) ==
  /\ nextId <= MaxFinding
  /\ findings' = Put(findings, nextId, [scan |-> s, review |-> "open", verifier |-> NoActor])
  /\ nextId' = nextId + 1
  /\ UNCHANGED <<started, child, holds, audit, now>>

\* DeleteFindings, from the dashboard.
DeleteFindings(ids) ==
  /\ ids # {}
  /\ findings' = Drop(findings, ids)
  /\ UNCHANGED <<started, child, nextId, holds, audit, now>>

----------------------------------------------------------------------------
(***************************************************************************)
(* Review: one transaction reads the state, validates the transition,      *)
(* updates the row and appends to the trail.                               *)
(***************************************************************************)

UpdateFindingReviewState(f, to, actor) ==
  /\ Entries < MaxAudit
  /\ f \in DOMAIN findings
  /\ ValidateFindingStateTransition(findings[f].review, to)
  /\ findings' = [findings EXCEPT ![f] = [scan |-> findings[f].scan, review |-> to,
                                          verifier |-> IF to = "verified" THEN actor ELSE NoActor]]
  /\ audit' = [audit EXCEPT ![f] = Append(@, [from |-> findings[f].review, to |-> to, actor |-> actor])]
  /\ UNCHANGED <<started, child, nextId, holds, now>>

\* The assignee, which nothing else reads, is left out; what remains is the entry
\* in the trail, a second statement whose error is ignored.
AssignFinding(f, actor) ==
  /\ Entries < MaxAudit
  /\ f \in DOMAIN findings
  /\ \/ audit' = [audit EXCEPT ![f] = Append(@, [from |-> "assigned", to |-> "assigned", actor |-> actor])]
     \/ UNCHANGED audit
  /\ UNCHANGED <<started, child, findings, nextId, holds, now>>

----------------------------------------------------------------------------
(***************************************************************************)
(* Retention.                                                              *)
(***************************************************************************)

SetLegalHold(s, hold) ==
  /\ holds' = IF hold THEN holds \cup {s} ELSE holds \ {s}
  /\ UNCHANGED <<started, child, findings, nextId, audit, now>>

Expired == {s \in Runs : started[s] + MaxAge < now}

FindingsOf(scans) == {f \in DOMAIN findings : findings[f].scan \in scans}

\* The rows of the tables in "failed" survive a delete whose error was ignored.
DeleteScans(scans, failed) ==
  /\ started' = Drop(started, scans)
  /\ child' = [t \in ChildTable |-> IF t \in failed THEN child[t] ELSE child[t] \ scans]
  /\ findings' = IF "findings" \in failed THEN findings ELSE Drop(findings, FindingsOf(scans))
  /\ UNCHANGED <<nextId, holds, audit, now>>

\* Mutant: held scans count as candidates.
EligibleHeld == Expired

Eligible == Expired \ holds

AllowedToPurge == IF Cardinality(Runs) > MinScansKeep THEN Cardinality(Runs) - MinScansKeep ELSE 0

\* The first AllowedToPurge candidates in order of started_at; equal times in
\* either order.
Selections ==
  {scans \in SUBSET Eligible :
     /\ Cardinality(scans) = IF Cardinality(Eligible) > AllowedToPurge THEN AllowedToPurge ELSE Cardinality(Eligible)
     /\ \A s \in scans, t \in Eligible \ scans : started[s] <= started[t]}

\* PurgeScansWithLifecycle.  A failing delete of assets, findings or scan_runs
\* dereferences a nil result, which rolls the transaction back; the errors of the
\* deletes of events and checkpoints are ignored.  The entry of purge_audit_log is
\* written in the same transaction and left out.
PurgeScansWithLifecycle ==
  /\ Eligible # {} /\ AllowedToPurge > 0
  /\ \E scans \in Selections, failed \in SUBSET (ChildTable \cap {"events", "checkpoints"}) :
       DeleteScans(scans, failed)

\* PurgeScansOlderThan consults neither the holds nor the purge log, and ignores
\* the errors of the four child deletes.
PurgeScansOlderThan ==
  /\ Expired # {}
  /\ \E failed \in SUBSET (ChildTable \cup {"findings"}) : DeleteScans(Expired, failed)

Tick ==
  /\ now < MaxTime
  /\ now' = now + 1
  /\ UNCHANGED <<started, child, findings, nextId, holds, audit>>

----------------------------------------------------------------------------

RetentionInit ==
  /\ started = <<>> /\ child = [t \in ChildTable |-> {}]
  /\ findings = <<>> /\ nextId = 1 /\ holds = {}
  /\ audit = [f \in 1..MaxFinding |-> <<>>] /\ now = 0

RetentionNext ==
  \/ \E s \in ScanRun :
       \/ RecordScan(s) \/ AddFinding(s)
       \/ \E t \in ChildTable : AddEvidence(s, t)
       \/ \E hold \in BOOLEAN : SetLegalHold(s, hold)
  \/ \E ids \in SUBSET DOMAIN findings : DeleteFindings(ids)
  \/ \E f \in DOMAIN findings, a \in Actor :
       \/ \E to \in Spelling : UpdateFindingReviewState(f, to, a)
       \/ AssignFinding(f, a)
  \/ PurgeScansWithLifecycle \/ PurgeScansOlderThan
  \/ Tick

RetentionSpec == RetentionInit /\ [][RetentionNext]_retentionVars

----------------------------------------------------------------------------
(***************************************************************************)
(* Properties.                                                             *)
(***************************************************************************)

\* Every variable has its type.
RetentionTypeOK ==
  /\ Runs \subseteq ScanRun /\ \A s \in Runs : started[s] \in 0..MaxTime
  /\ holds \subseteq ScanRun
  /\ child \in [ChildTable -> SUBSET ScanRun]
  /\ DOMAIN findings \subseteq 1..MaxFinding /\ \A f \in DOMAIN findings : findings[f] \in Finding
  /\ nextId \in 1..(MaxFinding + 1)
  /\ audit \in [1..MaxFinding -> Seq([from: Spelling \cup {"assigned"}, to: Spelling \cup {"assigned"}, actor: Actor])]
  /\ now \in 0..MaxTime

\* The entries of a finding's trail that record a review transition, and the last.
Reviews(f) == {i \in DOMAIN audit[f] : audit[f][i].to # "assigned"}

LastReview(f) == {i \in Reviews(f) : \A k \in Reviews(f) : k <= i}

\* The trail of every stored finding starts at open, leads without a gap to the
\* state the row has now, and every link is a transition the lifecycle allows:
\* reviewers, deletions and purges in between never give a finding a history
\* that is not its own (UpdateFindingReviewState, AUTOINCREMENT).
AuditChain ==
  \A f \in DOMAIN findings :
    /\ Reviews(f) = {} => findings[f].review = "open"
    /\ \A i \in LastReview(f) : findings[f].review = audit[f][i].to
    /\ \A i \in Reviews(f) :
         /\ ValidateFindingStateTransition(audit[f][i].from, audit[f][i].to)
         /\ (\A k \in Reviews(f) : i <= k) => audit[f][i].from = "open"
         /\ \A k \in Reviews(f) : k < i /\ Reviews(f) \cap ((k + 1)..(i - 1)) = {} => audit[f][i].from = audit[f][k].to

\* A finding that is verified was confirmed and then remediated, in that order,
\* since it was last open (ValidateFindingStateTransition).
VerifiedWasRemediated ==
  \A f \in DOMAIN findings : ToLower(findings[f].review) = "verified" =>
    \E i, j \in Reviews(f) :
      /\ i < j /\ audit[f][i].to = "confirmed" /\ audit[f][j].to = "remediated"
      /\ \A k \in Reviews(f) : i <= k => audit[f][k].to # "open"

\* The reviewer recorded as verifier of a finding is the actor of the last
\* transition of its trail, and only verified findings have one.
VerifierActed ==
  \A f \in DOMAIN findings :
    findings[f].verifier # NoActor =>
      /\ findings[f].review = "verified"
      /\ \E i \in LastReview(f) : audit[f][i].actor = findings[f].verifier

\* What a purge leaves, in terms of the scans it removes.
PurgedSafely ==
  LET gone == Runs \ DOMAIN started' IN
  /\ gone \cap holds = {}
  /\ \A t \in ChildTable : child[t] \cap holds \subseteq child'[t]
  /\ Cardinality(DOMAIN started') >= MinScansKeep
  /\ \A s \in gone, t \in (DOMAIN started') \ holds : started[t] + MaxAge < now => started[s] <= started[t]
  /\ \A t \in ChildTable \cap {"assets"} : gone \cap child'[t] = {}
  /\ \A f \in DOMAIN findings' : findings'[f].scan \notin gone

\* A lifecycle purge keeps every held scan with its evidence, keeps MinScansKeep
\* scans, removes no scan while it keeps an older eligible one, and leaves no asset
\* or finding of a removed scan (PurgeScansWithLifecycle).
LifecyclePurgeSafe == [][PurgeScansWithLifecycle => PurgedSafely]_retentionVars

\* Review of a finding, its trail and its verifier agree: AuditChain,
\* VerifiedWasRemediated and VerifierActed together.
ReviewTrailSound == RetentionTypeOK /\ AuditChain /\ VerifiedWasRemediated /\ VerifierActed

============================================================================
