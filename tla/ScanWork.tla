------------------------------ MODULE ScanWork ------------------------------
(***************************************************************************)
(* What a scan promises: its targets call for work, work that is done may  *)
(* call for more, nothing else is ever done, and nothing after the scan    *)
(* has reported.  The first attempt reports success only when all that was *)
(* called for is done; one that resumes an earlier scan may have lost what *)
(* that one was told, and promises the rest.                               *)
(***************************************************************************)
EXTENDS Integers

CONSTANTS Initial,  \* the work that the targets call for
          Leads     \* pairs of a piece of work and the work it calls for

VARIABLES attempt,  \* how often the scan was started
          called,   \* work called for so far
          handled,  \* work done so far
          verdict   \* what the present attempt has reported, or "none"

state == <<attempt, called, handled, verdict>>

Init == attempt = 0 /\ called = {} /\ handled = {} /\ verdict = "none"

\* The scan is started, for the first time or again, or cannot be.
Begin ==
    /\ attempt' = attempt + 1
    /\ verdict' \in {"none", "error"}
    /\ UNCHANGED <<called, handled>>

CallTargets ==
    /\ verdict = "none"
    /\ called' = called \cup Initial
    /\ UNCHANGED <<attempt, handled, verdict>>

Handle(step) ==
    /\ verdict = "none"
    /\ step[1] \in called
    /\ handled' = handled \cup {step[1]}
    /\ called' = called \cup step[2]
    /\ UNCHANGED <<attempt, verdict>>

\* An attempt reports once.
Report(v) ==
    /\ verdict = "none"
    /\ v = "ok" /\ attempt = 1 => called \subseteq handled
    /\ verdict' = v
    /\ UNCHANGED <<attempt, called, handled>>

Next == \/ Begin \/ CallTargets
        \/ \E step \in Leads : Handle(step)
        \/ \E v \in {"ok", "error"} : Report(v)

Spec == Init /\ [][Next]_state
=============================================================================
