---------------------------- MODULE MCScheduler ----------------------------
(***************************************************************************)
(* Instances of Scheduler for TLC.  One target is discovered; discovery    *)
(* reports the same host twice (as it does for a name and for its DNS      *)
(* answer), which are two events for the deduper and one checkpoint key;   *)
(* the host leads to a service, the service to a URL without a consumer    *)
(* and back to a host already known.  All three queues are used.  The data *)
(* of the service event, a banner, holds a ";" and reads back cut short.   *)
(***************************************************************************)
EXTENDS Scheduler, TLC

Ev(ty, tg, d) == [type |-> ty, target |-> tg, data |-> d]

T1 == Ev("target.discovered", "a", "")
T2 == Ev("target.discovered", "b", "")
H1 == Ev("host.discovered", "a", "")
H2 == Ev("host.discovered", "a", "dns")
S1 == Ev("service.fingerprinted", "a", "x;y")
S2 == Ev("service.fingerprinted", "a", "x")
U1 == Ev("http.url", "u", "")

MCEvents == {T1, T2, H1, H2, S1, S2, U1}
MCTargets == <<T1>>
MCModules == <<"discovery", "portscan", "service">>
MCSubscriptions == [discovery |-> {"target.discovered"},
                    portscan  |-> {"host.discovered"},
                    service   |-> {"service.fingerprinted", "target.discovered"}]

MCEmits ==
    [m \in Range(MCModules) |-> [e \in MCEvents |->
        CASE m = "discovery" -> <<H1, H2>>
          [] m = "portscan"  -> <<S1>>
          [] m = "service"   -> IF e \in {S1, S2} THEN <<U1, H1>> ELSE <<>>]]

\* Two modules, for the runs with restarts: still two hosts with one checkpoint
\* key, a host that comes back and a banner, which now has no consumer.
ShortModules == <<"discovery", "portscan">>
RestartEmits ==
    [m \in Range(ShortModules) |-> [e \in MCEvents |->
        IF m = "discovery" THEN <<H1, H2>> ELSE <<S1, H1>>]]

\* A short chain, for the run with a crash.
ShortEmits ==
    [m \in Range(ShortModules) |-> [e \in MCEvents |->
        IF m = "discovery" THEN <<H1>> ELSE <<>>]]

MCReload == [[e \in MCEvents |-> e] EXCEPT ![S1] = S2]

WorkerSymmetry == Permutations(Workers)
=============================================================================
