---------------------------- MODULE MCApiServer ----------------------------
(***************************************************************************)
(* Instances of ApiServer: files written by hand that meet each branch of  *)
(* Load, wizard inputs for a narrow and a wide profile, and requests in    *)
(* and out of scope.                                                       *)
(***************************************************************************)
EXTENDS ApiServer, TLC

CONSTANTS net, host, other, home

MCTarget == {net, host, other, home}
MCCover == (net :> {net, host}) @@ (host :> {host}) @@ (other :> {other}) @@ (home :> {home})

Scoped == ("scope.allowed_targets" :> {net}) @@ ("scope.authorization" :> "AUTH-1") @@ ("scan.targets" :> {net})
Guarded == Scoped @@ ("api.require_auth" :> TRUE)

\* A file with nothing but the scope, the template with its placeholder, one whose profile is narrower than its
\* explicit settings, one with a custom profile, one for a server that needs tokens.
MCHandFile ==
  {Scoped, ("scope.authorization" :> "REPLACE_WITH_AUTHORIZATION") @@ Scoped,
   Scoped @@ ("scan.profile" :> "k8s") @@ ("scheduler.concurrency" :> 12) @@ ("scheduler.min_concurrency" :> 11)
          @@ ("portscan.enable_raw_scanning" :> TRUE) @@ ("portscan.decoy_ips" :> {}),
   Scoped @@ ("scan.custom_profile" :> "narrow") @@ ("http.enable_crawler" :> FALSE),
   Guarded}

MCEdit ==
  {[key |-> "scan.custom_profile", value |-> "typo"], [key |-> "scan.targets", value |-> {other}],
   [key |-> "active_testing.enabled", value |-> TRUE]}

MCInput == [target: {host}, profile: {"empty", "quick", "all"}, authorization: {"AUTH-1"}]
             \cup [target: {host}, profile: {"nope"}, authorization: {"AUTH-1", "empty"}]

MCAsked == [target: {host}, profile: {"empty", "compliance", "nope"}] \cup [target: {other}, profile: {"empty"}]

----------------------------------------------------------------------------
(***************************************************************************)
(* Breadth and depth.  Every file, edit and wizard input meets every       *)
(* request and one scan.  Two requests meet at the servers that loaded the *)
(* plain file or the one that needs tokens.  For the event stream, whose   *)
(* hazards are in scans that overlap, there are three requests and two     *)
(* scans, under one name or under two.                                     *)
(***************************************************************************)
CONSTANTS first   \* the name of a scan that is alone

Heard(c) == chan[c].buf \o chan[c].got

OneScan ==
  /\ Len(runs) <= 1 /\ \A n \in DOMAIN runs : runs[n].id = first
  /\ \A c \in Slot : \A i \in DOMAIN Heard(c) : Heard(c)[i].scan = first

Broad == served <= 1 \/ (served = 2 /\ edits = 0 /\ loaded \in {Scoped, Guarded})

Overlap ==
  /\ loaded = Scoped /\ edits = 0 /\ IdentityInit
  /\ \A c \in Slot : req[c].kind \in {"run", "control"}
  /\ \A e \in effects \cup audit : e.kind \in {"run", "control"}
  /\ \A n \in DOMAIN runs : runs[n].cfg.scan.profile = cfg.scan.profile

MCSpec == Init /\ [][Next /\ ((OneScan /\ Broad) \/ Overlap)']_vars

Connections == Permutations(Slot)

============================================================================
