------------------------- MODULE MCPluginLifecycle -------------------------
(***************************************************************************)
(* Instance of PluginLifecycle: two installers, two versions that may be   *)
(* published with either of two bodies: a Lua script that may write        *)
(* evidence and a gRPC plugin that may not.  The later version is 10.10.0  *)
(* to the earlier one's 1.0.0, two characters longer.                      *)
(***************************************************************************)
EXTENDS PluginLifecycle, TLC

CONSTANTS reader, writer

MCBody == {reader, writer}
MCWrites == {writer}
MCGrpc == {reader}
MCLength == [v \in Version |-> IF v = 1 THEN 5 ELSE 7]

Installers == Permutations(Installer)

(***************************************************************************)
(* Marketplace and hot-reload manager share no variable, and no property   *)
(* relates one to the other.  Every state of either is therefore reached   *)
(* while the other is still in its initial state, and only those           *)
(* behaviours are explored.                                                *)
(***************************************************************************)
MCNext ==
  \/ stages = <<>> /\ Market
  \/ published = {} /\ HotReload

MCSpec == Init /\ [][MCNext]_vars

============================================================================
