------------------------- MODULE MCEvidenceAnalysis -------------------------
(***************************************************************************)
(* Instance of EvidenceAnalysis: a host with an exposed Docker socket that *)
(* is also seen as a service, an earlier scan that saw the service only,   *)
(* and results of two tools, one of them on an asset no scan has seen;     *)
(* two commands at a time.                                                 *)
(***************************************************************************)
EXTENDS EvidenceAnalysis

Seen(type, value, parent) == Asset(type, value, parent, "", 0)

CONSTANTS s1, s2

MCObserved == s1 :> {Seen("host", "h", ""), Seen("docker_socket", "d", "h"), Seen("service", "d", "h")}
              @@ s2 :> {Seen("service", "d", "h")}

Result(tool, asset, cve, cvss, severity) ==
  [tool |-> tool, asset |-> asset, title |-> "t", cve |-> cve, cvss |-> cvss,
   severity |-> severity, level |-> 3, table |-> FALSE, exploit |-> TRUE]

MCReported == {Result("openvas", "d", "c", 910, ""), Result("nessus", "x", "", 0, "")}

MCTypeOrder == <<"attack_chain_visualization", "business_impact_score", "correlation_edge",
                 "docker_socket", "host", "risk_assessment", "service", "vulnerability_priority">>

\* The visualisation repeats the values of the graph, and so their clues.
MCClues == [v \in STRING |-> IF v \in {"d", "mermaid"} THEN {"reachable", "production", "lateral"} ELSE {}]

Symmetric == Permutations(Process)

============================================================================
