-------------------------- MODULE EvidenceAnalysis --------------------------
(***************************************************************************)
(* The commands that analyse stored evidence: import-report,               *)
(* analyze-vulnerabilities, correlate, score-risk and compare-scans        *)
(* (cmd/enumscan/main.go), the drift report and the knowledge graph of the *)
(* API.  Each command is a process of its own.  It reads the scan's assets *)
(* and findings in two queries and writes what it derives row by row, into *)
(* the tables it reads, while the scan or another command may be writing   *)
(* too, and it may die between two rows.                                   *)
(*                                                                         *)
(* Of an asset's text only the clues that the scores look for are kept.    *)
(* CVSS scores are in hundredths and EPSS in percent.                      *)
(***************************************************************************)
EXTENDS Integers, FiniteSets, FiniteSetsExt, Sequences, TLC

CONSTANTS
  Scan, Process,
  Observed,      \* assets each scan may store: [type, value, parent, meta]
  Reported,      \* results in the reports of other tools
  Clues,         \* clues in the text of an asset, by its value
  TypeOrder,     \* the asset types in the order of their names
  MaxCommands,   \* bound: commands that are started
  MaxImports     \* bound: findings that are imported

\* The types that the analyses write, and no module of a scan does.
Derived == {"vulnerability_priority", "correlation_edge", "business_impact_score",
            "attack_chain_visualization", "risk_assessment"}

ASSUME AnalysisAssumption ==
  /\ MaxCommands \in Nat /\ MaxImports \in Nat
  /\ \A s \in Scan : \A a \in Observed[s] : a.type \notin Derived
  /\ DOMAIN TypeOrder \subseteq Nat
  /\ Derived \cup UNION {{a.type : a \in Observed[s]} : s \in Scan} \subseteq {TypeOrder[i] : i \in DOMAIN TypeOrder}

VARIABLES
  assets,    \* assets of each scan, unique in type, value and parent
  findings,  \* findings of each scan, which nothing makes unique: numbered copies
  proc,      \* each process: its command, scan, first query and rows to write
  stale,     \* processes whose scan has changed since they started
  fresh,     \* commands that ran on each scan after its last change
  started, imported

vars == <<assets, findings, proc, stale, fresh, started, imported>>

Asset(type, value, parent, label, n) ==
  [type |-> type, value |-> value, parent |-> parent, meta |-> <<label, n>>]

Key(a) == <<a.type, a.value, a.parent>>
Keys(S) == {Key(a) : a \in S}

Idle == [cmd |-> "idle", scan |-> "", first |-> {}, rows |-> {}, found |-> {}]

OfType(S, t) == {a \in S : a.type = t}

\* What the stored findings say, however often each of them does.
FindingRows(B) == {c.row : c \in B}

Minimum(a, b) == IF a < b THEN a ELSE b
Maximum(a, b) == IF a < b THEN b ELSE a

----------------------------------------------------------------------------
(***************************************************************************)
(* The reports of other tools.                                             *)
(***************************************************************************)

CvssToSeverity(score) ==
  CASE score >= 900 -> "critical" [] score >= 700 -> "high" [] score >= 400 -> "medium"
    [] score > 0 -> "low" [] OTHER -> "info"

NessusSevToString(sev) ==
  CASE sev = 4 -> "critical" [] sev = 3 -> "high" [] sev = 2 -> "medium"
    [] sev = 1 -> "low" [] OTHER -> "info"

\* A result of OpenVAS, or a line of a Nessus table, may be without a severity.
SeverityOrScore(r) == IF r.severity = "" THEN CvssToSeverity(r.cvss) ELSE r.severity

ParseNucleiJSON(r) == [severity |-> r.severity, exploit |-> r.exploit]
ParseOpenVASXML(r) == [severity |-> SeverityOrScore(r), exploit |-> FALSE]
ParseNessus(r) ==
  [severity |-> IF r.table THEN SeverityOrScore(r) ELSE NessusSevToString(r.level), exploit |-> FALSE]

\* Only Nuclei reports references, which may be to an exploit.
ImportedFinding(r) ==
  [asset |-> r.asset, title |-> r.title, cve |-> r.cve, cvss |-> r.cvss, epss |-> 0, kev |-> FALSE]
  @@ CASE r.tool = "nuclei" -> ParseNucleiJSON(r)
       [] r.tool = "openvas" -> ParseOpenVASXML(r)
       [] r.tool = "nessus" -> ParseNessus(r)

----------------------------------------------------------------------------
(***************************************************************************)
(* analyze-vulnerabilities.                                                *)
(***************************************************************************)

PriorityScore(f) ==
  LET epss == IF f.epss >= 90 THEN 150 ELSE IF f.epss >= 50 THEN 75 ELSE 0
      score == f.cvss + epss + (IF f.exploit THEN 50 ELSE 0)
  IN  Minimum(1000, IF f.kev THEN Maximum(score, 950) ELSE score)

\* The severity of Analyzer.Prioritize.
Prioritize(f) ==
  CASE f.kev \/ PriorityScore(f) >= 900 -> "critical"
    [] PriorityScore(f) >= 700 -> "high"
    [] PriorityScore(f) >= 400 -> "medium"
    [] OTHER -> f.severity

DefaultDetectionRules ==
  [docker_socket       |-> [severity |-> "critical", title |-> "Docker API socket exposed"],
   public_bucket       |-> [severity |-> "high", title |-> "Public cloud bucket accessible"],
   environment_file    |-> [severity |-> "high", title |-> "Environment file exposed"],
   git_exposure        |-> [severity |-> "high", title |-> "Source-control metadata exposed"],
   docker_compose_file |-> [severity |-> "high", title |-> "Docker Compose configuration exposed"],
   secret_exposure     |-> [severity |-> "high", title |-> "Secret material exposed in web content"]]

EvaluateRules(S) ==
  {LET rule == DefaultDetectionRules[a.type] IN
   [asset |-> a.value, title |-> rule.title, cve |-> "", cvss |-> 0, epss |-> 0,
    kev |-> FALSE, exploit |-> FALSE, severity |-> rule.severity] :
     a \in {b \in S : b.type \in DOMAIN DefaultDetectionRules}}

\* Several findings of one CVE on one asset have one row, that of the highest
\* CVSS score, as the query sorts by it.
PriorityRows(F) ==
  {Asset("vulnerability_priority", f.cve, f.asset, Prioritize(f), PriorityScore(f)) :
     f \in {g \in F : g.cve # "" /\ \A h \in F : <<h.cve, h.asset>> = <<g.cve, g.asset>> => h.cvss <= g.cvss}}

----------------------------------------------------------------------------
(***************************************************************************)
(* correlate.                                                              *)
(***************************************************************************)

Lateral(a) == "lateral" \in Clues[a.value]

Relations(a) ==
  {"CONTAINS"}
  \cup (CASE a.type = "secret_exposure" -> {"EXPOSES_SECRET"}
          [] a.type \in {"active_directory_domain", "tls_certificate"} -> {"TRUSTS"}
          [] a.type \in {"smb_service", "ldap_service", "service"} ->
               IF Lateral(a) THEN {"POTENTIAL_LATERAL_MOVEMENT"} ELSE {}
          [] a.type \in {"oauth_provider", "oidc_provider", "saml_provider", "sso_provider"} ->
               {"AUTHENTICATES_VIA"}
          [] OTHER -> {})

FindingID(f) == "finding:" \o f.title \o "@" \o f.asset

Edge(source, target, relation) == [source |-> source, target |-> target, relation |-> relation]

AssetEdges(S) == UNION {{Edge(a.parent, a.value, r) : r \in Relations(a)} : a \in S}

FindingEdges(F) ==
  {Edge(f.asset, FindingID(f), "HAS_FINDING") : f \in F} \cup {Edge(FindingID(f), f.cve, "IDENTIFIES") : f \in F}

\* Mutant: an asset without a parent has an edge too.
EdgesUnguarded(S, F) == AssetEdges(S) \cup FindingEdges(F)

\* The edges of buildCorrelationResult; addEdge leaves out one with an empty end.
CorrelationEdges(S, F) == {e \in AssetEdges(S) \cup FindingEdges(F) : e.source # "" /\ e.target # ""}

CriticalAssets(S) ==
  {a \in S : a.type \in {"secret_exposure", "docker_socket", "public_bucket", "kubernetes_secrets_endpoint"}}

\* Mutant: every other asset counts too.
ImportantAssetsAny(S) == S \ CriticalAssets(S)

ImportantAssets(S) ==
  {a \in S : a.type \in {"database_instance", "container_exposure", "active_directory_domain"}}

\* A finding counts as often as it is stored.
WithSeverity(B, severity) == {c \in B : c.row.severity = severity}

BusinessImpact(S, B) ==
  Minimum(100, 20 * Cardinality(CriticalAssets(S)) + 10 * Cardinality(ImportantAssets(S))
               + 15 * Cardinality(WithSeverity(B, "critical")) + 8 * Cardinality(WithSeverity(B, "high"))
               + 3 * Cardinality(WithSeverity(B, "medium")))

\* Two relations between the same ends share a row, and the edges come from a
\* map and are sorted by their ends only: either may be kept.
EdgeRow(e) == Asset("correlation_edge", e.target, e.source, e.relation, 0)

CorrelationRows(S, B) ==
  {EdgeRow(e) : e \in CorrelationEdges(S, FindingRows(B))}
  \cup {Asset("business_impact_score", ToString(BusinessImpact(S, B)), "", "", BusinessImpact(S, B)),
        Asset("attack_chain_visualization", "mermaid", "", "", 0)}

----------------------------------------------------------------------------
(***************************************************************************)
(* score-risk.                                                             *)
(***************************************************************************)

ExposureScore(a) ==
  (IF "reachable" \in Clues[a.value] THEN 12 ELSE 0)
  + (IF "public" \in Clues[a.value] \/ a.type \in {"secret_exposure", "container_exposure", "git_exposure", "docker_socket", "public_bucket"}
     THEN 13 ELSE 0)

CriticalityScore(a) ==
  CASE a.type \in {"secret_exposure", "kubernetes_secrets_endpoint", "docker_socket"} -> 25
    [] a.type \in {"database_instance", "active_directory_domain", "public_bucket"} -> 18
    [] a.type \in {"service", "container_exposure"} -> 10
    [] OTHER -> 4

BusinessContextScore(a) ==
  IF "production" \in Clues[a.value] THEN 12 ELSE IF "sensitive" \in Clues[a.value] THEN 15 ELSE 3

SeverityWeight(severity) ==
  CASE severity = "critical" -> 35 [] severity = "high" -> 25 [] severity = "medium" -> 14
    [] severity = "low" -> 6 [] OTHER -> 0

VulnerabilityScore(F) ==
  LET epss == Max({0} \cup {f.epss : f \in F})
  IN  Max({0} \cup {SeverityWeight(Prioritize(f)) : f \in F})
      + (IF epss >= 90 THEN 12 ELSE IF epss >= 50 THEN 6 ELSE 0)
      + (IF \E f \in F : f.kev THEN 15 ELSE 0)
      + (IF \E f \in F : f.exploit THEN 8 ELSE 0)

RiskSeverity(score) ==
  CASE score >= 80 -> "critical" [] score >= 60 -> "high" [] score >= 35 -> "medium"
    [] score > 0 -> "low" [] OTHER -> "info"

Assess(a, F) ==
  Minimum(100, ExposureScore(a) + CriticalityScore(a) + BusinessContextScore(a)
               + VulnerabilityScore({f \in F : f.asset \in {a.value, a.parent}}))

\* Assets of one value and parent share a row; the first in the order of the
\* query, which is by type, is kept.
FirstOfType(S) == {a \in S : \A b \in S :
  a.value = b.value /\ a.parent = b.parent =>
    \E m, n \in DOMAIN TypeOrder : TypeOrder[m] = a.type /\ TypeOrder[n] = b.type /\ m <= n}

RiskRows(S, B) ==
  {LET score == Assess(a, FindingRows(B)) IN
   Asset("risk_assessment", a.value, a.parent, RiskSeverity(score), score) : a \in FirstOfType(S)}

----------------------------------------------------------------------------
(***************************************************************************)
(* compare-scans and the drift report.                                     *)
(***************************************************************************)

ValuesByType(S, t) == {a.value : a \in OfType(S, t)}

\* Mutant: a set that only grew counts as the same.
SameSetGrown(A, B) == A \subseteq B

SameSet(A, B) == Cardinality(A) = Cardinality(B) /\ A \subseteq B

\* The parents whose values of a type differ.
ChangedParentValues(S, T, t) ==
  LET under(R, p) == {a.value : a \in {b \in OfType(R, t) : b.parent = p}}
  IN  {p \in {a.parent : a \in OfType(S \cup T, t)} : ~SameSet(under(S, p), under(T, p))}

\* The code joins the two with "@"; names that themselves contain one are left out.
FindingKey(f) == <<IF f.cve # "" THEN f.cve ELSE f.title, f.asset>>

\* The findings that are new or removed.
FindingSetDiff(F, G) == SymDiff({FindingKey(f) : f \in F}, {FindingKey(f) : f \in G})

\* DifferentialPortScanner.Compare on assets and findings of two scans.
Compare(S, T, F, G) ==
  [newOpenPorts |-> ValuesByType(T, "open_port") \ ValuesByType(S, "open_port"),
   newlyClosedPorts |-> ValuesByType(S, "open_port") \ ValuesByType(T, "open_port"),
   newHosts |-> ValuesByType(T, "host") \ ValuesByType(S, "host"),
   removedHosts |-> ValuesByType(S, "host") \ ValuesByType(T, "host"),
   serviceChanges |-> ChangedParentValues(S, T, "service"),
   certificateChanges |-> ChangedParentValues(S, T, "tls_certificate"),
   technologyChanges |-> ChangedParentValues(S, T, "technology"),
   vulnerabilityChanges |-> FindingSetDiff(F, G)]

\* CompareStoredScans makes four queries; here the tables do not change in between.
DetectDrift(s, t) ==
  LET changes == Compare(assets[s], assets[t], FindingRows(findings[s]), FindingRows(findings[t]))
  IN  \E k \in DOMAIN changes : changes[k] # {}

----------------------------------------------------------------------------
(***************************************************************************)
(* The knowledge graph.  The nodes of most types have a prefix; only an    *)
(* identity is the source of its edge.                                     *)
(***************************************************************************)

Prefix(t) ==
  CASE t \in {"domain", "subdomain", "ip", "cidr", "host", "port", "service", "url"} -> ""
    [] t \in {"technology", "framework"} -> "tech:"
    [] t \in {"certificate", "tls"} -> "cert:"
    [] t \in {"secret", "token", "credential"} -> "secret:"
    [] t \in {"cloud", "s3", "k8s"} -> "cloud:"
    [] t \in {"identity", "user", "email"} -> "id:"
    [] t \in {"trust", "partner"} -> "trust:"
    [] t \in {"app", "business_app"} -> "app:"
    [] OTHER -> "none"

Drawn(S) == {a \in S : Prefix(a.type) # "none"}

\* A technology without a parent hangs below "global".
GraphParent(a) == IF a.parent = "" /\ Prefix(a.type) = "tech:" THEN "global" ELSE a.parent

NodeID(a) == Prefix(a.type) \o a.value
PathID(f) == "path:" \o f.title \o "@" \o f.asset

GraphNodes(S, F) ==
  ({NodeID(a) : a \in Drawn(S)} \cup {GraphParent(a) : a \in Drawn(S)}
   \cup {f.asset : f \in F} \cup {PathID(f) : f \in F}) \ {""}

GraphEdges(S, F) ==
  {e \in {IF Prefix(a.type) = "id:" THEN <<NodeID(a), a.parent>> ELSE <<GraphParent(a), NodeID(a)>> : a \in Drawn(S)}
         \cup {<<f.asset, PathID(f)>> : f \in F} :
     e[1] # "" /\ e[2] # ""}

----------------------------------------------------------------------------
(***************************************************************************)
(* Actions.                                                                *)
(***************************************************************************)

Init ==
  /\ assets = [s \in Scan |-> {}] /\ findings = [s \in Scan |-> {}]
  /\ proc = [p \in Process |-> Idle] /\ stale = {}
  /\ fresh = [s \in Scan |-> {}]
  /\ started = 0 /\ imported = 0

\* The processes on the scan, but for the writer's own, have read, or will have
\* read, something old.
Changed(s, own) ==
  /\ stale' = stale \cup {q \in Process \ own : proc[q].scan = s}
  /\ fresh' = [fresh EXCEPT ![s] = {}]

\* INSERT OR IGNORE: a row with the same key is left as it is.
AddAsset(s, a) == IF Key(a) \in Keys(assets[s]) THEN assets[s] ELSE assets[s] \cup {a}

\* AddFinding: a plain INSERT.
AddFinding(s, f) ==
  findings[s] \cup {[row |-> f, copy |-> 1 + Cardinality({c \in findings[s] : c.row = f})]}

\* The scan itself, still running, stores an asset.  (Its findings are among
\* those of ImportReport.)
Observe(s, a) ==
  /\ a \notin assets[s]
  /\ assets' = [assets EXCEPT ![s] = AddAsset(s, a)]
  /\ Changed(s, {})
  /\ UNCHANGED <<findings, proc, started, imported>>

ImportReport(s, r) ==
  /\ imported < MaxImports /\ imported' = imported + 1
  /\ findings' = [findings EXCEPT ![s] = AddFinding(s, ImportedFinding(r))]
  /\ Changed(s, {})
  /\ UNCHANGED <<assets, proc, started>>

\* The first query: the findings for analyze-vulnerabilities, else the assets.
Start(p, s, cmd) ==
  /\ proc[p].cmd = "idle" /\ started < MaxCommands /\ started' = started + 1
  /\ proc' = [proc EXCEPT ![p] =
                [cmd |-> cmd, scan |-> s, rows |-> {}, found |-> {},
                 first |-> IF cmd = "analyze-query" THEN FindingRows(findings[s]) ELSE assets[s]]]
  /\ UNCHANGED <<assets, findings, stale, fresh, imported>>

AnalyzeScan(p) ==
  /\ proc[p].cmd = "analyze-query"
  /\ proc' = [proc EXCEPT ![p].cmd = "analyze", ![p].first = {},
                ![p].rows = PriorityRows(proc[p].first), ![p].found = EvaluateRules(assets[proc[p].scan])]
  /\ UNCHANGED <<assets, findings, stale, fresh, started, imported>>

CorrelateEvidence(p) ==
  /\ proc[p].cmd = "correlate-query"
  /\ proc' = [proc EXCEPT ![p].cmd = "correlate", ![p].first = {},
                ![p].rows = CorrelationRows(proc[p].first, findings[proc[p].scan])]
  /\ UNCHANGED <<assets, findings, stale, fresh, started, imported>>

ScoreRisk(p) ==
  /\ proc[p].cmd = "score-query"
  /\ proc' = [proc EXCEPT ![p].cmd = "score", ![p].first = {},
                ![p].rows = RiskRows(proc[p].first, findings[proc[p].scan])]
  /\ UNCHANGED <<assets, findings, stale, fresh, started, imported>>

\* The types of derived rows, in the order one command writes them.
Written == <<"vulnerability_priority", "risk_assessment", "correlation_edge",
             "business_impact_score", "attack_chain_visualization">>

\* Rows are sorted, edges by their ends and scores as queried; which key comes
\* first is arbitrary here, and rows of one key are tied.
NextRows(R) ==
  LET first == Min({i \in DOMAIN Written : OfType(R, Written[i]) # {}})
      key == CHOOSE k \in Keys(OfType(R, Written[first])) : TRUE
  IN  {a \in R : Key(a) = key}

WriteRow(p, a) ==
  /\ a \in NextRows(proc[p].rows)
  /\ LET s == proc[p].scan IN
     /\ assets' = [assets EXCEPT ![s] = AddAsset(s, a)]
     /\ IF assets' = assets THEN UNCHANGED <<stale, fresh>> ELSE Changed(s, {p})
  /\ proc' = [proc EXCEPT ![p].rows = @ \ {a}]
  /\ UNCHANGED <<findings, started, imported>>

\* The findings of the rules follow the priorities.
WriteFinding(p, f) ==
  /\ proc[p].rows = {}
  /\ findings' = [findings EXCEPT ![proc[p].scan] = AddFinding(proc[p].scan, f)]
  /\ Changed(proc[p].scan, {p})
  /\ proc' = [proc EXCEPT ![p].found = @ \ {f}]
  /\ UNCHANGED <<assets, started, imported>>

\* The error of a write is ignored and the command goes on to the next.
LoseWrite(p) ==
  /\ \/ /\ proc[p].rows # {}
        /\ \E a \in NextRows(proc[p].rows) : proc' = [proc EXCEPT ![p].rows = @ \ {a}]
     \/ /\ proc[p].rows = {}
        /\ \E f \in proc[p].found : proc' = [proc EXCEPT ![p].found = @ \ {f}]
  /\ stale' = stale \cup {p}
  /\ UNCHANGED <<assets, findings, fresh, started, imported>>

Finish(p) ==
  /\ proc[p].cmd \in {"analyze", "correlate", "score"} /\ proc[p].rows = {} /\ proc[p].found = {}
  /\ fresh' = IF p \in stale THEN fresh ELSE [fresh EXCEPT ![proc[p].scan] = @ \cup {proc[p].cmd}]
  /\ proc' = [proc EXCEPT ![p] = Idle] /\ stale' = stale \ {p}
  /\ UNCHANGED <<assets, findings, started, imported>>

Die(p) ==
  /\ proc[p].cmd # "idle"
  /\ proc' = [proc EXCEPT ![p] = Idle] /\ stale' = stale \ {p}
  /\ UNCHANGED <<assets, findings, fresh, started, imported>>

Command(p) ==
  \/ \E s \in Scan, cmd \in {"analyze-query", "correlate-query", "score-query"} : Start(p, s, cmd)
  \/ AnalyzeScan(p) \/ CorrelateEvidence(p) \/ ScoreRisk(p)
  \/ \E a \in proc[p].rows : WriteRow(p, a)
  \/ \E f \in proc[p].found : WriteFinding(p, f)
  \/ LoseWrite(p) \/ Finish(p) \/ Die(p)

Next ==
  \/ \E s \in Scan : \E a \in Observed[s] : Observe(s, a)
  \/ \E s \in Scan, r \in Reported : ImportReport(s, r)
  \/ \E p \in Process : Command(p)

Spec == Init /\ [][Next]_vars

----------------------------------------------------------------------------
(***************************************************************************)
(* Properties.                                                             *)
(***************************************************************************)

\* Every variable has its type: impact and risk scores are in 0..100, no two
\* assets of a scan share a key, and no stored finding is lost in another.
TypeOK ==
  /\ \A s \in Scan :
       /\ IsFiniteSet(assets[s]) /\ IsFiniteSet(findings[s])
       /\ \A a, b \in assets[s] : Key(a) = Key(b) => a = b
       /\ \A a \in assets[s] :
            /\ a \in Observed[s] \/ a.type \in Derived
            /\ a.type \in {"business_impact_score", "risk_assessment"} => a.meta[2] \in 0..100
       /\ \A c \in findings[s] : c.copy \in 1..Cardinality({d \in findings[s] : d.row = c.row})
       /\ fresh[s] \subseteq {"analyze", "correlate", "score"}
  /\ stale \subseteq Process
  /\ started \in 0..MaxCommands /\ imported \in 0..MaxImports

\* The ends of an edge that stored evidence relates: an asset and its parent,
\* a finding and its asset, a CVE and its finding or the finding's asset.
Related(s) ==
  {<<a.parent, a.value>> : a \in {b \in assets[s] : b.type \notin Derived}}
  \cup UNION {{<<f.asset, FindingID(f)>>, <<FindingID(f), f.cve>>, <<f.asset, f.cve>>} : f \in FindingRows(findings[s])}

\* Correlation invents no relationship, although it reads the edges, scores and
\* priorities that earlier analyses have stored as assets (CorrelateEvidence).
EdgesGrounded ==
  \A s \in Scan : \A a \in OfType(assets[s], "correlation_edge") :
    /\ a.parent # "" /\ a.value # ""
    /\ <<a.parent, a.value>> \in Related(s)

\* Analyses settle: after a run of correlate or score-risk that lost no write,
\* on a scan that nothing else changed meanwhile, another run would add nothing,
\* although its own rows are now part of its input.
AnalysisSettles ==
  \A s \in Scan :
    /\ "correlate" \in fresh[s] => Keys(CorrelationRows(assets[s], findings[s])) \subseteq Keys(assets[s])
    /\ "score" \in fresh[s] => Keys(RiskRows(assets[s], findings[s])) \subseteq Keys(assets[s])

Compared(s) ==
  {<<a.type, a.value, IF a.type \in {"open_port", "host"} THEN "" ELSE a.parent>> :
     a \in {b \in assets[s] : b.type \in {"open_port", "host", "service", "tls_certificate", "technology"}}}
  \cup {<<"finding", FindingKey(f)[1], FindingKey(f)[2]>> : f \in FindingRows(findings[s])}

\* A drift report is empty exactly if both scans have the same hosts, ports,
\* services, certificates and technologies and findings of the same CVEs or
\* titles on the same assets, whatever else has been derived from either and
\* however often a finding is stored (CompareStoredScans, DetectDrift).
DriftExact == \A s, t \in Scan : DetectDrift(s, t) <=> Compared(s) # Compared(t)

\* Both ends of every edge of the whole knowledge graph are nodes of it
\* (BuildKnowledgeGraph).
GraphClosed ==
  \A s \in Scan : \A e \in GraphEdges(assets[s], FindingRows(findings[s])) :
    {e[1], e[2]} \subseteq GraphNodes(assets[s], FindingRows(findings[s]))

\* The stored correlation edges and the knowledge graph drawn from the tables:
\* EdgesGrounded and GraphClosed together.
GraphSound == TypeOK /\ EdgesGrounded /\ GraphClosed

============================================================================
