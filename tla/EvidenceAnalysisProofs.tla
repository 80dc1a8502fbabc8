----------------------- MODULE EvidenceAnalysisProofs -----------------------
(***************************************************************************)
(* The analyses of stored evidence, for every set of scans, processes,     *)
(* assets and reports, any number of commands, lost writes and deaths, and *)
(* whatever the texts of the assets hint at: the edges and the graph, the  *)
(* settling of an analysis that reads its own rows, and the drift report.  *)
(***************************************************************************)
EXTENDS EvidenceAnalysis, FiniteSetTheorems, WellFoundedInduction, TLAPS

----------------------------------------------------------------------------
(***************************************************************************)
(* Scores.                                                                 *)
(***************************************************************************)

\* businessImpact is between 0 and 100 on any tables.
LEMMA ImpactRange ==
  ASSUME NEW S, NEW B, IsFiniteSet(S), IsFiniteSet(B)
  PROVE  BusinessImpact(S, B) \in 0..100
<1>1. /\ CriticalAssets(S) \in SUBSET S /\ ImportantAssets(S) \in SUBSET S
      /\ \A v : WithSeverity(B, v) \in SUBSET B
  BY DEF CriticalAssets, ImportantAssets, WithSeverity
<1>2. Cardinality(CriticalAssets(S)) \in Nat /\ Cardinality(ImportantAssets(S)) \in Nat
  BY <1>1, FS_Subset, FS_CardinalityType
<1>3. ASSUME NEW v PROVE Cardinality(WithSeverity(B, v)) \in Nat
  BY <1>1, FS_Subset, FS_CardinalityType
<1> DEFINE w(v) == Cardinality(WithSeverity(B, v))
           x == 20 * Cardinality(CriticalAssets(S)) + 10 * Cardinality(ImportantAssets(S))
                + 15 * w("critical") + 8 * w("high") + 3 * w("medium")
<1>4. w("critical") \in Nat /\ w("high") \in Nat /\ w("medium") \in Nat
  BY <1>3
<1>5. x \in Nat
  <2> HIDE DEF w
  <2> QED BY <1>2, <1>4
<1>6. BusinessImpact(S, B) = Minimum(100, x)
  BY DEF BusinessImpact
<1> HIDE DEF x
<1> QED
  BY <1>5, <1>6 DEF Minimum

\* The weights of the severities.
LEMMA WeightRange == \A v : SeverityWeight(v) \in {0, 6, 14, 25, 35}
BY DEF SeverityWeight

\* A set of weights with 0 among them has a greatest one.
LEMMA GreatestWeight ==
  ASSUME NEW W \in SUBSET {0, 6, 14, 25, 35}, 0 \in W
  PROVE  Max(W) \in 0..35
<1>1. \E x \in W : \A y \in W : x >= y
  <2>1. CASE 35 \in W
    BY <2>1
  <2>2. CASE 35 \notin W /\ 25 \in W
    BY <2>2
  <2>3. CASE 35 \notin W /\ 25 \notin W /\ 14 \in W
    BY <2>3
  <2>4. CASE 35 \notin W /\ 25 \notin W /\ 14 \notin W /\ 6 \in W
    BY <2>4
  <2>5. CASE 35 \notin W /\ 25 \notin W /\ 14 \notin W /\ 6 \notin W
    BY <2>5
  <2> QED BY <2>1, <2>2, <2>3, <2>4, <2>5
<1>2. Max(W) \in W
  BY <1>1 DEF Max
<1>3. Max(W) \in {0, 6, 14, 25, 35}
  BY <1>2
<1> QED BY <1>3

\* The vulnerability part of a risk score, whatever the findings' EPSS scores are.
LEMMA VulnerabilityRange == ASSUME NEW F PROVE VulnerabilityScore(F) \in 0..70
<1> DEFINE W == {0} \cup {SeverityWeight(Prioritize(f)) : f \in F}
<1>1. W \in SUBSET {0, 6, 14, 25, 35} /\ 0 \in W
  BY WeightRange
<1>2. Max(W) \in 0..35
  BY <1>1, GreatestWeight
<1> HIDE DEF W
<1> DEFINE e == Max({0} \cup {f.epss : f \in F})
<1>3. VulnerabilityScore(F) = Max(W) + (IF e >= 90 THEN 12 ELSE IF e >= 50 THEN 6 ELSE 0)
        + (IF \E f \in F : f.kev THEN 15 ELSE 0) + (IF \E f \in F : f.exploit THEN 8 ELSE 0)
  BY DEF VulnerabilityScore, W
<1> HIDE DEF e
<1>4. (IF e >= 90 THEN 12 ELSE IF e >= 50 THEN 6 ELSE 0) \in 0..12
  OBVIOUS
<1>5. (IF \E f \in F : f.kev THEN 15 ELSE 0) \in 0..15 /\ (IF \E f \in F : f.exploit THEN 8 ELSE 0) \in 0..8
  OBVIOUS
<1> QED BY <1>2, <1>3, <1>4, <1>5

\* Assess caps its sum of scores.
LEMMA AssessRange == ASSUME NEW a, NEW F PROVE Assess(a, F) \in 0..100
<1>1. ExposureScore(a) \in 0..25
  <2>1. (IF "reachable" \in Clues[a.value] THEN 12 ELSE 0) \in 0..12
    OBVIOUS
  <2> QED BY <2>1 DEF ExposureScore
<1>2. CriticalityScore(a) \in 0..25
  BY DEF CriticalityScore
<1>3. BusinessContextScore(a) \in 0..15
  BY DEF BusinessContextScore
<1>4. VulnerabilityScore({f \in F : f.asset \in {a.value, a.parent}}) \in 0..70
  BY VulnerabilityRange
<1> QED
  BY <1>1, <1>2, <1>3, <1>4 DEF Assess, Minimum

----------------------------------------------------------------------------
(***************************************************************************)
(* The inductive invariant.                                                *)
(***************************************************************************)

\* A row that an analysis writes.
DerivedRow(a) ==
  /\ a.type \in Derived
  /\ a.type \in {"business_impact_score", "risk_assessment"} => a.meta[2] \in 0..100
  /\ a.type = "correlation_edge" => a.parent # "" /\ a.value # ""

\* The asset and its parent, if both have a name, are related by evidence.
Grounded(s, a) == a.parent # "" /\ a.value # "" => <<a.parent, a.value>> \in Related(s)

\* The keys of the risk rows of a table, one for each value and parent.
RiskKeys(S) == {<<"risk_assessment", a.value, a.parent>> : a \in S}

\* Every stored asset was observed or derived, and is grounded.
TablesGrounded ==
  \A s \in Scan : \A a \in assets[s] : (a \in Observed[s] \/ DerivedRow(a)) /\ Grounded(s, a)

\* A record of a process has all its fields.
IsProc(r) == r = [cmd |-> r.cmd, scan |-> r.scan, first |-> r.first, rows |-> r.rows, found |-> r.found]

\* Where a process is, what it has read and what it is about to write.
Working(p) ==
  /\ IsProc(proc[p])
  /\ proc[p].cmd \in {"idle", "analyze-query", "correlate-query", "score-query", "analyze", "correlate", "score"}
  /\ proc[p].cmd # "idle" => proc[p].scan \in Scan
  /\ proc[p].cmd \notin {"analyze", "correlate", "score"} => proc[p].rows = {}
  /\ proc[p].cmd # "analyze" => proc[p].found = {}
  /\ proc[p].cmd = "analyze-query" => proc[p].first \subseteq FindingRows(findings[proc[p].scan])
  /\ proc[p].cmd \in {"correlate-query", "score-query"} => proc[p].first \subseteq assets[proc[p].scan]
  /\ \A a \in proc[p].rows : DerivedRow(a) /\ Grounded(proc[p].scan, a)
  /\ proc[p].cmd = "correlate" => \A a \in proc[p].rows : a.type = "correlation_edge" \/ a.parent = ""
  /\ proc[p].cmd = "score" => \A a \in proc[p].rows : a.type = "risk_assessment"

\* What a command that nothing overtook has still to write is all that a run of
\* it on the present tables would add.
Settling(p) ==
  p \notin stale =>
    /\ proc[p].cmd \in {"correlate-query", "score-query"} => proc[p].first = assets[proc[p].scan]
    /\ proc[p].cmd = "correlate" =>
         Keys(CorrelationRows(assets[proc[p].scan], findings[proc[p].scan]))
           \subseteq Keys(assets[proc[p].scan]) \cup Keys(proc[p].rows)
    /\ proc[p].cmd = "score" =>
         RiskKeys(assets[proc[p].scan]) \subseteq Keys(assets[proc[p].scan]) \cup Keys(proc[p].rows)

\* A scan that a command has analysed since its last change needs no other run.
Settled(s) ==
  /\ "correlate" \in fresh[s] => Keys(CorrelationRows(assets[s], findings[s])) \subseteq Keys(assets[s])
  /\ "score" \in fresh[s] => RiskKeys(assets[s]) \subseteq Keys(assets[s])

\* The variables are functions on their domains.
Domains ==
  DOMAIN assets = Scan /\ DOMAIN findings = Scan /\ DOMAIN fresh = Scan /\ DOMAIN proc = Process

\* The inductive invariant.
AnalysisInv ==
  /\ TypeOK /\ Domains /\ TablesGrounded
  /\ \A p \in Process : Working(p) /\ Settling(p)
  /\ \A s \in Scan : Settled(s)

----------------------------------------------------------------------------
(***************************************************************************)
(* The rows of the analyses.                                               *)
(***************************************************************************)

\* The priorities of stored findings relate an asset and its CVE.
LEMMA PriorityRowsGrounded ==
  ASSUME NEW s \in Scan, NEW F \in SUBSET FindingRows(findings[s]), NEW a \in PriorityRows(F)
  PROVE  DerivedRow(a) /\ Grounded(s, a)
<1>1. PICK f \in F : a = Asset("vulnerability_priority", f.cve, f.asset, Prioritize(f), PriorityScore(f))
  BY DEF PriorityRows
<1>2. a.type = "vulnerability_priority" /\ a.value = f.cve /\ a.parent = f.asset
  BY <1>1 DEF Asset
<1>3. <<f.asset, f.cve>> \in Related(s)
  BY <1>1 DEF Related
<1> QED
  BY <1>2, <1>3 DEF DerivedRow, Grounded, Derived

\* A risk row has the value and the parent of the asset it scores.
LEMMA RiskRowsGrounded ==
  ASSUME TablesGrounded, NEW s \in Scan, NEW S \in SUBSET assets[s], NEW B, NEW a \in RiskRows(S, B)
  PROVE  DerivedRow(a) /\ Grounded(s, a) /\ a.type = "risk_assessment"
<1>1. PICK b \in S : a = LET score == Assess(b, FindingRows(B)) IN
                         Asset("risk_assessment", b.value, b.parent, RiskSeverity(score), score)
  BY DEF RiskRows, FirstOfType
<1>2. /\ a.type = "risk_assessment" /\ a.value = b.value /\ a.parent = b.parent
      /\ a.meta[2] = Assess(b, FindingRows(B))
  BY <1>1 DEF Asset
<1>3. a.meta[2] \in 0..100
  BY <1>2, AssessRange
<1> QED
  BY <1>2, <1>3 DEF DerivedRow, Grounded, Derived, TablesGrounded

OfAsset(e, a) == \E r \in Relations(a) : e = Edge(a.parent, a.value, r)
OfFinding(e, f) == e = Edge(f.asset, FindingID(f), "HAS_FINDING") \/ e = Edge(FindingID(f), f.cve, "IDENTIFIES")

\* An edge has the ends of an asset in the table, or comes from a finding.
LEMMA EdgeOrigin ==
  ASSUME NEW S, NEW F, NEW e \in CorrelationEdges(S, F)
  PROVE  /\ e.source # "" /\ e.target # ""
         /\ (\E a \in S : OfAsset(e, a)) \/ (\E f \in F : OfFinding(e, f))
BY DEF CorrelationEdges, AssetEdges, FindingEdges, OfAsset, OfFinding

\* What correlate writes about stored evidence.
LEMMA CorrelationRowsGrounded ==
  ASSUME TablesGrounded, NEW s \in Scan, NEW S \in SUBSET assets[s], IsFiniteSet(assets[s]),
         IsFiniteSet(findings[s]), NEW a \in CorrelationRows(S, findings[s])
  PROVE  DerivedRow(a) /\ Grounded(s, a) /\ (a.type = "correlation_edge" \/ a.parent = "")
<1>1. CASE \E e \in CorrelationEdges(S, FindingRows(findings[s])) : a = EdgeRow(e)
  <2>1. PICK e \in CorrelationEdges(S, FindingRows(findings[s])) : a = EdgeRow(e)
    BY <1>1
  <2>2. a.type = "correlation_edge" /\ a.value = e.target /\ a.parent = e.source
    BY <2>1 DEF EdgeRow, Asset
  <2>3. e.source # "" /\ e.target # ""
    BY <2>1, EdgeOrigin
  <2>4. CASE \E b \in S : OfAsset(e, b)
    <3>1. PICK b \in S : OfAsset(e, b)
      BY <2>4
    <3>2. e.source = b.parent /\ e.target = b.value
      BY <3>1 DEF Edge, OfAsset
    <3>3. <<e.source, e.target>> \in Related(s)
      BY <2>3, <3>1, <3>2 DEF TablesGrounded, Grounded
    <3> QED BY <2>2, <2>3, <3>3 DEF DerivedRow, Grounded, Derived
  <2>5. CASE \E f \in FindingRows(findings[s]) : OfFinding(e, f)
    <3>1. PICK f \in FindingRows(findings[s]) : OfFinding(e, f)
      BY <2>5
    <3>2. <<f.asset, FindingID(f)>> \in Related(s) /\ <<FindingID(f), f.cve>> \in Related(s)
      BY DEF Related
    <3>3. <<e.source, e.target>> \in Related(s)
      BY <3>1, <3>2 DEF Edge, OfFinding
    <3> QED BY <2>2, <2>3, <3>3 DEF DerivedRow, Grounded, Derived
  <2> QED BY <2>1, <2>4, <2>5, EdgeOrigin
<1>2. CASE a = Asset("business_impact_score", ToString(BusinessImpact(S, findings[s])), "", "", BusinessImpact(S, findings[s]))
  <2>1. BusinessImpact(S, findings[s]) \in 0..100
    BY ImpactRange, FS_Subset
  <2>2. a.type = "business_impact_score" /\ a.parent = "" /\ a.meta[2] = BusinessImpact(S, findings[s])
    BY <1>2 DEF Asset
  <2> QED BY <2>1, <2>2 DEF DerivedRow, Grounded, Derived
<1>3. CASE a = Asset("attack_chain_visualization", "mermaid", "", "", 0)
  BY <1>3 DEF DerivedRow, Grounded, Derived, Asset
<1> QED BY <1>1, <1>2, <1>3 DEF CorrelationRows

----------------------------------------------------------------------------
(***************************************************************************)
(* An analysis among its own input.                                        *)
(***************************************************************************)

\* A row of correlate adds nothing to the impact score, and of the edges only
\* the one that it already is.
LEMMA OwnRowSettles ==
  ASSUME NEW S, NEW B, NEW K, NEW a, a.type \in Derived, a.type = "correlation_edge" \/ a.parent = "",
         Keys(CorrelationRows(S, B)) \subseteq K, Key(a) \in K
  PROVE  Keys(CorrelationRows(S \cup {a}, B)) \subseteq K
<1> DEFINE T == S \cup {a}
           F == FindingRows(B)
<1>1. CriticalAssets(T) = CriticalAssets(S) /\ ImportantAssets(T) = ImportantAssets(S)
  BY DEF CriticalAssets, ImportantAssets, Derived
<1>2. BusinessImpact(T, B) = BusinessImpact(S, B)
  BY <1>1 DEF BusinessImpact
<1>3. ASSUME NEW e \in CorrelationEdges(T, F) PROVE Key(EdgeRow(e)) \in K
  <2>1. e.source # "" /\ e.target # ""
    BY EdgeOrigin
  <2>2. ASSUME e \in CorrelationEdges(S, F) PROVE Key(EdgeRow(e)) \in K
    BY <2>2 DEF CorrelationRows, Keys
  <2>3. ASSUME NEW f \in F, OfFinding(e, f) PROVE e \in CorrelationEdges(S, F)
    BY <2>1, <2>3 DEF CorrelationEdges, FindingEdges, OfFinding
  <2>4. ASSUME NEW b \in S, OfAsset(e, b) PROVE e \in CorrelationEdges(S, F)
    <3>1. PICK r \in Relations(b) : e = Edge(b.parent, b.value, r)
      BY <2>4 DEF OfAsset
    <3>2. e \in AssetEdges(S)
      <4> DEFINE E(c) == {Edge(c.parent, c.value, q) : q \in Relations(c)}
      <4>1. e \in E(b)
        BY <3>1
      <4>2. E(b) \in {E(c) : c \in S}
        <5> HIDE DEF E
        <5> QED OBVIOUS
      <4>3. AssetEdges(S) = UNION {E(c) : c \in S}
        BY DEF AssetEdges
      <4> HIDE DEF E
      <4> QED BY <4>1, <4>2, <4>3
    <3> QED BY <2>1, <3>2 DEF CorrelationEdges
  <2>5. ASSUME OfAsset(e, a) PROVE Key(EdgeRow(e)) \in K
    <3>0. PICK r \in Relations(a) : e = Edge(a.parent, a.value, r)
      BY <2>5 DEF OfAsset
    <3>1. e.source = a.parent /\ e.target = a.value
      BY <3>0 DEF Edge
    <3>2. Key(EdgeRow(e)) = Key(a)
      BY <2>1, <3>1 DEF Key, EdgeRow, Asset
    <3> QED BY <3>2
  <2>6. (\E b \in T : OfAsset(e, b)) \/ (\E f \in F : OfFinding(e, f))
    BY EdgeOrigin
  <2> QED BY <2>2, <2>3, <2>4, <2>5, <2>6
<1>4. ASSUME NEW x \in CorrelationRows(T, B) PROVE Key(x) \in K
  <2>1. CASE \E e \in CorrelationEdges(T, F) : x = EdgeRow(e)
    BY <1>3, <2>1
  <2>2. CASE x \in {Asset("business_impact_score", ToString(BusinessImpact(T, B)), "", "", BusinessImpact(T, B)),
                    Asset("attack_chain_visualization", "mermaid", "", "", 0)}
    <3>1. x \in CorrelationRows(S, B)
      BY <1>2, <2>2 DEF CorrelationRows
    <3> QED BY <3>1 DEF Keys
  <2> QED BY <2>1, <2>2 DEF CorrelationRows
<1> QED BY <1>4 DEF Keys

\* A risk row would be scored into its own row.
LEMMA RiskRowSettles ==
  ASSUME NEW S, NEW K, NEW a, a.type = "risk_assessment", RiskKeys(S) \subseteq K, Key(a) \in K
  PROVE  RiskKeys(S \cup {a}) \subseteq K
BY DEF RiskKeys, Key

\* Some asset of each value and parent has the first type of them all.
LEMMA FirstOfTypeExists ==
  ASSUME NEW S, NEW a \in S, DOMAIN TypeOrder \subseteq Nat,
         \A b \in S : \E i \in DOMAIN TypeOrder : TypeOrder[i] = b.type
  PROVE  \E b \in FirstOfType(S) : b.value = a.value /\ b.parent = a.parent
<1> DEFINE Alike == {b \in S : b.value = a.value /\ b.parent = a.parent}
           Places == {i \in DOMAIN TypeOrder : \E b \in Alike : TypeOrder[i] = b.type}
<1>1. Places \in SUBSET Nat /\ Places # {}
  OBVIOUS
<1> DEFINE R == OpToRel(<, Nat)
<1>2. IsWellFoundedOn(R, Nat)
  BY NatLessThanWellFounded
<1>r. \A x, y \in Places : x < y => <<x, y>> \in R
  BY <1>1 DEF OpToRel
<1>5. \A i \in Places : \E b \in Alike : TypeOrder[i] = b.type
  OBVIOUS
<1>p. \A b \in Alike : \A i \in DOMAIN TypeOrder : TypeOrder[i] = b.type => i \in Places
  OBVIOUS
<1> HIDE DEF R, Places
<1>3. PICK i \in Places : \A j \in Places : ~(<<j, i>> \in R)
  BY <1>1, <1>2, WFMin
<1>4. \A j \in Places : i <= j
  <2> TAKE j \in Places
  <2>1. ~(j < i)
    BY <1>3, <1>r
  <2>2. i \in Nat /\ j \in Nat
    BY <1>1
  <2> QED BY <2>1, <2>2
<1>b. PICK b \in Alike : TypeOrder[i] = b.type
  BY <1>5
<1>6. b \in FirstOfType(S)
  <2> SUFFICES ASSUME NEW c \in S, b.value = c.value, b.parent = c.parent
               PROVE  \E m, n \in DOMAIN TypeOrder : TypeOrder[m] = b.type /\ TypeOrder[n] = c.type /\ m <= n
    BY DEF FirstOfType
  <2>1. PICK j \in DOMAIN TypeOrder : TypeOrder[j] = c.type
    OBVIOUS
  <2>2. j \in Places
    BY <1>p, <2>1
  <2>3. i \in DOMAIN TypeOrder
    BY DEF Places
  <2> QED BY <1>4, <1>b, <2>1, <2>2, <2>3
<1> QED BY <1>6

\* The risk rows of a table have exactly its risk keys.
LEMMA RiskRowKeys ==
  ASSUME NEW S, NEW B
  PROVE  /\ Keys(RiskRows(S, B)) \subseteq RiskKeys(S)
         /\ DOMAIN TypeOrder \subseteq Nat /\ (\A b \in S : \E i \in DOMAIN TypeOrder : TypeOrder[i] = b.type)
              => RiskKeys(S) \subseteq Keys(RiskRows(S, B))
<1> DEFINE R(a) == LET score == Assess(a, FindingRows(B)) IN
                   Asset("risk_assessment", a.value, a.parent, RiskSeverity(score), score)
<1>1. \A a : Key(R(a)) = <<"risk_assessment", a.value, a.parent>>
  BY DEF Key, Asset
<1>2. RiskRows(S, B) = {R(a) : a \in FirstOfType(S)}
  BY DEF RiskRows
<1> HIDE DEF R
<1>3. Keys(RiskRows(S, B)) \subseteq RiskKeys(S)
  BY <1>1, <1>2 DEF Keys, RiskKeys, FirstOfType
<1>4. ASSUME DOMAIN TypeOrder \subseteq Nat, \A b \in S : \E i \in DOMAIN TypeOrder : TypeOrder[i] = b.type,
             NEW a \in S
      PROVE  <<"risk_assessment", a.value, a.parent>> \in Keys(RiskRows(S, B))
  <2>1. PICK b \in FirstOfType(S) : b.value = a.value /\ b.parent = a.parent
    BY <1>4, FirstOfTypeExists
  <2>2. R(b) \in RiskRows(S, B) /\ Key(R(b)) = <<"risk_assessment", a.value, a.parent>>
    BY <1>1, <1>2, <2>1
  <2> QED BY <2>2 DEF Keys
<1> QED BY <1>3, <1>4 DEF RiskKeys

----------------------------------------------------------------------------
(***************************************************************************)
(* Comparison and graph, on any tables.                                    *)
(***************************************************************************)

\* Comparing sizes and members compares finite sets.
LEMMA SameSetIsEqual ==
  ASSUME NEW A, NEW B, IsFiniteSet(A), IsFiniteSet(B)
  PROVE  SameSet(A, B) <=> A = B
BY FS_Subset DEF SameSet

\* The values of finitely many assets are finitely many.
LEMMA FiniteValues ==
  ASSUME NEW S, IsFiniteSet(S)
  PROVE  IsFiniteSet({a.value : a \in S})
<1> DEFINE T == {a.value : a \in S}
           f == [a \in S |-> a.value]
<1>1. f \in [S -> T] /\ \A v \in T : \E a \in S : f[a] = v
  OBVIOUS
<1>2. f \in Surjection(S, T)
  BY <1>1 DEF Surjection
<1> QED BY <1>2, FS_Surjection

\* Both ends of each edge of BuildKnowledgeGraph are added as nodes.
LEMMA GraphEnds ==
  ASSUME NEW S, NEW F, NEW e \in GraphEdges(S, F)
  PROVE  {e[1], e[2]} \subseteq GraphNodes(S, F)
<1>1. e[1] # "" /\ e[2] # ""
  BY DEF GraphEdges
<1>2. CASE \E f \in F : e = <<f.asset, PathID(f)>>
  <2>1. PICK f \in F : e = <<f.asset, PathID(f)>>
    BY <1>2
  <2>2. e[1] = f.asset /\ e[2] = PathID(f)
    BY <2>1
  <2> QED BY <1>1, <2>2 DEF GraphNodes
<1>3. CASE \E a \in Drawn(S) : e = IF Prefix(a.type) = "id:" THEN <<NodeID(a), a.parent>> ELSE <<GraphParent(a), NodeID(a)>>
  <2>1. PICK a \in Drawn(S) : e = IF Prefix(a.type) = "id:" THEN <<NodeID(a), a.parent>> ELSE <<GraphParent(a), NodeID(a)>>
    BY <1>3
  <2>2. Prefix(a.type) = "id:" => GraphParent(a) = a.parent
    BY DEF GraphParent
  <2>3. {e[1], e[2]} \subseteq {NodeID(a), GraphParent(a)}
    BY <2>1, <2>2
  <2> QED BY <1>1, <2>3 DEF GraphNodes
<1> QED BY <1>2, <1>3 DEF GraphEdges

\* The values of a type below a parent.
Under(R, type, p) == {a.value : a \in {b \in OfType(R, type) : b.parent = p}}

\* What the findings of a scan are compared by.
FindingKeys(s) == {FindingKey(f) : f \in FindingRows(findings[s])}

\* Two scans agree in everything that is compared.
Agree(s, t) ==
  /\ \A type \in {"open_port", "host"} : ValuesByType(assets[s], type) = ValuesByType(assets[t], type)
  /\ \A type \in {"service", "tls_certificate", "technology"} : \A p :
       Under(assets[s], type, p) = Under(assets[t], type, p)
  /\ FindingKeys(s) = FindingKeys(t)

\* No parent has changed exactly if the values below every parent are the same.
LEMMA NoChangedParent ==
  ASSUME NEW S, NEW T, NEW type, IsFiniteSet(S), IsFiniteSet(T)
  PROVE  ChangedParentValues(S, T, type) = {} <=> \A p : Under(S, type, p) = Under(T, type, p)
<1> DEFINE Parents == {a.parent : a \in OfType(S \cup T, type)}
<1>1. ASSUME NEW R, IsFiniteSet(R), NEW p PROVE IsFiniteSet(Under(R, type, p))
  <2>1. {b \in OfType(R, type) : b.parent = p} \in SUBSET R
    BY DEF OfType
  <2>2. IsFiniteSet({b \in OfType(R, type) : b.parent = p})
    BY <1>1, <2>1, FS_Subset
  <2> QED BY <2>2, FiniteValues DEF Under
<1>2. ChangedParentValues(S, T, type) = {p \in Parents : ~SameSet(Under(S, type, p), Under(T, type, p))}
  BY DEF ChangedParentValues, Under
<1>3. \A p : SameSet(Under(S, type, p), Under(T, type, p)) <=> Under(S, type, p) = Under(T, type, p)
  BY <1>1, SameSetIsEqual
<1>4. ASSUME NEW p, p \notin Parents PROVE Under(S, type, p) = {} /\ Under(T, type, p) = {}
  BY <1>4 DEF Under, OfType
<1> HIDE DEF Parents
<1> QED BY <1>2, <1>3, <1>4

\* A drift report is empty exactly if the scans agree.
LEMMA NoDriftIsAgree ==
  ASSUME NEW s \in Scan, NEW t \in Scan, IsFiniteSet(assets[s]), IsFiniteSet(assets[t])
  PROVE  ~DetectDrift(s, t) <=> Agree(s, t)
<1> DEFINE S == assets[s]
           T == assets[t]
           c == Compare(S, T, FindingRows(findings[s]), FindingRows(findings[t]))
<1>1. ~DetectDrift(s, t) <=>
        /\ c.newOpenPorts = {} /\ c.newlyClosedPorts = {} /\ c.newHosts = {} /\ c.removedHosts = {}
        /\ c.serviceChanges = {} /\ c.certificateChanges = {} /\ c.technologyChanges = {}
        /\ c.vulnerabilityChanges = {}
  <2>1. DOMAIN c = {"newOpenPorts", "newlyClosedPorts", "newHosts", "removedHosts", "serviceChanges",
                    "certificateChanges", "technologyChanges", "vulnerabilityChanges"}
    BY DEF Compare
  <2>2. DetectDrift(s, t) <=> \E k \in DOMAIN c : c[k] # {}
    BY DEF DetectDrift
  <2> HIDE DEF c
  <2> QED BY <2>1, <2>2
<1>2. c.newOpenPorts = {} /\ c.newlyClosedPorts = {} <=> ValuesByType(S, "open_port") = ValuesByType(T, "open_port")
  BY DEF Compare
<1>3. c.newHosts = {} /\ c.removedHosts = {} <=> ValuesByType(S, "host") = ValuesByType(T, "host")
  BY DEF Compare
<1>4. /\ c.serviceChanges = ChangedParentValues(S, T, "service")
      /\ c.certificateChanges = ChangedParentValues(S, T, "tls_certificate")
      /\ c.technologyChanges = ChangedParentValues(S, T, "technology")
      /\ c.vulnerabilityChanges = SymDiff(FindingKeys(s), FindingKeys(t))
  BY DEF Compare, FindingSetDiff, FindingKeys
<1>5. c.vulnerabilityChanges = {} <=> FindingKeys(s) = FindingKeys(t)
  BY <1>4 DEF SymDiff
<1>6. /\ c.serviceChanges = {} <=> \A p : Under(S, "service", p) = Under(T, "service", p)
      /\ c.certificateChanges = {} <=> \A p : Under(S, "tls_certificate", p) = Under(T, "tls_certificate", p)
      /\ c.technologyChanges = {} <=> \A p : Under(S, "technology", p) = Under(T, "technology", p)
  BY <1>4, NoChangedParent
<1> HIDE DEF c
<1> QED BY <1>1, <1>2, <1>3, <1>5, <1>6 DEF Agree

\* What is compared of a scan, kind by kind.
LEMMA ComparedParts ==
  ASSUME NEW s \in Scan
  PROVE  /\ \A type \in {"open_port", "host"} : \A v :
              <<type, v, "">> \in Compared(s) <=> v \in ValuesByType(assets[s], type)
         /\ \A type \in {"service", "tls_certificate", "technology"} : \A v, p :
              <<type, v, p>> \in Compared(s) <=> v \in Under(assets[s], type, p)
         /\ \A k, l : <<"finding", k, l>> \in Compared(s) <=> <<k, l>> \in FindingKeys(s)
         /\ \A x \in Compared(s) :
              \/ \E type \in {"open_port", "host"} : \E v : x = <<type, v, "">>
              \/ \E type \in {"service", "tls_certificate", "technology"} : \E v, p : x = <<type, v, p>>
              \/ \E k, l : x = <<"finding", k, l>>
<1> DEFINE C(a) == <<a.type, a.value, IF a.type \in {"open_port", "host"} THEN "" ELSE a.parent>>
           Kept == {b \in assets[s] : b.type \in {"open_port", "host", "service", "tls_certificate", "technology"}}
           F == FindingRows(findings[s])
<1>0. \A x : x \in Compared(s) <=>
        (\E a \in Kept : x = C(a)) \/ (\E f \in F : x = <<"finding", FindingKey(f)[1], FindingKey(f)[2]>>)
  BY DEF Compared
<1>f. \A f : FindingKey(f) = <<FindingKey(f)[1], FindingKey(f)[2]>>
  BY DEF FindingKey
<1>c. \A a, u, v, w : <<u, v, w>> = C(a) <=>
        u = a.type /\ v = a.value /\ w = (IF a.type \in {"open_port", "host"} THEN "" ELSE a.parent)
  OBVIOUS
<1>d. \A f, u, v, w : <<u, v, w>> = <<"finding", FindingKey(f)[1], FindingKey(f)[2]>> <=>
        u = "finding" /\ v = FindingKey(f)[1] /\ w = FindingKey(f)[2]
  OBVIOUS
<1>k. \A a : a \in Kept <=>
        a \in assets[s] /\ a.type \in {"open_port", "host", "service", "tls_certificate", "technology"}
  OBVIOUS
<1> HIDE DEF C, Kept, F
<1> DEFINE Part(u, v, w) ==
        \/ \E a \in Kept : u = a.type /\ v = a.value /\ w = (IF a.type \in {"open_port", "host"} THEN "" ELSE a.parent)
        \/ \E f \in F : u = "finding" /\ v = FindingKey(f)[1] /\ w = FindingKey(f)[2]
<1>e. ASSUME NEW u, NEW v, NEW w
      PROVE  <<u, v, w>> \in Compared(s) <=> Part(u, v, w)
  <2>1. <<u, v, w>> \in Compared(s) <=>
          \/ \E a \in Kept : <<u, v, w>> = C(a)
          \/ \E f \in F : <<u, v, w>> = <<"finding", FindingKey(f)[1], FindingKey(f)[2]>>
    BY <1>0, Zenon
  <2>2. \A a : <<u, v, w>> = C(a) <=>
          u = a.type /\ v = a.value /\ w = (IF a.type \in {"open_port", "host"} THEN "" ELSE a.parent)
    BY <1>c, Zenon
  <2>3. \A f : <<u, v, w>> = <<"finding", FindingKey(f)[1], FindingKey(f)[2]>> <=>
          u = "finding" /\ v = FindingKey(f)[1] /\ w = FindingKey(f)[2]
    BY <1>d, Zenon
  <2> QED BY <2>1, <2>2, <2>3, Zenon
<1> HIDE DEF Part
<1>1. ASSUME NEW type \in {"open_port", "host"}, NEW v
      PROVE  <<type, v, "">> \in Compared(s) <=> v \in ValuesByType(assets[s], type)
  <2>1. <<type, v, "">> \in Compared(s) <=> \E a \in Kept : type = a.type /\ v = a.value
    <3>1. <<type, v, "">> \in Compared(s) <=> Part(type, v, "")
      BY <1>e
    <3> QED BY <1>k, <3>1 DEF Part
  <2> QED BY <1>k, <2>1 DEF ValuesByType, OfType
<1>2. ASSUME NEW type \in {"service", "tls_certificate", "technology"}, NEW v, NEW p
      PROVE  <<type, v, p>> \in Compared(s) <=> v \in Under(assets[s], type, p)
  <2>1. <<type, v, p>> \in Compared(s) <=> \E a \in Kept : type = a.type /\ v = a.value /\ p = a.parent
    <3>1. <<type, v, p>> \in Compared(s) <=> Part(type, v, p)
      BY <1>e
    <3> QED BY <1>k, <3>1 DEF Part
  <2> QED BY <1>k, <2>1 DEF Under, OfType
<1>3. ASSUME NEW k, NEW l PROVE <<"finding", k, l>> \in Compared(s) <=> <<k, l>> \in FindingKeys(s)
  <2>1. <<"finding", k, l>> \in Compared(s) <=> \E f \in F : k = FindingKey(f)[1] /\ l = FindingKey(f)[2]
    <3>1. <<"finding", k, l>> \in Compared(s) <=> Part("finding", k, l)
      BY <1>e
    <3> QED BY <1>k, <3>1 DEF Part
  <2>2. <<k, l>> \in FindingKeys(s) <=> \E f \in F : <<k, l>> = FindingKey(f)
    BY DEF FindingKeys, F
  <2>3. \A f : <<k, l>> = FindingKey(f) <=> k = FindingKey(f)[1] /\ l = FindingKey(f)[2]
    BY <1>f
  <2> QED BY <2>1, <2>2, <2>3
<1>4. ASSUME NEW x \in Compared(s)
      PROVE  \/ \E type \in {"open_port", "host"} : \E v : x = <<type, v, "">>
             \/ \E type \in {"service", "tls_certificate", "technology"} : \E v, p : x = <<type, v, p>>
             \/ \E k, l : x = <<"finding", k, l>>
  <2>1. CASE \E a \in Kept : x = C(a)
    <3>1. PICK a \in Kept : x = C(a)
      BY <2>1
    <3>2. CASE a.type \in {"open_port", "host"}
      <4>1. x = <<a.type, a.value, "">>
        BY <3>1, <3>2 DEF C
      <4> QED BY <3>2, <4>1
    <3>3. CASE a.type \in {"service", "tls_certificate", "technology"}
      <4>1. x = <<a.type, a.value, a.parent>>
        BY <3>1, <3>3 DEF C
      <4> QED BY <3>3, <4>1
    <3> QED BY <1>k, <3>1, <3>2, <3>3
  <2>2. CASE \E f \in F : x = <<"finding", FindingKey(f)[1], FindingKey(f)[2]>>
    BY <2>2
  <2> QED BY <1>0, <2>1, <2>2
<1> QED BY <1>1, <1>2, <1>3, <1>4

\* Scans that agree are compared alike.
LEMMA AgreeCompares ==
  ASSUME NEW s \in Scan, NEW t \in Scan, Agree(s, t), NEW x \in Compared(s)
  PROVE  x \in Compared(t)
<1>1. CASE \E type \in {"open_port", "host"} : \E v : x = <<type, v, "">>
  <2>0. PICK type \in {"open_port", "host"} : \E v : x = <<type, v, "">>
    BY <1>1
  <2>1. PICK v : x = <<type, v, "">>
    BY <2>0
  <2>2. v \in ValuesByType(assets[t], type)
    BY <2>1, ComparedParts DEF Agree
  <2> QED BY <2>1, <2>2, ComparedParts
<1>2. CASE \E type \in {"service", "tls_certificate", "technology"} : \E v, p : x = <<type, v, p>>
  <2>0. PICK type \in {"service", "tls_certificate", "technology"} : \E v, p : x = <<type, v, p>>
    BY <1>2
  <2>1. PICK v, p : x = <<type, v, p>>
    BY <2>0
  <2>2. v \in Under(assets[t], type, p)
    BY <2>1, ComparedParts DEF Agree
  <2> QED BY <2>1, <2>2, ComparedParts
<1>3. CASE \E k, l : x = <<"finding", k, l>>
  <2>1. PICK k, l : x = <<"finding", k, l>>
    BY <1>3
  <2>2. <<k, l>> \in FindingKeys(t)
    BY <2>1, ComparedParts DEF Agree
  <2> QED BY <2>1, <2>2, ComparedParts
<1> QED BY <1>1, <1>2, <1>3, ComparedParts

\* And only those.
LEMMA ComparedAgrees ==
  ASSUME NEW s \in Scan, NEW t \in Scan, Compared(s) = Compared(t)
  PROVE  Agree(s, t)
<1>1. ASSUME NEW type \in {"open_port", "host"} PROVE ValuesByType(assets[s], type) = ValuesByType(assets[t], type)
  <2>1. \A v : v \in ValuesByType(assets[s], type) <=> v \in ValuesByType(assets[t], type)
    BY ComparedParts
  <2> QED BY <2>1
<1>2. ASSUME NEW type \in {"service", "tls_certificate", "technology"}, NEW p
      PROVE  Under(assets[s], type, p) = Under(assets[t], type, p)
  <2>1. \A v : v \in Under(assets[s], type, p) <=> v \in Under(assets[t], type, p)
    BY ComparedParts
  <2> QED BY <2>1
<1>3. FindingKeys(s) = FindingKeys(t)
  <2>1. \A k, l : <<k, l>> \in FindingKeys(s) <=> <<k, l>> \in FindingKeys(t)
    BY ComparedParts
  <2>2. \A x \in FindingKeys(s) \cup FindingKeys(t) : \E k, l : x = <<k, l>>
    BY DEF FindingKeys, FindingKey
  <2> QED BY <2>1, <2>2
<1> QED BY <1>1, <1>2, <1>3 DEF Agree

\* The drift report, on any two finite tables.
LEMMA DriftOfTables ==
  ASSUME NEW s \in Scan, NEW t \in Scan, IsFiniteSet(assets[s]), IsFiniteSet(assets[t])
  PROVE  DetectDrift(s, t) <=> Compared(s) # Compared(t)
<1>1. Agree(s, t) => Agree(t, s)
  BY DEF Agree
<1>2. ASSUME Agree(s, t) PROVE Compared(s) = Compared(t)
  <2>1. Compared(s) \subseteq Compared(t)
    BY <1>2, AgreeCompares
  <2>2. Compared(t) \subseteq Compared(s)
    BY <1>1, <1>2, AgreeCompares
  <2> QED BY <2>1, <2>2
<1> QED BY <1>2, ComparedAgrees, NoDriftIsAgree

----------------------------------------------------------------------------
(***************************************************************************)
(* Steps.                                                                  *)
(***************************************************************************)

\* The tables only grow.
Grows == \A s \in Scan : /\ assets[s] \subseteq assets'[s]
                         /\ FindingRows(findings[s]) \subseteq FindingRows(findings'[s])
                         /\ Related(s) \subseteq Related(s)'

\* The table of a scan's assets, and of its findings.
AssetsOK(s) ==
  /\ IsFiniteSet(assets[s])
  /\ \A a, b \in assets[s] : Key(a) = Key(b) => a = b
  /\ \A a \in assets[s] : (a \in Observed[s] \/ DerivedRow(a)) /\ Grounded(s, a)

FindingsOK(s) ==
  /\ IsFiniteSet(findings[s])
  /\ \A c \in findings[s] : c.copy \in 1..Cardinality({d \in findings[s] : d.row = c.row})

\* The variables that only say how far things are.
CountersOK ==
  /\ \A s \in Scan : fresh[s] \subseteq {"analyze", "correlate", "score"}
  /\ stale \subseteq Process
  /\ started \in 0..MaxCommands /\ imported \in 0..MaxImports

\* TypeOK and TablesGrounded, table by table.
LEMMA TablesApart ==
  TypeOK /\ TablesGrounded <=> CountersOK /\ \A s \in Scan : AssetsOK(s) /\ FindingsOK(s)
<1>1. TypeOK /\ TablesGrounded => CountersOK /\ \A s \in Scan : AssetsOK(s) /\ FindingsOK(s)
  BY DEF TypeOK, TablesGrounded, CountersOK, AssetsOK, FindingsOK
<1>2. ASSUME CountersOK, \A s \in Scan : AssetsOK(s) /\ FindingsOK(s) PROVE TypeOK /\ TablesGrounded
  <2>1. TablesGrounded
    BY <1>2 DEF TablesGrounded, AssetsOK
  <2>2. ASSUME NEW s \in Scan, NEW a \in assets[s]
        PROVE  /\ a \in Observed[s] \/ a.type \in Derived
               /\ a.type \in {"business_impact_score", "risk_assessment"} => a.meta[2] \in 0..100
    <3>1. a \in Observed[s] => a.type \notin Derived
      BY AnalysisAssumption
    <3>2. a \in Observed[s] \/ DerivedRow(a)
      BY <1>2 DEF AssetsOK
    <3> QED BY <3>1, <3>2 DEF DerivedRow, Derived
  <2>3. TypeOK
    BY <1>2, <2>2 DEF TypeOK, CountersOK, AssetsOK, FindingsOK
  <2> QED BY <2>1, <2>3
<1> QED BY <1>1, <1>2

\* The relation of stored evidence grows with the tables.
LEMMA RelatedGrows ==
  ASSUME NEW s \in Scan, assets[s] \subseteq assets'[s],
         FindingRows(findings[s]) \subseteq FindingRows(findings'[s])
  PROVE  Related(s) \subseteq Related(s)'
<1> DEFINE A(S) == {<<a.parent, a.value>> : a \in {b \in S : b.type \notin Derived}}
           F(R) == UNION {{<<f.asset, FindingID(f)>>, <<FindingID(f), f.cve>>, <<f.asset, f.cve>>} : f \in R}
<1>1. Related(s) = A(assets[s]) \cup F(FindingRows(findings[s]))
  BY DEF Related
<1>2. Related(s)' = A(assets'[s]) \cup F(FindingRows(findings'[s]))
  BY DEF Related
<1>3. A(assets[s]) \subseteq A(assets'[s])
  OBVIOUS
<1>4. F(FindingRows(findings[s])) \subseteq F(FindingRows(findings'[s]))
  OBVIOUS
<1> HIDE DEF A, F
<1> QED BY <1>1, <1>2, <1>3, <1>4

\* AddAsset on one scan.
LEMMA AddAssetStep ==
  ASSUME Domains, NEW s \in Scan, NEW a, assets' = [assets EXCEPT ![s] = AddAsset(s, a)], UNCHANGED findings
  PROVE  /\ Grows /\ DOMAIN assets' = Scan
         /\ \A t \in Scan : t # s => assets'[t] = assets[t]
         /\ Key(a) \in Keys(assets'[s])
         /\ \/ assets'[s] = assets[s]
            \/ assets'[s] = assets[s] \cup {a} /\ Key(a) \notin Keys(assets[s])
<1>1. DOMAIN assets' = Scan /\ assets'[s] = AddAsset(s, a) /\ \A t \in Scan : t # s => assets'[t] = assets[t]
  BY DEF Domains
<1>2. \/ assets'[s] = assets[s] /\ Key(a) \in Keys(assets[s])
      \/ assets'[s] = assets[s] \cup {a} /\ Key(a) \notin Keys(assets[s])
  BY <1>1 DEF AddAsset
<1>3. Key(a) \in Keys(assets'[s])
  BY <1>2 DEF Keys
<1>4. \A t \in Scan : assets[t] \subseteq assets'[t]
  BY <1>1, <1>2
<1>5. Grows
  BY <1>4, RelatedGrows DEF Grows
<1> QED BY <1>1, <1>2, <1>3, <1>5

\* The tables after AddAsset, if the asset was observed or derived.
LEMMA AddAssetOK ==
  ASSUME Domains, \A t \in Scan : AssetsOK(t) /\ FindingsOK(t), NEW s \in Scan, NEW a,
         a \in Observed[s] \/ (DerivedRow(a) /\ Grounded(s, a)),
         assets' = [assets EXCEPT ![s] = AddAsset(s, a)], UNCHANGED findings
  PROVE  \A t \in Scan : AssetsOK(t)' /\ FindingsOK(t)'
<1>1. \A t \in Scan : FindingsOK(t)'
  BY DEF FindingsOK
<1>2. ASSUME NEW t \in Scan, NEW b \in assets[t] PROVE (b \in Observed[t] \/ DerivedRow(b)) /\ Grounded(t, b)'
  <2>1. Related(t) \subseteq Related(t)'
    BY AddAssetStep DEF Grows
  <2> QED BY <2>1 DEF AssetsOK, Grounded
<1>3. ASSUME NEW t \in Scan, assets'[t] = assets[t] PROVE AssetsOK(t)'
  BY <1>2, <1>3 DEF AssetsOK
<1>4. ASSUME assets'[s] = assets[s] \cup {a}, Key(a) \notin Keys(assets[s]) PROVE AssetsOK(s)'
  <2>1. IsFiniteSet(assets'[s])
    BY <1>4, FS_AddElement DEF AssetsOK
  <2>2. \A b, c \in assets'[s] : Key(b) = Key(c) => b = c
    BY <1>4 DEF AssetsOK, Keys
  <2>3. Grounded(s, a)'
    <3>1. CASE a \in Observed[s]
      <4>1. a.type \notin Derived
        BY <3>1, AnalysisAssumption
      <4>2. <<a.parent, a.value>> \in Related(s)'
        BY <1>4, <4>1 DEF Related
      <4> QED BY <4>2 DEF Grounded
    <3>2. CASE Grounded(s, a)
      <4>1. Related(s) \subseteq Related(s)'
        BY AddAssetStep DEF Grows
      <4> QED BY <3>2, <4>1 DEF Grounded
    <3> QED BY <3>1, <3>2
  <2>4. \A b \in assets'[s] : (b \in Observed[s] \/ DerivedRow(b)) /\ Grounded(s, b)'
    BY <1>2, <1>4, <2>3
  <2> QED BY <2>1, <2>2, <2>4 DEF AssetsOK
<1> QED BY <1>1, <1>3, <1>4, AddAssetStep

\* AddFinding on one scan: every copy is kept.
LEMMA AddFindingStep ==
  ASSUME Domains, \A t \in Scan : AssetsOK(t) /\ FindingsOK(t), NEW s \in Scan, NEW f,
         findings' = [findings EXCEPT ![s] = AddFinding(s, f)], UNCHANGED assets
  PROVE  /\ Grows /\ DOMAIN findings' = Scan
         /\ \A t \in Scan : t # s => findings'[t] = findings[t]
         /\ \A t \in Scan : AssetsOK(t)' /\ FindingsOK(t)'
<1> DEFINE Same(S, g) == {d \in S : d.row = g}
           n == Cardinality(Same(findings[s], f))
           x == [row |-> f, copy |-> 1 + n]
<1>1. /\ DOMAIN findings' = Scan /\ findings'[s] = findings[s] \cup {x}
      /\ \A t \in Scan : t # s => findings'[t] = findings[t]
  BY DEF Domains, AddFinding
<1>2. \A t \in Scan : findings[t] \subseteq findings'[t]
  BY <1>1
<1>3. \A t \in Scan : FindingRows(findings[t]) \subseteq FindingRows(findings'[t])
  BY <1>2 DEF FindingRows
<1>4. Grows
  BY <1>3, RelatedGrows DEF Grows
<1>5. ASSUME NEW t \in Scan PROVE AssetsOK(t)'
  <2>1. Related(t) \subseteq Related(t)'
    BY <1>4 DEF Grows
  <2>2. \A b \in assets[t] : Grounded(t, b)
    BY DEF AssetsOK
  <2>3. \A b \in assets[t] : Grounded(t, b)'
    BY <2>1, <2>2 DEF Grounded
  <2> QED BY <2>3 DEF AssetsOK
<1>6. FindingsOK(s)'
  <2>1. IsFiniteSet(findings[s]) /\ IsFiniteSet(findings'[s])
    <3>1. IsFiniteSet(findings[s])
      BY DEF FindingsOK
    <3> HIDE DEF x
    <3> QED BY <1>1, <3>1, FS_AddElement
  <2>2. ASSUME NEW g PROVE IsFiniteSet(Same(findings[s], g)) /\ Cardinality(Same(findings[s], g)) \in Nat
    <3>1. Same(findings[s], g) \in SUBSET findings[s]
      OBVIOUS
    <3>2. IsFiniteSet(Same(findings[s], g))
      BY <2>1, <3>1, FS_Subset
    <3> QED BY <3>2, FS_CardinalityType
  <2>3. n \in Nat
    BY <2>2
  <2>4. x.row = f /\ x.copy = n + 1
    BY <2>3
  <2>5. x \notin findings[s]
    <3>1. ASSUME x \in findings[s] PROVE FALSE
      <4>1. x.copy \in 1..Cardinality(Same(findings[s], f))
        BY <2>4, <3>1 DEF FindingsOK
      <4> QED BY <2>3, <2>4, <4>1
    <3> QED BY <3>1
  <2>6. Same(findings'[s], f) = Same(findings[s], f) \cup {x} /\ x \notin Same(findings[s], f)
    <3> HIDE DEF x
    <3> QED BY <1>1, <2>4, <2>5
  <2>7. Cardinality(Same(findings'[s], f)) = n + 1
    <3> HIDE DEF x, Same
    <3>1. IsFiniteSet(Same(findings[s], f))
      BY <2>2
    <3> QED BY <2>6, <3>1, FS_AddElement
  <2>8. \A g : g # f => Same(findings'[s], g) = Same(findings[s], g)
    BY <1>1, <2>4
  <2>9. ASSUME NEW c \in findings'[s] PROVE c.copy \in 1..Cardinality(Same(findings'[s], c.row))
    <3>1. CASE c = x
      BY <2>3, <2>4, <2>7, <3>1
    <3>2. CASE c \in findings[s] /\ c.row = f
      <4>1. c.copy \in 1..n
        BY <3>2 DEF FindingsOK
      <4> QED BY <2>3, <2>7, <3>2, <4>1
    <3>3. CASE c \in findings[s] /\ c.row # f
      <4>1. c.copy \in 1..Cardinality(Same(findings[s], c.row))
        BY <3>3 DEF FindingsOK
      <4> QED BY <2>8, <3>3, <4>1
    <3> QED BY <1>1, <3>1, <3>2, <3>3
  <2> QED BY <2>1, <2>9 DEF FindingsOK
<1>7. ASSUME NEW t \in Scan, t # s PROVE FindingsOK(t)'
  BY <1>1, <1>7 DEF FindingsOK
<1> QED BY <1>1, <1>4, <1>5, <1>6, <1>7

\* A process that takes no step goes on with what it has.
LEMMA WorkingStays ==
  ASSUME Grows, NEW p \in Process, Working(p), proc'[p] = proc[p]
  PROVE  Working(p)'
<1>1. ASSUME NEW s \in Scan, NEW a, Grounded(s, a) PROVE Grounded(s, a)'
  BY <1>1 DEF Grounded, Grows
<1>2. ASSUME proc[p].rows # {} PROVE proc[p].scan \in Scan
  BY <1>2 DEF Working
<1>3. \A a \in proc[p].rows : Grounded(proc[p].scan, a)'
  BY <1>1, <1>2 DEF Working
<1>4. proc[p].cmd = "analyze-query" => proc[p].first \subseteq FindingRows(findings'[proc[p].scan])
  BY DEF Working, Grows
<1>5. proc[p].cmd \in {"correlate-query", "score-query"} => proc[p].first \subseteq assets'[proc[p].scan]
  BY DEF Working, Grows
<1> QED BY <1>3, <1>4, <1>5 DEF Working

\* As long as its scan does not change, it is all that is missing.
LEMMA SettlingStays ==
  ASSUME NEW p \in Process, Settling(p), proc'[p] = proc[p], p \notin stale' => p \notin stale,
         p \notin stale' /\ proc[p].cmd # "idle" =>
           assets'[proc[p].scan] = assets[proc[p].scan] /\ findings'[proc[p].scan] = findings[proc[p].scan]
  PROVE  Settling(p)'
BY DEF Settling

\* A scan that does not change stays settled.
LEMMA SettledStays ==
  ASSUME NEW s \in Scan, Settled(s), fresh'[s] \subseteq fresh[s],
         fresh'[s] # {} => assets'[s] = assets[s] /\ findings'[s] = findings[s]
  PROVE  Settled(s)'
BY DEF Settled

\* Who learns of a change of a scan.
LEMMA ChangedStep ==
  ASSUME Domains, CountersOK, NEW s \in Scan, NEW own, Changed(s, own)
  PROVE  /\ DOMAIN fresh' = Scan /\ fresh'[s] = {} /\ \A t \in Scan : t # s => fresh'[t] = fresh[t]
         /\ \A t \in Scan : fresh'[t] \subseteq fresh[t]
         /\ stale \subseteq stale' /\ stale' \subseteq Process
         /\ \A q \in Process : q \notin own /\ q \notin stale' => proc[q].scan # s
<1>1. DOMAIN fresh' = Scan /\ fresh'[s] = {} /\ \A t \in Scan : t # s => fresh'[t] = fresh[t]
  BY DEF Changed, Domains
<1>2. stale \subseteq stale' /\ stale' \subseteq Process
  BY DEF Changed, CountersOK
<1>3. \A q \in Process : q \notin own /\ q \notin stale' => proc[q].scan # s
  BY DEF Changed
<1> QED BY <1>1, <1>2, <1>3

\* The invariant, scan by scan and process by process.
Apart ==
  /\ CountersOK /\ Domains
  /\ \A s \in Scan : AssetsOK(s) /\ FindingsOK(s) /\ Settled(s)
  /\ \A p \in Process : Working(p) /\ Settling(p)

\* Apart is the invariant again, with TypeOK split over scans and processes.
LEMMA InvApart == AnalysisInv <=> Apart
BY TablesApart DEF AnalysisInv, Apart

\* The same of the next state.
LEMMA InvApartNext == AnalysisInv' <=> Apart'
BY InvApart, PTL

\* The scan stores an asset.
LEMMA ObserveInv ==
  ASSUME AnalysisInv, NEW s \in Scan, NEW a \in Observed[s], Observe(s, a) PROVE AnalysisInv'
<1>0. /\ CountersOK /\ Domains /\ \A t \in Scan : AssetsOK(t) /\ FindingsOK(t) /\ Settled(t)
      /\ \A p \in Process : Working(p) /\ Settling(p)
  BY InvApart DEF Apart
<1>1. /\ assets' = [assets EXCEPT ![s] = AddAsset(s, a)] /\ Changed(s, {})
      /\ UNCHANGED <<findings, proc, started, imported>>
  BY DEF Observe
<1>2. /\ Grows /\ DOMAIN assets' = Scan
      /\ \A t \in Scan : t # s => assets'[t] = assets[t]
  BY <1>0, <1>1, AddAssetStep
<1>3. \A t \in Scan : AssetsOK(t)' /\ FindingsOK(t)'
  BY <1>0, <1>1, AddAssetOK
<1>4. /\ DOMAIN fresh' = Scan /\ fresh'[s] = {} /\ \A t \in Scan : t # s => fresh'[t] = fresh[t]
      /\ \A t \in Scan : fresh'[t] \subseteq fresh[t]
      /\ stale \subseteq stale' /\ stale' \subseteq Process
      /\ \A q \in Process : q \notin {} /\ q \notin stale' => proc[q].scan # s
  BY <1>0, <1>1, ChangedStep
<1>5. CountersOK' /\ Domains'
  BY <1>0, <1>1, <1>2, <1>4 DEF CountersOK, Domains
<1>6. ASSUME NEW t \in Scan PROVE Settled(t)'
  BY <1>0, <1>1, <1>2, <1>4, SettledStays
<1>7. ASSUME NEW q \in Process PROVE Working(q)' /\ Settling(q)'
  <2>1. Working(q)'
    BY <1>0, <1>1, <1>2, WorkingStays
  <2>2. proc[q].cmd # "idle" => proc[q].scan \in Scan
    BY <1>0 DEF Working
  <2>3. Settling(q)'
    BY <1>0, <1>1, <1>2, <1>4, <2>2, SettlingStays
  <2> QED BY <2>1, <2>3
<1> QED BY <1>3, <1>5, <1>6, <1>7, InvApartNext DEF Apart

\* A finding is imported.
LEMMA ImportReportInv ==
  ASSUME AnalysisInv, NEW s \in Scan, NEW r \in Reported, ImportReport(s, r) PROVE AnalysisInv'
<1>0. /\ CountersOK /\ Domains /\ \A t \in Scan : AssetsOK(t) /\ FindingsOK(t) /\ Settled(t)
      /\ \A p \in Process : Working(p) /\ Settling(p)
  BY InvApart DEF Apart
<1>1. /\ findings' = [findings EXCEPT ![s] = AddFinding(s, ImportedFinding(r))] /\ Changed(s, {})
      /\ imported < MaxImports /\ imported' = imported + 1
      /\ UNCHANGED <<assets, proc, started>>
  BY DEF ImportReport
<1>2. /\ Grows /\ DOMAIN findings' = Scan
      /\ \A t \in Scan : t # s => findings'[t] = findings[t]
      /\ \A t \in Scan : AssetsOK(t)' /\ FindingsOK(t)'
  BY <1>0, <1>1, AddFindingStep
<1>4. /\ DOMAIN fresh' = Scan /\ fresh'[s] = {} /\ \A t \in Scan : t # s => fresh'[t] = fresh[t]
      /\ \A t \in Scan : fresh'[t] \subseteq fresh[t]
      /\ stale \subseteq stale' /\ stale' \subseteq Process
      /\ \A q \in Process : q \notin {} /\ q \notin stale' => proc[q].scan # s
  BY <1>0, <1>1, ChangedStep
<1>5. CountersOK' /\ Domains'
  BY <1>0, <1>1, <1>2, <1>4, AnalysisAssumption DEF CountersOK, Domains
<1>6. ASSUME NEW t \in Scan PROVE Settled(t)'
  BY <1>0, <1>1, <1>2, <1>4, SettledStays
<1>7. ASSUME NEW q \in Process PROVE Working(q)' /\ Settling(q)'
  <2>1. Working(q)'
    BY <1>0, <1>1, <1>2, WorkingStays
  <2>2. proc[q].cmd # "idle" => proc[q].scan \in Scan
    BY <1>0 DEF Working
  <2>3. Settling(q)'
    BY <1>0, <1>1, <1>2, <1>4, <2>2, SettlingStays
  <2> QED BY <2>1, <2>3
<1> QED BY <1>2, <1>5, <1>6, <1>7, InvApartNext DEF Apart

\* A step of one process that leaves the tables alone.
LEMMA ProcessInv ==
  ASSUME AnalysisInv, UNCHANGED <<assets, findings>>, CountersOK', DOMAIN fresh' = Scan, DOMAIN proc' = Process,
         NEW p \in Process, \A q \in Process : q # p => proc'[q] = proc[q] /\ (q \notin stale' => q \notin stale),
         Working(p)', Settling(p)', \A s \in Scan : Settled(s)'
  PROVE  AnalysisInv'
<1>0. /\ CountersOK /\ Domains /\ \A t \in Scan : AssetsOK(t) /\ FindingsOK(t) /\ Settled(t)
      /\ \A q \in Process : Working(q) /\ Settling(q)
  BY InvApart DEF Apart
<1>1. \A t \in Scan : AssetsOK(t)' /\ FindingsOK(t)'
  BY <1>0 DEF AssetsOK, FindingsOK, Grounded, Related
<1>2. Domains'
  BY <1>0 DEF Domains
<1>3. Grows
  BY DEF Grows, Related
<1>4. ASSUME NEW q \in Process, q # p PROVE Working(q)' /\ Settling(q)'
  <2>1. Working(q)'
    BY <1>0, <1>3, <1>4, WorkingStays
  <2>2. Settling(q)'
    BY <1>0, <1>4, SettlingStays
  <2> QED BY <2>1, <2>2
<1> QED BY <1>1, <1>2, <1>4, InvApartNext DEF Apart

\* The first query.
LEMMA StartInv ==
  ASSUME AnalysisInv, NEW p \in Process, NEW s \in Scan,
         NEW cmd \in {"analyze-query", "correlate-query", "score-query"}, Start(p, s, cmd)
  PROVE  AnalysisInv'
<1>0. CountersOK /\ Domains /\ \A t \in Scan : Settled(t)
  BY InvApart DEF Apart
<1> DEFINE read == IF cmd = "analyze-query" THEN FindingRows(findings[s]) ELSE assets[s]
<1>1. /\ UNCHANGED <<assets, findings, stale, fresh, imported>>
      /\ started < MaxCommands /\ started' = started + 1
  BY DEF Start
<1>2. proc' = [proc EXCEPT ![p] = [cmd |-> cmd, scan |-> s, first |-> read, rows |-> {}, found |-> {}]]
  BY DEF Start
<1>3. DOMAIN proc' = Process /\ \A q \in Process : q # p => proc'[q] = proc[q]
  BY <1>0, <1>2 DEF Domains
<1>4. proc'[p] = [cmd |-> cmd, scan |-> s, first |-> read, rows |-> {}, found |-> {}]
  BY <1>0, <1>2 DEF Domains
<1>5. CountersOK'
  BY <1>0, <1>1, AnalysisAssumption DEF CountersOK
<1>6. /\ IsProc(proc'[p]) /\ proc'[p].cmd = cmd /\ proc'[p].scan = s
      /\ proc'[p].rows = {} /\ proc'[p].found = {} /\ proc'[p].first = read
  BY <1>4 DEF IsProc
<1>7. Working(p)'
  BY <1>1, <1>6 DEF Working
<1>8. Settling(p)'
  BY <1>1, <1>6 DEF Settling
<1>9. \A t \in Scan : Settled(t)'
  BY <1>0, <1>1 DEF Settled
<1>10. DOMAIN fresh' = Scan
  BY <1>0, <1>1 DEF Domains
<1> QED BY <1>1, <1>3, <1>5, <1>7, <1>8, <1>9, <1>10, ProcessInv

\* A step to the writes of a command.
LEMMA QueryStep ==
  ASSUME Domains, NEW p \in Process, IsProc(proc[p]), NEW cmd, NEW rows, NEW found,
         proc' = [proc EXCEPT ![p].cmd = cmd, ![p].first = {}, ![p].rows = rows, ![p].found = found]
  PROVE  /\ DOMAIN proc' = Process /\ \A q \in Process : q # p => proc'[q] = proc[q]
         /\ proc'[p] = [cmd |-> cmd, scan |-> proc[p].scan, first |-> {}, rows |-> rows, found |-> found]
         /\ IsProc(proc'[p])
<1>1. DOMAIN proc' = Process /\ \A q \in Process : q # p => proc'[q] = proc[q]
  BY DEF Domains
<1>2. proc'[p] = [cmd |-> cmd, scan |-> proc[p].scan, first |-> {}, rows |-> rows, found |-> found]
  BY DEF Domains, IsProc
<1> QED BY <1>1, <1>2 DEF IsProc

\* The second query of correlate and of score-risk, which find nothing new.
LEMMA QueryStepNoFindings ==
  ASSUME Domains, NEW p \in Process, IsProc(proc[p]), NEW cmd, NEW rows,
         proc' = [proc EXCEPT ![p].cmd = cmd, ![p].first = {}, ![p].rows = rows]
  PROVE  /\ DOMAIN proc' = Process /\ \A q \in Process : q # p => proc'[q] = proc[q]
         /\ proc'[p] = [cmd |-> cmd, scan |-> proc[p].scan, first |-> {}, rows |-> rows, found |-> proc[p].found]
         /\ IsProc(proc'[p])
<1>1. DOMAIN proc' = Process /\ \A q \in Process : q # p => proc'[q] = proc[q]
  BY DEF Domains
<1>2. proc'[p] = [cmd |-> cmd, scan |-> proc[p].scan, first |-> {}, rows |-> rows, found |-> proc[p].found]
  BY DEF Domains, IsProc
<1> QED BY <1>1, <1>2 DEF IsProc

\* analyze-vulnerabilities has read both tables.
LEMMA AnalyzeScanInv ==
  ASSUME AnalysisInv, NEW p \in Process, AnalyzeScan(p) PROVE AnalysisInv'
<1>0. /\ CountersOK /\ Domains /\ \A t \in Scan : Settled(t)
      /\ Working(p) /\ IsProc(proc[p])
  BY InvApart DEF Apart, Working
<1> DEFINE rows == PriorityRows(proc[p].first)
           found == EvaluateRules(assets[proc[p].scan])
<1>1. proc[p].cmd = "analyze-query" /\ UNCHANGED <<assets, findings, stale, fresh, started, imported>>
  BY DEF AnalyzeScan
<1>2. proc' = [proc EXCEPT ![p].cmd = "analyze", ![p].first = {}, ![p].rows = rows, ![p].found = found]
  BY DEF AnalyzeScan
<1> HIDE DEF found
<1>s. PICK s \in Scan : s = proc[p].scan
  BY <1>0, <1>1 DEF Working
<1>3. proc[p].first \in SUBSET FindingRows(findings[s])
  BY <1>0, <1>1, <1>s DEF Working
<1>4. ASSUME NEW a \in rows PROVE DerivedRow(a) /\ Grounded(s, a)
  BY <1>3, PriorityRowsGrounded
<1> HIDE DEF rows
<1>5. /\ DOMAIN proc' = Process /\ \A q \in Process : q # p => proc'[q] = proc[q]
      /\ proc'[p] = [cmd |-> "analyze", scan |-> proc[p].scan, first |-> {}, rows |-> rows, found |-> found]
      /\ IsProc(proc'[p])
  BY <1>0, <1>2, QueryStep
<1>f. /\ proc'[p].cmd = "analyze" /\ proc'[p].scan = s
      /\ proc'[p].rows = rows /\ proc'[p].found = found
  BY <1>5, <1>s
<1>6. \A a \in rows : Grounded(s, a)'
  BY <1>1, <1>4 DEF Grounded, Related
<1>7. Working(p)'
  BY <1>4, <1>5, <1>f, <1>6 DEF Working
<1>8. Settling(p)'
  BY <1>f DEF Settling
<1>9. CountersOK' /\ DOMAIN fresh' = Scan /\ \A t \in Scan : Settled(t)'
  BY <1>0, <1>1 DEF CountersOK, Domains, Settled
<1> QED BY <1>1, <1>5, <1>7, <1>8, <1>9, ProcessInv

\* correlate has read both tables.
LEMMA CorrelateEvidenceInv ==
  ASSUME AnalysisInv, NEW p \in Process, CorrelateEvidence(p) PROVE AnalysisInv'
<1>0. /\ CountersOK /\ Domains /\ (\A t \in Scan : Settled(t)) /\ TablesGrounded
      /\ (\A t \in Scan : IsFiniteSet(assets[t]) /\ IsFiniteSet(findings[t]))
      /\ Working(p) /\ IsProc(proc[p]) /\ Settling(p)
  BY InvApart DEF Apart, Working, AnalysisInv, AssetsOK, FindingsOK
<1>s. proc[p].scan \in Scan
  BY <1>0 DEF Working, CorrelateEvidence, ScoreRisk
<1>p. PICK s \in Scan : s = proc[p].scan
  BY <1>s
<1> DEFINE rows == CorrelationRows(proc[p].first, findings[s])
<1>1. proc[p].cmd = "correlate-query" /\ UNCHANGED <<assets, findings, stale, fresh, started, imported>>
  BY DEF CorrelateEvidence
<1>2. proc' = [proc EXCEPT ![p].cmd = "correlate", ![p].first = {}, ![p].rows = rows]
  BY <1>p DEF CorrelateEvidence
<1>3. proc[p].first \in SUBSET assets[s] /\ proc[p].found = {}
  BY <1>0, <1>1, <1>p DEF Working
<1>4. ASSUME NEW a \in rows PROVE DerivedRow(a) /\ Grounded(s, a) /\ (a.type = "correlation_edge" \/ a.parent = "")
  BY <1>0, <1>3, CorrelationRowsGrounded
<1>r. p \notin stale => Keys(CorrelationRows(assets[s], findings[s])) \subseteq Keys(rows)
  BY <1>0, <1>1, <1>p DEF Settling
<1> HIDE DEF rows
<1>5. /\ DOMAIN proc' = Process /\ \A q \in Process : q # p => proc'[q] = proc[q]
      /\ proc'[p] = [cmd |-> "correlate", scan |-> proc[p].scan, first |-> {}, rows |-> rows, found |-> proc[p].found]
      /\ IsProc(proc'[p])
  BY <1>0, <1>2, QueryStepNoFindings
<1>f. /\ proc'[p].cmd = "correlate" /\ proc'[p].scan = s
      /\ proc'[p].rows = rows /\ proc'[p].found = {}
  BY <1>3, <1>5, <1>p
<1>6. \A a \in rows : Grounded(s, a)'
  BY <1>1, <1>4 DEF Grounded, Related
<1>7. Working(p)'
  BY <1>4, <1>5, <1>f, <1>6 DEF Working
<1>8. Settling(p)'
  BY <1>1, <1>f, <1>r DEF Settling
<1>9. CountersOK' /\ DOMAIN fresh' = Scan /\ \A t \in Scan : Settled(t)'
  BY <1>0, <1>1 DEF CountersOK, Domains, Settled
<1> QED BY <1>1, <1>5, <1>7, <1>8, <1>9, ProcessInv

\* score-risk has read both tables.
LEMMA ScoreRiskInv ==
  ASSUME AnalysisInv, NEW p \in Process, ScoreRisk(p) PROVE AnalysisInv'
<1>0. /\ CountersOK /\ Domains /\ (\A t \in Scan : Settled(t)) /\ TablesGrounded
      /\ Working(p) /\ IsProc(proc[p]) /\ Settling(p)
  BY InvApart DEF Apart, Working, AnalysisInv
<1>s. proc[p].scan \in Scan
  BY <1>0 DEF Working, CorrelateEvidence, ScoreRisk
<1>p. PICK s \in Scan : s = proc[p].scan
  BY <1>s
<1> DEFINE rows == RiskRows(proc[p].first, findings[s])
<1>1. proc[p].cmd = "score-query" /\ UNCHANGED <<assets, findings, stale, fresh, started, imported>>
  BY DEF ScoreRisk
<1>2. proc' = [proc EXCEPT ![p].cmd = "score", ![p].first = {}, ![p].rows = rows]
  BY <1>p DEF ScoreRisk
<1>3. proc[p].first \in SUBSET assets[s] /\ proc[p].found = {}
  BY <1>0, <1>1, <1>p DEF Working
<1>4. ASSUME NEW a \in rows PROVE DerivedRow(a) /\ Grounded(s, a) /\ a.type = "risk_assessment"
  BY <1>0, <1>3, RiskRowsGrounded
<1>t. \A b \in assets[s] : \E i \in DOMAIN TypeOrder : TypeOrder[i] = b.type
  <2> TAKE b \in assets[s]
  <2>1. b \in Observed[s] \/ b.type \in Derived
    BY <1>0, <1>3 DEF TablesGrounded, DerivedRow
  <2>2. b.type \in {TypeOrder[i] : i \in DOMAIN TypeOrder}
    BY <1>3, <2>1, AnalysisAssumption
  <2> QED BY <2>2
<1>r. p \notin stale => RiskKeys(assets[s]) \subseteq Keys(rows)
  <2>1. p \notin stale => proc[p].first = assets[s]
    BY <1>0, <1>1, <1>p DEF Settling
  <2>2. RiskKeys(assets[s]) \subseteq Keys(RiskRows(assets[s], findings[s]))
    BY <1>t, RiskRowKeys, AnalysisAssumption
  <2> QED BY <2>1, <2>2
<1> HIDE DEF rows
<1>5. /\ DOMAIN proc' = Process /\ \A q \in Process : q # p => proc'[q] = proc[q]
      /\ proc'[p] = [cmd |-> "score", scan |-> proc[p].scan, first |-> {}, rows |-> rows, found |-> proc[p].found]
      /\ IsProc(proc'[p])
  BY <1>0, <1>2, QueryStepNoFindings
<1>f. /\ proc'[p].cmd = "score" /\ proc'[p].scan = s
      /\ proc'[p].rows = rows /\ proc'[p].found = {}
  BY <1>3, <1>5, <1>p
<1>6. \A a \in rows : Grounded(s, a)'
  BY <1>1, <1>4 DEF Grounded, Related
<1>7. Working(p)'
  BY <1>4, <1>5, <1>f, <1>6 DEF Working
<1>8. Settling(p)'
  BY <1>1, <1>f, <1>r DEF Settling
<1>9. CountersOK' /\ DOMAIN fresh' = Scan /\ \A t \in Scan : Settled(t)'
  BY <1>0, <1>1 DEF CountersOK, Domains, Settled
<1> QED BY <1>1, <1>5, <1>7, <1>8, <1>9, ProcessInv

\* A row less to write.
LEMMA RowStep ==
  ASSUME Domains, NEW p \in Process, IsProc(proc[p]), NEW a, proc' = [proc EXCEPT ![p].rows = @ \ {a}]
  PROVE  /\ DOMAIN proc' = Process /\ \A q \in Process : q # p => proc'[q] = proc[q]
         /\ IsProc(proc'[p]) /\ proc'[p].cmd = proc[p].cmd /\ proc'[p].scan = proc[p].scan
         /\ proc'[p].first = proc[p].first /\ proc'[p].rows = proc[p].rows \ {a} /\ proc'[p].found = proc[p].found
<1>1. DOMAIN proc' = Process /\ \A q \in Process : q # p => proc'[q] = proc[q]
  BY DEF Domains
<1>2. proc'[p] = [cmd |-> proc[p].cmd, scan |-> proc[p].scan, first |-> proc[p].first,
                  rows |-> proc[p].rows \ {a}, found |-> proc[p].found]
  BY DEF Domains, IsProc
<1> QED BY <1>1, <1>2 DEF IsProc

\* A finding less to write.
LEMMA FoundStep ==
  ASSUME Domains, NEW p \in Process, IsProc(proc[p]), NEW f, proc' = [proc EXCEPT ![p].found = @ \ {f}]
  PROVE  /\ DOMAIN proc' = Process /\ \A q \in Process : q # p => proc'[q] = proc[q]
         /\ IsProc(proc'[p]) /\ proc'[p].cmd = proc[p].cmd /\ proc'[p].scan = proc[p].scan
         /\ proc'[p].first = proc[p].first /\ proc'[p].rows = proc[p].rows /\ proc'[p].found = proc[p].found \ {f}
<1>1. DOMAIN proc' = Process /\ \A q \in Process : q # p => proc'[q] = proc[q]
  BY DEF Domains
<1>2. proc'[p] = [cmd |-> proc[p].cmd, scan |-> proc[p].scan, first |-> proc[p].first,
                  rows |-> proc[p].rows, found |-> proc[p].found \ {f}]
  BY DEF Domains, IsProc
<1> QED BY <1>1, <1>2 DEF IsProc

\* A command with less to write goes on as before.
LEMMA WorkingLess ==
  ASSUME Grows, NEW p \in Process, Working(p), IsProc(proc'[p]), proc'[p].cmd = proc[p].cmd,
         proc'[p].scan = proc[p].scan, proc'[p].first = proc[p].first,
         proc'[p].rows \subseteq proc[p].rows, proc'[p].found \subseteq proc[p].found
  PROVE  Working(p)'
<1>1. CASE proc[p].cmd = "idle"
  BY <1>1 DEF Working
<1>2. CASE proc[p].cmd # "idle"
  <2>1. PICK s \in Scan : s = proc[p].scan
    BY <1>2 DEF Working
  <2>2. \A a \in proc'[p].rows : DerivedRow(a) /\ Grounded(s, a)
    BY <2>1 DEF Working
  <2>3. Related(s) \subseteq Related(s)' /\ assets[s] \subseteq assets'[s]
        /\ FindingRows(findings[s]) \subseteq FindingRows(findings'[s])
    BY DEF Grows
  <2>4. \A a \in proc'[p].rows : Grounded(s, a)'
    BY <2>2, <2>3 DEF Grounded
  <2>5. proc[p].cmd = "analyze-query" => proc[p].first \subseteq FindingRows(findings'[s])
    BY <2>1, <2>3 DEF Working
  <2>6. proc[p].cmd \in {"correlate-query", "score-query"} => proc[p].first \subseteq assets'[s]
    BY <2>1, <2>3 DEF Working
  <2> QED BY <2>1, <2>2, <2>4, <2>5, <2>6 DEF Working
<1> QED BY <1>1, <1>2

\* One row of an analysis is written, or ignored because its key is there.
LEMMA WriteRowInv ==
  ASSUME AnalysisInv, NEW p \in Process, NEW a \in proc[p].rows, WriteRow(p, a) PROVE AnalysisInv'
<1>0. /\ CountersOK /\ Domains /\ \A t \in Scan : AssetsOK(t) /\ FindingsOK(t) /\ Settled(t)
      /\ \A q \in Process : Working(q) /\ Settling(q)
  BY InvApart DEF Apart
<1>1. proc[p].cmd \in {"analyze", "correlate", "score"} /\ IsProc(proc[p])
  BY <1>0 DEF Working
<1>2. PICK s \in Scan : s = proc[p].scan
  BY <1>0, <1>1 DEF Working
<1>3. DerivedRow(a) /\ Grounded(s, a)
  BY <1>0, <1>2 DEF Working
<1>4. /\ assets' = [assets EXCEPT ![s] = AddAsset(s, a)]
      /\ IF assets' = assets THEN UNCHANGED <<stale, fresh>> ELSE Changed(s, {p})
      /\ proc' = [proc EXCEPT ![p].rows = @ \ {a}]
      /\ UNCHANGED <<findings, started, imported>>
  BY <1>2 DEF WriteRow
<1>5. /\ Grows /\ DOMAIN assets' = Scan
      /\ \A t \in Scan : t # s => assets'[t] = assets[t]
      /\ Key(a) \in Keys(assets'[s])
      /\ \/ assets'[s] = assets[s]
         \/ assets'[s] = assets[s] \cup {a} /\ Key(a) \notin Keys(assets[s])
  BY <1>0, <1>4, AddAssetStep
<1>6. \A t \in Scan : AssetsOK(t)' /\ FindingsOK(t)'
  BY <1>0, <1>3, <1>4, AddAssetOK
<1>7. /\ DOMAIN proc' = Process /\ \A q \in Process : q # p => proc'[q] = proc[q]
      /\ IsProc(proc'[p]) /\ proc'[p].cmd = proc[p].cmd /\ proc'[p].scan = proc[p].scan
      /\ proc'[p].first = proc[p].first /\ proc'[p].rows = proc[p].rows \ {a} /\ proc'[p].found = proc[p].found
  BY <1>0, <1>1, <1>4, RowStep
<1>8. \/ assets' = assets /\ UNCHANGED <<stale, fresh>>
      \/ Changed(s, {p})
  BY <1>4
<1>9. /\ DOMAIN fresh' = Scan /\ (\A t \in Scan : fresh'[t] \subseteq fresh[t])
      /\ stale \subseteq stale' /\ stale' \subseteq Process
      /\ \A t \in Scan : fresh'[t] # {} => assets'[t] = assets[t]
      /\ \A q \in Process : q # p /\ q \notin stale' /\ proc[q].cmd # "idle" => assets'[proc[q].scan] = assets[proc[q].scan]
  <2>1. CASE assets' = assets /\ UNCHANGED <<stale, fresh>>
    BY <1>0, <2>1 DEF Domains, CountersOK
  <2>2. CASE Changed(s, {p})
    <3>1. /\ DOMAIN fresh' = Scan /\ fresh'[s] = {} /\ \A t \in Scan : t # s => fresh'[t] = fresh[t]
          /\ \A t \in Scan : fresh'[t] \subseteq fresh[t]
          /\ stale \subseteq stale' /\ stale' \subseteq Process
          /\ \A q \in Process : q \notin {p} /\ q \notin stale' => proc[q].scan # s
      BY <1>0, <2>2, ChangedStep
    <3>2. \A q \in Process : proc[q].cmd # "idle" => proc[q].scan \in Scan
      BY <1>0 DEF Working
    <3> QED BY <1>5, <3>1, <3>2
  <2> QED BY <1>8, <2>1, <2>2
<1>10. CountersOK' /\ Domains'
  BY <1>0, <1>4, <1>5, <1>7, <1>9 DEF CountersOK, Domains
<1>11. ASSUME NEW t \in Scan PROVE Settled(t)'
  BY <1>0, <1>4, <1>9, SettledStays
<1>12. ASSUME NEW q \in Process, q # p PROVE Working(q)' /\ Settling(q)'
  <2>1. Working(q)'
    BY <1>0, <1>5, <1>7, <1>12, WorkingStays
  <2>2. Settling(q)'
    BY <1>0, <1>4, <1>7, <1>9, <1>12, SettlingStays
  <2> QED BY <2>1, <2>2
<1>13. Working(p)'
  BY <1>0, <1>5, <1>7, WorkingLess
<1>14. Settling(p)'
  <2> DEFINE S == assets[s]
             B == findings[s]
             K == Keys(S) \cup Keys(proc[p].rows)
             L == Keys(assets'[s]) \cup Keys(proc'[p].rows)
  <2>1. K \subseteq L
    BY <1>5, <1>7 DEF Keys
  <2>2. Key(a) \in K
    BY DEF Keys
  <2>3. findings'[s] = B
    BY <1>4
  <2> SUFFICES ASSUME p \notin stale'
               PROVE  /\ proc[p].cmd = "correlate" => Keys(CorrelationRows(assets'[s], B)) \subseteq L
                      /\ proc[p].cmd = "score" => RiskKeys(assets'[s]) \subseteq L
    BY <1>1, <1>2, <1>7, <2>3 DEF Settling
  <2>4. p \notin stale
    BY <1>9
  <2>5. CASE proc[p].cmd = "correlate"
    <3>1. Keys(CorrelationRows(S, B)) \subseteq K
      BY <1>0, <1>2, <2>4, <2>5 DEF Settling
    <3>2. a.type \in Derived /\ (a.type = "correlation_edge" \/ a.parent = "")
      BY <1>0, <1>3, <2>5 DEF Working, DerivedRow
    <3>3. Keys(CorrelationRows(S \cup {a}, B)) \subseteq K
      <4> HIDE DEF S, B, K
      <4>1. a.type \in Derived
        BY <3>2
      <4>2. a.type = "correlation_edge" \/ a.parent = ""
        BY <3>2
      <4> QED BY <2>2, <3>1, <4>1, <4>2, OwnRowSettles
    <3> QED BY <1>5, <2>1, <2>5, <3>1, <3>3
  <2>6. CASE proc[p].cmd = "score"
    <3>1. RiskKeys(S) \subseteq K
      BY <1>0, <1>2, <2>4, <2>6 DEF Settling
    <3>2. a.type = "risk_assessment"
      BY <1>0, <2>6 DEF Working
    <3>3. RiskKeys(S \cup {a}) \subseteq K
      BY <2>2, <3>1, <3>2, RiskRowSettles
    <3> QED BY <1>5, <2>1, <2>6, <3>1, <3>3
  <2> QED BY <2>5, <2>6
<1> QED BY <1>6, <1>10, <1>11, <1>12, <1>13, <1>14, InvApartNext DEF Apart

\* A finding of the rules is written.
LEMMA WriteFindingInv ==
  ASSUME AnalysisInv, NEW p \in Process, NEW f \in proc[p].found, WriteFinding(p, f) PROVE AnalysisInv'
<1>0. /\ CountersOK /\ Domains /\ \A t \in Scan : AssetsOK(t) /\ FindingsOK(t) /\ Settled(t)
      /\ \A q \in Process : Working(q) /\ Settling(q)
  BY InvApart DEF Apart
<1>1. proc[p].cmd = "analyze" /\ IsProc(proc[p])
  BY <1>0 DEF Working
<1>2. PICK s \in Scan : s = proc[p].scan
  BY <1>0, <1>1 DEF Working
<1>3. /\ findings' = [findings EXCEPT ![s] = AddFinding(s, f)] /\ Changed(s, {p})
      /\ proc' = [proc EXCEPT ![p].found = @ \ {f}]
      /\ UNCHANGED <<assets, started, imported>>
  BY <1>2 DEF WriteFinding
<1>4. /\ Grows /\ DOMAIN findings' = Scan
      /\ \A t \in Scan : t # s => findings'[t] = findings[t]
      /\ \A t \in Scan : AssetsOK(t)' /\ FindingsOK(t)'
  BY <1>0, <1>3, AddFindingStep
<1>5. /\ DOMAIN proc' = Process /\ \A q \in Process : q # p => proc'[q] = proc[q]
      /\ IsProc(proc'[p]) /\ proc'[p].cmd = proc[p].cmd /\ proc'[p].scan = proc[p].scan
      /\ proc'[p].first = proc[p].first /\ proc'[p].rows = proc[p].rows /\ proc'[p].found = proc[p].found \ {f}
  BY <1>0, <1>1, <1>3, FoundStep
<1>6. /\ DOMAIN fresh' = Scan /\ fresh'[s] = {} /\ \A t \in Scan : t # s => fresh'[t] = fresh[t]
      /\ \A t \in Scan : fresh'[t] \subseteq fresh[t]
      /\ stale \subseteq stale' /\ stale' \subseteq Process
      /\ \A q \in Process : q \notin {p} /\ q \notin stale' => proc[q].scan # s
  BY <1>0, <1>3, ChangedStep
<1>7. CountersOK' /\ Domains'
  BY <1>0, <1>3, <1>4, <1>5, <1>6 DEF CountersOK, Domains
<1>8. ASSUME NEW t \in Scan PROVE Settled(t)'
  BY <1>0, <1>3, <1>4, <1>6, SettledStays
<1>9. ASSUME NEW q \in Process, q # p PROVE Working(q)' /\ Settling(q)'
  <2>1. Working(q)'
    BY <1>0, <1>4, <1>5, <1>9, WorkingStays
  <2>2. proc[q].cmd # "idle" => proc[q].scan \in Scan
    BY <1>0 DEF Working
  <2>3. Settling(q)'
    BY <1>0, <1>3, <1>4, <1>5, <1>6, <1>9, <2>2, SettlingStays
  <2> QED BY <2>1, <2>3
<1>10. Working(p)'
  BY <1>0, <1>4, <1>5, WorkingLess
<1>11. Settling(p)'
  BY <1>1, <1>5 DEF Settling
<1> QED BY <1>4, <1>7, <1>8, <1>9, <1>10, <1>11, InvApartNext DEF Apart

\* A write fails, and the command goes on.
LEMMA LoseWriteInv ==
  ASSUME AnalysisInv, NEW p \in Process, LoseWrite(p) PROVE AnalysisInv'
<1>0. CountersOK /\ Domains /\ (\A t \in Scan : Settled(t)) /\ Working(p) /\ IsProc(proc[p])
  BY InvApart DEF Apart, Working
<1>1. stale' = stale \cup {p} /\ UNCHANGED <<assets, findings, fresh, started, imported>>
  BY DEF LoseWrite
<1>2. Grows
  BY <1>1 DEF Grows, Related
<1>3. /\ DOMAIN proc' = Process /\ \A q \in Process : q # p => proc'[q] = proc[q]
      /\ Working(p)'
  <2>1. ASSUME NEW a, proc' = [proc EXCEPT ![p].rows = @ \ {a}]
        PROVE  DOMAIN proc' = Process /\ (\A q \in Process : q # p => proc'[q] = proc[q]) /\ Working(p)'
    <3>1. /\ DOMAIN proc' = Process /\ \A q \in Process : q # p => proc'[q] = proc[q]
          /\ IsProc(proc'[p]) /\ proc'[p].cmd = proc[p].cmd /\ proc'[p].scan = proc[p].scan
          /\ proc'[p].first = proc[p].first /\ proc'[p].rows = proc[p].rows \ {a} /\ proc'[p].found = proc[p].found
      BY <1>0, <2>1, RowStep
    <3>2. Working(p)'
      BY <1>0, <1>2, <3>1, WorkingLess
    <3> QED BY <3>1, <3>2
  <2>2. ASSUME NEW f, proc' = [proc EXCEPT ![p].found = @ \ {f}]
        PROVE  DOMAIN proc' = Process /\ (\A q \in Process : q # p => proc'[q] = proc[q]) /\ Working(p)'
    <3>1. /\ DOMAIN proc' = Process /\ \A q \in Process : q # p => proc'[q] = proc[q]
          /\ IsProc(proc'[p]) /\ proc'[p].cmd = proc[p].cmd /\ proc'[p].scan = proc[p].scan
          /\ proc'[p].first = proc[p].first /\ proc'[p].rows = proc[p].rows /\ proc'[p].found = proc[p].found \ {f}
      BY <1>0, <2>2, FoundStep
    <3>2. Working(p)'
      BY <1>0, <1>2, <3>1, WorkingLess
    <3> QED BY <3>1, <3>2
  <2> QED BY <2>1, <2>2 DEF LoseWrite
<1>4. Settling(p)'
  BY <1>1 DEF Settling
<1>5. CountersOK' /\ DOMAIN fresh' = Scan /\ \A t \in Scan : Settled(t)'
  BY <1>0, <1>1 DEF CountersOK, Domains, Settled
<1> QED BY <1>1, <1>3, <1>4, <1>5, ProcessInv

\* What the record of a process looks like.
LEMMA ProcRecord ==
  ASSUME NEW c, NEW s, NEW F, NEW R, NEW G, NEW r, r = [cmd |-> c, scan |-> s, first |-> F, rows |-> R, found |-> G]
  PROVE  IsProc(r) /\ r.cmd = c /\ r.rows = R /\ r.found = G
BY DEF IsProc

\* The record of an idle process.
LEMMA IdleRecord == IsProc(Idle) /\ Idle.cmd = "idle" /\ Idle.rows = {} /\ Idle.found = {}
<1>1. PICK c : c = "idle"
  OBVIOUS
<1>2. PICK e : e = ""
  OBVIOUS
<1>3. Idle = [cmd |-> c, scan |-> e, first |-> {}, rows |-> {}, found |-> {}]
  BY <1>1, <1>2, Zenon DEF Idle
<1>4. IsProc(Idle) /\ Idle.cmd = c /\ Idle.rows = {} /\ Idle.found = {}
  <2> HIDE DEF Idle
  <2> QED BY <1>3, ProcRecord
<1> QED BY <1>1, <1>4

\* A process that ends.
LEMMA IdleStep ==
  ASSUME Domains, NEW p \in Process, proc' = [proc EXCEPT ![p] = Idle]
  PROVE  /\ DOMAIN proc' = Process /\ \A q \in Process : q # p => proc'[q] = proc[q]
         /\ Working(p)' /\ Settling(p)'
<1>1. DOMAIN proc' = Process /\ \A q \in Process : q # p => proc'[q] = proc[q]
  BY DEF Domains
<1>2. proc'[p] = Idle
  BY DEF Domains
<1>3. /\ IsProc(proc'[p]) /\ proc'[p].cmd = "idle" /\ proc'[p].rows = {} /\ proc'[p].found = {}
  BY <1>2, IdleRecord
<1> QED BY <1>1, <1>3 DEF Working, Settling

\* A command ends with every row written, ignored or lost.
LEMMA FinishInv ==
  ASSUME AnalysisInv, NEW p \in Process, Finish(p) PROVE AnalysisInv'
<1>0. CountersOK /\ Domains /\ (\A t \in Scan : Settled(t)) /\ Working(p) /\ Settling(p)
  BY InvApart DEF Apart
<1>1. /\ proc[p].cmd \in {"analyze", "correlate", "score"} /\ proc[p].rows = {}
      /\ proc' = [proc EXCEPT ![p] = Idle] /\ stale' = stale \ {p}
      /\ UNCHANGED <<assets, findings, started, imported>>
      /\ fresh' = IF p \in stale THEN fresh ELSE [fresh EXCEPT ![proc[p].scan] = @ \cup {proc[p].cmd}]
  BY DEF Finish
<1>2. PICK s \in Scan : s = proc[p].scan
  BY <1>0, <1>1 DEF Working
<1>3. /\ DOMAIN proc' = Process /\ \A q \in Process : q # p => proc'[q] = proc[q]
      /\ Working(p)' /\ Settling(p)'
  BY <1>0, <1>1, IdleStep
<1>4. /\ DOMAIN fresh' = Scan /\ \A t \in Scan : t # s => fresh'[t] = fresh[t]
      /\ fresh'[s] = IF p \in stale THEN fresh[s] ELSE fresh[s] \cup {proc[p].cmd}
  BY <1>0, <1>1, <1>2 DEF Domains
<1>5. CountersOK'
  BY <1>0, <1>1, <1>4 DEF CountersOK
<1>6. ASSUME NEW t \in Scan, t # s PROVE Settled(t)'
  BY <1>0, <1>1, <1>4, <1>6 DEF Settled
<1>7. Settled(s)'
  <2>1. Keys(proc[p].rows) = {}
    BY <1>1 DEF Keys
  <2>2. p \notin stale /\ proc[p].cmd = "correlate" =>
          Keys(CorrelationRows(assets[s], findings[s])) \subseteq Keys(assets[s])
    BY <1>0, <1>2, <2>1 DEF Settling
  <2>3. p \notin stale /\ proc[p].cmd = "score" => RiskKeys(assets[s]) \subseteq Keys(assets[s])
    BY <1>0, <1>2, <2>1 DEF Settling
  <2> QED BY <1>0, <1>1, <1>4, <2>2, <2>3 DEF Settled
<1>8. \A q \in Process : q # p => proc'[q] = proc[q] /\ (q \notin stale' => q \notin stale)
  BY <1>1, <1>3
<1>9. \A t \in Scan : Settled(t)'
  BY <1>6, <1>7
<1> QED BY <1>1, <1>3, <1>4, <1>5, <1>8, <1>9, ProcessInv

\* A command dies between two steps.
LEMMA DieInv ==
  ASSUME AnalysisInv, NEW p \in Process, Die(p) PROVE AnalysisInv'
<1>0. CountersOK /\ Domains /\ \A t \in Scan : Settled(t)
  BY InvApart DEF Apart
<1>1. /\ proc' = [proc EXCEPT ![p] = Idle] /\ stale' = stale \ {p}
      /\ UNCHANGED <<assets, findings, fresh, started, imported>>
  BY DEF Die
<1>2. /\ DOMAIN proc' = Process /\ \A q \in Process : q # p => proc'[q] = proc[q]
      /\ Working(p)' /\ Settling(p)'
  BY <1>0, <1>1, IdleStep
<1>3. CountersOK' /\ DOMAIN fresh' = Scan /\ \A t \in Scan : Settled(t)'
  BY <1>0, <1>1 DEF CountersOK, Domains, Settled
<1>4. \A q \in Process : q # p => proc'[q] = proc[q] /\ (q \notin stale' => q \notin stale)
  BY <1>1, <1>2
<1> QED BY <1>1, <1>2, <1>3, <1>4, ProcessInv

----------------------------------------------------------------------------
(***************************************************************************)
(* The theorems.                                                           *)
(***************************************************************************)

\* Empty tables and idle processes.
LEMMA InitAnalysisInv == Init => AnalysisInv
<1> SUFFICES ASSUME Init PROVE AnalysisInv
  OBVIOUS
<1>1. CountersOK /\ Domains
  BY AnalysisAssumption DEF Init, CountersOK, Domains
<1>2. ASSUME NEW s \in Scan PROVE AssetsOK(s) /\ FindingsOK(s) /\ Settled(s)
  <2>1. assets[s] = {} /\ findings[s] = {} /\ fresh[s] = {}
    BY DEF Init
  <2> QED BY <2>1, FS_EmptySet DEF AssetsOK, FindingsOK, Settled
<1>3. ASSUME NEW p \in Process PROVE Working(p) /\ Settling(p)
  <2>1. proc[p] = Idle
    BY DEF Init
  <2>2. IsProc(proc[p]) /\ proc[p].cmd = "idle" /\ proc[p].rows = {} /\ proc[p].found = {}
    BY <2>1, IdleRecord
  <2> QED BY <2>2 DEF Working, Settling
<1> QED BY <1>1, <1>2, <1>3, InvApart DEF Apart

\* Every step of the scan, of an import and of a command keeps the invariant.
LEMMA NextAnalysisInv == AnalysisInv /\ [Next]_vars => AnalysisInv'
<1> SUFFICES ASSUME AnalysisInv, [Next]_vars PROVE AnalysisInv'
  OBVIOUS
<1>1. CASE \E s \in Scan : \E a \in Observed[s] : Observe(s, a)
  BY <1>1, ObserveInv
<1>2. CASE \E s \in Scan, r \in Reported : ImportReport(s, r)
  BY <1>2, ImportReportInv
<1>3. ASSUME NEW p \in Process, Command(p) PROVE AnalysisInv'
  <2>1. CASE \E s \in Scan, cmd \in {"analyze-query", "correlate-query", "score-query"} : Start(p, s, cmd)
    BY <2>1, StartInv
  <2>2. CASE AnalyzeScan(p) \/ CorrelateEvidence(p) \/ ScoreRisk(p)
    BY <2>2, AnalyzeScanInv, CorrelateEvidenceInv, ScoreRiskInv
  <2>3. CASE \E a \in proc[p].rows : WriteRow(p, a)
    BY <2>3, WriteRowInv
  <2>4. CASE \E f \in proc[p].found : WriteFinding(p, f)
    BY <2>4, WriteFindingInv
  <2>5. CASE LoseWrite(p) \/ Finish(p) \/ Die(p)
    BY <2>5, LoseWriteInv, FinishInv, DieInv
  <2> QED BY <1>3, <2>1, <2>2, <2>3, <2>4, <2>5 DEF Command
<1>4. CASE UNCHANGED vars
  <2>1. Apart
    BY InvApart
  <2>2. Grows
    BY <1>4 DEF vars, Grows, Related
  <2>3. CountersOK' /\ Domains'
    BY <1>4, <2>1 DEF vars, Apart, CountersOK, Domains
  <2>4. ASSUME NEW s \in Scan PROVE AssetsOK(s)' /\ FindingsOK(s)' /\ Settled(s)'
    <3>1. AssetsOK(s) /\ FindingsOK(s) /\ Settled(s)
      BY <2>1 DEF Apart
    <3>2. AssetsOK(s)'
      BY <1>4, <3>1 DEF vars, AssetsOK, Grounded, Related
    <3>3. FindingsOK(s)'
      BY <1>4, <3>1 DEF vars, FindingsOK
    <3>4. Settled(s)'
      BY <1>4, <3>1 DEF vars, Settled
    <3> QED BY <3>2, <3>3, <3>4
  <2>5. ASSUME NEW p \in Process PROVE Working(p)' /\ Settling(p)'
    <3>1. Working(p) /\ Settling(p)
      BY <2>1 DEF Apart
    <3>2. Working(p)'
      BY <1>4, <2>2, <3>1, WorkingStays DEF vars
    <3>3. Settling(p)'
      BY <1>4, <3>1, SettlingStays DEF vars
    <3> QED BY <3>2, <3>3
  <2> QED BY <2>3, <2>4, <2>5, InvApartNext DEF Apart
<1> QED BY <1>1, <1>2, <1>3, <1>4 DEF Next

\* The edges that correlate stores relate only what the scan's assets and
\* findings relate, however many commands, in whatever order and with whatever
\* losses, read each other's rows; no two assets of a scan share a key, no
\* finding is lost in an equal one, scores are in 0..100; and both ends of
\* every edge of the knowledge graph are nodes of it.
THEOREM GraphTheorem == Spec => []GraphSound
<1>1. AnalysisInv => GraphSound
  <2> SUFFICES ASSUME AnalysisInv PROVE GraphSound
    OBVIOUS
  <2>1. TypeOK /\ TablesGrounded
    BY DEF AnalysisInv
  <2>2. GraphClosed
    BY GraphEnds DEF GraphClosed
  <2>3. ASSUME NEW s \in Scan, NEW a \in OfType(assets[s], "correlation_edge")
        PROVE  a.parent # "" /\ a.value # "" /\ <<a.parent, a.value>> \in Related(s)
    <3>1. a \in assets[s] /\ a.type = "correlation_edge"
      BY DEF OfType
    <3>2. a \notin Observed[s]
      BY <3>1, AnalysisAssumption DEF Derived
    <3>3. DerivedRow(a) /\ Grounded(s, a)
      BY <2>1, <3>1, <3>2 DEF TablesGrounded
    <3> QED BY <3>1, <3>3 DEF DerivedRow, Grounded
  <2> QED BY <2>1, <2>2, <2>3 DEF GraphSound, EdgesGrounded
<1> QED BY InitAnalysisInv, NextAnalysisInv, <1>1, PTL DEF Spec

\* After a run of correlate or score-risk that lost no write, on a scan that
\* nothing else changed meanwhile, another run would add no row.
THEOREM SettlesTheorem == Spec => []AnalysisSettles
<1>1. AnalysisInv => AnalysisSettles
  <2> SUFFICES ASSUME AnalysisInv, NEW s \in Scan
               PROVE  /\ "correlate" \in fresh[s] => Keys(CorrelationRows(assets[s], findings[s])) \subseteq Keys(assets[s])
                      /\ "score" \in fresh[s] => Keys(RiskRows(assets[s], findings[s])) \subseteq Keys(assets[s])
    BY DEF AnalysisSettles
  <2>1. Settled(s)
    BY DEF AnalysisInv
  <2>2. Keys(RiskRows(assets[s], findings[s])) \subseteq RiskKeys(assets[s])
    BY RiskRowKeys
  <2> QED BY <2>1, <2>2 DEF Settled
<1> QED BY InitAnalysisInv, NextAnalysisInv, <1>1, PTL DEF Spec

\* DetectDrift reports a change between two scans exactly if what it is to
\* compare differs, for all tables that scans, imports and analyses can fill.
THEOREM DriftTheorem == Spec => []DriftExact
<1>1. AnalysisInv => DriftExact
  <2> SUFFICES ASSUME AnalysisInv, NEW s \in Scan, NEW t \in Scan
               PROVE  DetectDrift(s, t) <=> Compared(s) # Compared(t)
    BY DEF DriftExact
  <2>1. IsFiniteSet(assets[s]) /\ IsFiniteSet(assets[t])
    BY DEF AnalysisInv, TypeOK
  <2> QED BY <2>1, DriftOfTables
<1> QED BY InitAnalysisInv, NextAnalysisInv, <1>1, PTL DEF Spec

============================================================================
