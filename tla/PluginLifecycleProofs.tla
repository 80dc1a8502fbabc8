----------------------- MODULE PluginLifecycleProofs -----------------------
(***************************************************************************)
(* Installation, loading and staged reload of a plugin, for every set of   *)
(* installers, versions and package bodies and any number of publications, *)
(* loads and stages.                                                       *)
(***************************************************************************)
EXTENDS PluginLifecycle, SequenceTheorems, WellFoundedInduction, TLAPS

InstallRow == [st : {"described", "staged", "point", "truncated"}, pkg : Package]
DirRow == [pkg : Package, files : Body]
ManifestRow == [ver : Version \cup {0}, body : Body, how : {"installed", "local"}]
StageRow == [ver : Version, state : {"registered", "verified", "active", "retired"}]

\* What the registry offers it has published, under the release's own version,
\* and its versions have an upper bound.
CatalogInv ==
  /\ key \in {Trusted, Other} /\ published \subseteq Package
  /\ DOMAIN catalog \subseteq Version
  /\ \A v \in DOMAIN catalog : catalog[v] \in published /\ catalog[v].ver = v
  /\ catalog # <<>> => DOMAIN catalog # {}
  /\ \E n \in Nat : \A v \in DOMAIN catalog : v <= n

\* An installer holds a published release, a signed one once it has verified the
\* download, and moves the pointer only to a version that has its directory.
InstallerInv ==
  /\ inst \in [Installer -> InstallRow \cup {NoInstall}]
  /\ \A i \in Installer : inst[i].st # "idle" =>
       /\ inst[i] \in InstallRow /\ inst[i].pkg \in published
       /\ inst[i].st # "described" => inst[i].pkg.key = Trusted
       /\ inst[i].st \in {"point", "truncated"} => inst[i].pkg.ver \in DOMAIN dirs

DirsInv ==
  /\ DOMAIN dirs \subseteq Version
  /\ \A v \in DOMAIN dirs : dirs[v] \in DirRow
  /\ current \in [head : Version \cup {0}, left : SUBSET Nat] /\ tampered \in BOOLEAN
  /\ InstalledSigned /\ PointerSound

\* The trusted key has signed what a manifest of the installation holds, and its
\* directory still holds that unless somebody has edited it.
Vouched(m) ==
  m.how = "installed" =>
    /\ \E p \in Signed : p.ver = m.ver /\ p.body = m.body
    /\ m.ver \in DOMAIN dirs /\ (dirs[m.ver].files # m.body => tampered)

ManagerInv ==
  /\ loader \in Version \cup {0} /\ loads \in 0..MaxLoads
  /\ manifests \in Seq(ManifestRow)
  /\ \A n \in 1..Len(manifests) : Vouched(manifests[n])
  /\ EvidenceVouched

\* The inductive invariant of registry, installers and plugin manager.
MarketInv == CatalogInv /\ InstallerInv /\ DirsInv /\ ManagerInv

\* The two pointers name stages, and a stage to roll back to implies an active one.
StageTypeOK ==
  /\ stages \in Seq(StageRow)
  /\ {active, previous} \subseteq {0} \cup (1..Len(stages)) /\ checked \subseteq 1..Len(stages)
  /\ active = 0 => previous = 0

\* A stage marked verified has been verified.
VerifiedChecked == \A n \in 1..Len(stages) : stages[n].state = "verified" => n \in checked

\* The inductive invariant of the hot-reload manager.
StageInv == StageTypeOK /\ VerifiedChecked /\ RollbackReady

-----------------------------------------------------------------------------
\* The latest version is one of the catalog: its versions are bounded.
LEMMA LatestExists ==
  ASSUME CatalogInv, catalog # <<>>
  PROVE  LatestLocked \in DOMAIN catalog
<1> DEFINE Bounds == {n \in Nat : \A v \in DOMAIN catalog : v <= n}
           R == OpToRel(<, Nat)
<1>1. Bounds \subseteq Nat /\ Bounds # {}
  BY DEF CatalogInv
<1>2. IsWellFoundedOn(R, Nat)
  BY NatLessThanWellFounded
<1>3. \A x, y \in Nat : x < y => <<x, y>> \in R
  BY DEF OpToRel
<1>4. PICK m \in Bounds : \A y \in Bounds : ~(<<y, m>> \in R)
  <2> HIDE DEF Bounds, R
  <2>1. \E m \in Bounds : \A y \in Bounds : ~(<<y, m>> \in R)
    BY <1>1, <1>2, WFMin
  <2> QED BY <2>1
<1>5. DOMAIN catalog \subseteq Nat \ {0}
  BY PluginAssumption DEF CatalogInv
<1>6. m \in DOMAIN catalog
  <2> SUFFICES ASSUME m \notin DOMAIN catalog PROVE FALSE
    OBVIOUS
  <2>1. m \in Nat /\ \A v \in DOMAIN catalog : v <= m
    OBVIOUS
  <2>2. PICK w \in DOMAIN catalog : TRUE
    BY DEF CatalogInv
  <2>3. m > 0 /\ m - 1 \in Nat
    BY <2>1, <2>2, <1>5
  <2>4. \A v \in DOMAIN catalog : v <= m - 1
    BY <2>1, <2>3, <1>5
  <2>5. m - 1 \in Bounds
    BY <2>3, <2>4
  <2>6. <<m - 1, m>> \in R
    <3> HIDE DEF R
    <3> QED BY <2>1, <2>3, <1>3
  <2> QED BY <1>4, <2>5, <2>6
<1>7. \A w \in DOMAIN catalog : w <= m
  OBVIOUS
<1> QED BY <1>6, <1>7 DEF LatestLocked

\* The empty catalog and the empty installation.
LEMMA EmptyDomain == DOMAIN <<>> = {}
OBVIOUS

\* Nothing is published, installed or loaded at the start.
LEMMA InitMarketInv == Init => MarketInv
<1> SUFFICES ASSUME Init PROVE MarketInv
  OBVIOUS
<1>0. DOMAIN catalog = {} /\ DOMAIN dirs = {}
  BY EmptyDomain DEF Init
<1>1. CatalogInv
  <2>1. 0 \in Nat /\ \A v \in DOMAIN catalog : v <= 0
    BY <1>0
  <2> QED BY <1>0, <2>1 DEF Init, CatalogInv
<1>2. InstallerInv
  BY DEF Init, InstallerInv, NoInstall
<1>3. DirsInv
  BY <1>0 DEF Init, DirsInv, InstalledSigned, PointerSound, Pointer
<1>4. ManagerInv
  BY PluginAssumption DEF Init, ManagerInv, EvidenceVouched
<1> QED BY <1>1, <1>2, <1>3, <1>4 DEF MarketInv

\* Steps of the hot-reload manager touch nothing of the installation.
LEMMA MarketFrame ==
  ASSUME MarketInv, UNCHANGED <<registryVars, installVars, managerVars>>
  PROVE  MarketInv'
BY DEF registryVars, installVars, managerVars, MarketInv, CatalogInv, InstallerInv, DirsInv, InstalledSigned,
       PointerSound, ManagerInv, EvidenceVouched, Vouched, Signed

\* Publication keeps what is signed signed.
LEMMA SignedGrows ==
  ASSUME published \subseteq published'
  PROVE  Signed \subseteq Signed'
BY DEF Signed

\* A step that changes only the registry keeps the other parts, if it forgets no
\* publication.
LEMMA RegistryFrame ==
  ASSUME MarketInv, CatalogInv', published \subseteq published', UNCHANGED <<installVars, managerVars>>
  PROVE  MarketInv'
<1> USE DEF MarketInv, installVars, managerVars
<1>1. Signed \subseteq Signed'
  BY SignedGrows
<1>2. InstallerInv'
  BY DEF InstallerInv
<1>3. DirsInv'
  BY <1>1 DEF DirsInv, InstalledSigned, PointerSound
<1>4. \A m : Vouched(m) => Vouched(m)'
  BY <1>1 DEF Vouched
<1>5. ManagerInv'
  BY <1>1, <1>4 DEF ManagerInv, EvidenceVouched, Vouched
<1> QED BY <1>2, <1>3, <1>5

\* Publish adds a release under its own version.
LEMMA PublishInv ==
  ASSUME MarketInv, NEW v \in Version, NEW b \in Body, Publish(v, b)
  PROVE  MarketInv'
<1> USE DEF MarketInv
<1> DEFINE pkg == [ver |-> v, body |-> b, key |-> key]
<1>1. /\ catalog' = Put(catalog, v, pkg) /\ published' = published \cup {pkg}
      /\ UNCHANGED <<key, installVars, managerVars>>
  BY DEF Publish
<1>2. pkg \in Package /\ pkg.ver = v
  BY DEF CatalogInv, Package
<1> HIDE DEF pkg
<1>3. /\ DOMAIN catalog' = DOMAIN catalog \cup {v} /\ catalog'[v] = pkg
      /\ \A w \in DOMAIN catalog : w # v => catalog'[w] = catalog[w]
  BY <1>1 DEF Put
<1>4. PICK n \in Nat : \A w \in DOMAIN catalog : w <= n
  BY DEF CatalogInv
<1>5. DOMAIN catalog \subseteq Nat /\ v \in Nat
  BY PluginAssumption DEF CatalogInv
<1>6. \A w \in DOMAIN catalog' : w <= n + v
  BY <1>3, <1>4, <1>5
<1>7. n + v \in Nat
  BY <1>5
<1>8. CatalogInv'
  BY <1>1, <1>2, <1>3, <1>6, <1>7 DEF CatalogInv
<1> QED BY <1>1, <1>8, RegistryFrame

\* A restarted registry offers nothing, and has published what it had.
LEMMA RestartInv ==
  ASSUME MarketInv, RestartRegistry
  PROVE  MarketInv'
<1>1. CatalogInv'
  BY DEF RestartRegistry, MarketInv, CatalogInv
<1> QED BY <1>1, RegistryFrame DEF RestartRegistry

\* One installer moves; the registry, the directories and the manager do not.
LEMMA InstallerFrame ==
  ASSUME MarketInv, InstallerInv', UNCHANGED <<registryVars, dirs, current, tampered, managerVars>>
  PROVE  MarketInv'
BY DEF registryVars, managerVars, MarketInv, CatalogInv, DirsInv, InstalledSigned, PointerSound, ManagerInv,
       EvidenceVouched, Vouched, Signed

\* The described release is one of the catalog's.
LEMMA GetPluginInv ==
  ASSUME MarketInv, NEW i \in Installer, NEW r \in Version \cup {0}, GetPlugin(i, r)
  PROVE  MarketInv'
<1> USE DEF MarketInv
<1>1. catalog # <<>> /\ UNCHANGED <<registryVars, dirs, current, tampered, managerVars>>
  BY DEF GetPlugin
<1>2. PICK v \in SelectPluginVersion(r) : inst' = [inst EXCEPT ![i] = [st |-> "described", pkg |-> catalog[v]]]
  BY DEF GetPlugin
<1>3. v \in DOMAIN catalog
  BY <1>1, <1>2, LatestExists DEF SelectPluginVersion
<1> DEFINE row == [st |-> "described", pkg |-> catalog[v]]
<1>4. /\ row \in InstallRow /\ row.pkg \in published /\ row.st = "described"
  BY <1>3 DEF CatalogInv, InstallRow
<1>5. inst' = [inst EXCEPT ![i] = row]
  BY <1>2
<1> HIDE DEF row
<1>6. InstallerInv'
  BY <1>1, <1>4, <1>5 DEF InstallerInv, registryVars
<1> QED BY <1>1, <1>6, InstallerFrame

\* An installation given up leaves the directories as they are.
LEMMA AbortInv ==
  ASSUME MarketInv, NEW i \in Installer, Abort(i), UNCHANGED <<registryVars, dirs, current, tampered, managerVars>>
  PROVE  MarketInv'
<1>1. NoInstall.st = "idle"
  BY DEF NoInstall
<1>2. InstallerInv'
  BY <1>1 DEF MarketInv, InstallerInv, Abort, registryVars
<1> QED BY <1>2, InstallerFrame

\* An installer's next step keeps its release.
LEMMA StepRow ==
  ASSUME NEW i \in Installer, NEW st \in {"described", "staged", "point", "truncated"},
         InstallerInv, inst[i].st # "idle", inst' = [inst EXCEPT ![i].st = st]
  PROVE  /\ inst'[i] \in InstallRow /\ inst'[i].st = st /\ inst'[i].pkg = inst[i].pkg
         /\ \A k \in Installer \ {i} : inst'[k] = inst[k]
         /\ inst' \in [Installer -> InstallRow \cup {NoInstall}]
<1>1. inst[i] \in InstallRow
  BY DEF InstallerInv
<1>2. inst' = [k \in Installer |-> IF k = i THEN [inst[i] EXCEPT !.st = st] ELSE inst[k]]
  BY DEF InstallerInv
<1>3. /\ [inst[i] EXCEPT !.st = st] \in InstallRow
      /\ [inst[i] EXCEPT !.st = st].st = st /\ [inst[i] EXCEPT !.st = st].pkg = inst[i].pkg
  BY <1>1 DEF InstallRow
<1> QED BY <1>2, <1>3 DEF InstallerInv

\* A download goes on only if the description's signature is the trusted key's.
LEMMA DownloadInv ==
  ASSUME MarketInv, NEW i \in Installer, Download(i)
  PROVE  MarketInv'
<1> DEFINE meta == inst[i].pkg
           ok == meta.ver \in DOMAIN catalog /\ Verifies(meta, catalog[meta.ver])
           st == IF meta.ver \in DOMAIN dirs THEN "point" ELSE "staged"
<1>1. /\ inst[i].st = "described" /\ UNCHANGED <<registryVars, dirs, current, tampered, managerVars>>
      /\ IF ok THEN inst' = [inst EXCEPT ![i].st = st] ELSE Abort(i)
  BY DEF Download
<1>2. CASE ~ok
  BY <1>1, <1>2, AbortInv
<1>3. CASE ok
  <2>1. meta.key = Trusted /\ inst' = [inst EXCEPT ![i].st = st]
    BY <1>1, <1>3 DEF Verifies
  <2>2. st \in {"point", "staged"} /\ (st = "point" => meta.ver \in DOMAIN dirs)
    OBVIOUS
  <2>3. meta \in published
    BY <1>1 DEF MarketInv, InstallerInv
  <2> HIDE DEF st, ok
  <2>4. /\ inst'[i] \in InstallRow /\ inst'[i].st = st /\ inst'[i].pkg = meta
        /\ \A k \in Installer \ {i} : inst'[k] = inst[k]
        /\ inst' \in [Installer -> InstallRow \cup {NoInstall}]
    BY <1>1, <2>1, <2>2, StepRow DEF MarketInv
  <2> HIDE DEF meta
  <2>5. InstallerInv'
    BY <1>1, <2>1, <2>2, <2>3, <2>4 DEF MarketInv, InstallerInv, registryVars
  <2> QED BY <1>1, <2>5, InstallerFrame
<1> QED BY <1>2, <1>3

\* A new directory holds the signed release it is named after.
LEMMA RenameStagingInv ==
  ASSUME MarketInv, NEW i \in Installer, RenameStaging(i)
  PROVE  MarketInv'
<1> USE DEF MarketInv
<1> DEFINE pkg == inst[i].pkg
           row == [pkg |-> pkg, files |-> pkg.body]
<1>1. inst[i].st = "staged" /\ UNCHANGED <<registryVars, current, tampered, managerVars>>
  BY DEF RenameStaging
<1>2. CASE pkg.ver \in DOMAIN dirs
  BY <1>1, <1>2, AbortInv DEF RenameStaging
<1>3. CASE pkg.ver \notin DOMAIN dirs
  <2>1. dirs' = Put(dirs, pkg.ver, row) /\ inst' = [inst EXCEPT ![i].st = "point"]
    BY <1>3 DEF RenameStaging, Placed
  <2>2. pkg \in Signed /\ pkg \in Package
    BY <1>1 DEF InstallerInv, Signed, CatalogInv
  <2>3. row \in DirRow /\ row.pkg = pkg /\ pkg.ver \in Version
    BY <2>2 DEF DirRow, Package
  <2> HIDE DEF row
  <2>4. /\ DOMAIN dirs' = DOMAIN dirs \cup {pkg.ver} /\ dirs'[pkg.ver] = row
        /\ \A v \in DOMAIN dirs : dirs'[v] = dirs[v]
    BY <1>3, <2>1 DEF Put
  <2>5. /\ inst'[i] \in InstallRow /\ inst'[i].st = "point" /\ inst'[i].pkg = pkg
        /\ \A k \in Installer \ {i} : inst'[k] = inst[k]
        /\ inst' \in [Installer -> InstallRow \cup {NoInstall}]
    BY <1>1, <2>1, StepRow
  <2> HIDE DEF pkg
  <2>6. Signed' = Signed
    BY <1>1 DEF Signed, registryVars
  <2>7. InstallerInv'
    <3>1. pkg \in published /\ pkg.key = Trusted
      BY <2>2 DEF Signed
    <3> QED BY <1>1, <2>4, <2>5, <3>1 DEF InstallerInv, registryVars
  <2>8. DirsInv'
    BY <1>1, <2>2, <2>3, <2>4, <2>6 DEF DirsInv, InstalledSigned, PointerSound
  <2>9. \A m : Vouched(m) => Vouched(m)'
    BY <1>1, <2>4, <2>6 DEF Vouched
  <2>10. CatalogInv' /\ ManagerInv'
    BY <1>1, <2>6, <2>9 DEF registryVars, managerVars, CatalogInv, ManagerInv, EvidenceVouched
  <2> QED BY <2>7, <2>8, <2>10
<1> QED BY <1>2, <1>3

\* The pointer goes through empty to a version that has its directory.
LEMMA PointerInv ==
  ASSUME MarketInv, NEW i \in Installer, TruncateCurrent(i) \/ WriteCurrent(i)
  PROVE  MarketInv'
<1> USE DEF MarketInv
<1>1. UNCHANGED <<registryVars, dirs, tampered, managerVars>>
  BY DEF TruncateCurrent, WriteCurrent
<1>2. inst[i].st \in {"point", "truncated"}
  BY DEF TruncateCurrent, WriteCurrent
<1>3. inst[i].pkg.ver \in DOMAIN dirs
  BY <1>2 DEF InstallerInv
<1>4. /\ current' \in [head : Version \cup {0}, left : SUBSET Nat]
      /\ PointerSound'
  <2>1. CASE TruncateCurrent(i)
    <3>1. current'.head = 0 /\ current'.left = {} /\ current' = [head |-> 0, left |-> {}]
      BY <2>1 DEF TruncateCurrent, Pointer
    <3> QED BY <3>1 DEF PointerSound
  <2>2. CASE WriteCurrent(i)
    <3> DEFINE v == inst[i].pkg.ver
    <3>1. /\ current'.head = v /\ current'.left = Remains(v)
          /\ current' = [head |-> v, left |-> Remains(v)]
      BY <2>2 DEF WriteCurrent, Pointer
    <3>2. v \in DOMAIN dirs /\ v \in Version /\ v # 0
      BY <1>3, PluginAssumption DEF DirsInv
    <3>3. /\ DOMAIN dirs \subseteq Version /\ \A w \in Version : Length[w] \in Nat
          /\ current.left \subseteq Nat
      BY PluginAssumption DEF DirsInv
    <3>4. ASSUME NEW p \in Remains(v)
          PROVE  p \in Nat /\ p > Length[v] + 1 /\ \E w \in DOMAIN dirs : p <= Length[w]
      <4>1. p > Length[v] + 1 /\ (p \in current.left \/ (current.head # 0 /\ p \in 1..Length[current.head]))
        BY <3>4 DEF Remains
      <4>2. CASE p \in current.left
        BY <3>3, <4>1, <4>2 DEF DirsInv, PointerSound
      <4>3. CASE current.head # 0 /\ p \in 1..Length[current.head]
        <5>1. current.head \in DOMAIN dirs
          BY <4>3 DEF DirsInv, PointerSound
        <5> QED BY <3>3, <4>1, <4>3, <5>1
      <4> QED BY <4>1, <4>2, <4>3
    <3> HIDE DEF v
    <3>5. Remains(v) \in SUBSET Nat
      BY <3>4
    <3> QED BY <1>1, <3>1, <3>2, <3>4, <3>5 DEF PointerSound
  <2> QED BY <2>1, <2>2
<1>5. DirsInv'
  BY <1>1, <1>4 DEF DirsInv, InstalledSigned, Signed, registryVars
<1>6. CatalogInv' /\ ManagerInv'
  BY <1>1 DEF registryVars, managerVars, CatalogInv, ManagerInv, EvidenceVouched, Vouched, Signed
<1>7. InstallerInv'
  <2>1. CASE TruncateCurrent(i)
    <3>1. inst[i].st = "point" /\ inst' = [inst EXCEPT ![i].st = "truncated"]
      BY <2>1 DEF TruncateCurrent
    <3>2. /\ inst'[i] \in InstallRow /\ inst'[i].st = "truncated" /\ inst'[i].pkg = inst[i].pkg
          /\ \A k \in Installer \ {i} : inst'[k] = inst[k]
          /\ inst' \in [Installer -> InstallRow \cup {NoInstall}]
      BY <3>1, StepRow
    <3> QED BY <1>1, <1>3, <3>1, <3>2 DEF InstallerInv, registryVars
  <2>2. CASE WriteCurrent(i)
    <3>1. NoInstall.st = "idle"
      BY DEF NoInstall
    <3> QED BY <1>1, <2>2, <3>1 DEF WriteCurrent, Abort, InstallerInv, registryVars
  <2> QED BY <2>1, <2>2
<1> QED BY <1>5, <1>6, <1>7

\* An edited file is still in a directory whose package is signed.
LEMMA TamperInv ==
  ASSUME MarketInv, NEW v \in DOMAIN dirs, NEW b \in Body, Tamper(v, b)
  PROVE  MarketInv'
<1> USE DEF MarketInv
<1>1. /\ dirs' = [dirs EXCEPT ![v].files = b] /\ tampered' = TRUE
      /\ UNCHANGED <<registryVars, inst, current, managerVars>>
  BY DEF Tamper
<1>2. dirs[v] \in DirRow
  BY DEF DirsInv
<1>3. /\ [dirs[v] EXCEPT !.files = b] \in DirRow
      /\ [dirs[v] EXCEPT !.files = b].pkg = dirs[v].pkg
  BY <1>2 DEF DirRow
<1>4. /\ DOMAIN dirs' = DOMAIN dirs /\ dirs'[v] \in DirRow /\ dirs'[v].pkg = dirs[v].pkg
      /\ \A w \in DOMAIN dirs \ {v} : dirs'[w] = dirs[w]
  <2>1. \A f : \A d : DOMAIN [f EXCEPT ![v] = d] = DOMAIN f
    OBVIOUS
  <2>2. dirs' = [dirs EXCEPT ![v] = [dirs[v] EXCEPT !.files = b]]
    BY <1>1
  <2> QED BY <1>3, <2>1, <2>2
<1>5. DirsInv'
  BY <1>1, <1>4 DEF DirsInv, InstalledSigned, PointerSound, Signed, registryVars
<1>6. \A m : Vouched(m) => Vouched(m)'
  BY <1>1, <1>4 DEF Vouched, Signed, registryVars
<1>7. EvidenceVouched'
  BY <1>1 DEF ManagerInv, EvidenceVouched, Signed, registryVars, managerVars
<1>8. CatalogInv' /\ ManagerInv' /\ InstallerInv'
  BY <1>1, <1>4, <1>6, <1>7 DEF registryVars, managerVars, CatalogInv, ManagerInv, InstallerInv
<1> QED BY <1>5, <1>8

\* The manager loads, or handles an event: the installation stays.
LEMMA ManagerFrame ==
  ASSUME MarketInv, ManagerInv', UNCHANGED <<registryVars, installVars>>
  PROVE  MarketInv'
BY DEF registryVars, installVars, MarketInv, CatalogInv, InstallerInv, DirsInv, InstalledSigned, PointerSound, Signed

\* The load begins.
LEMMA ReadCurrentInv ==
  ASSUME MarketInv, ReadCurrent
  PROVE  MarketInv'
<1>1. loads' \in 0..MaxLoads
  BY PluginAssumption DEF MarketInv, ManagerInv, ReadCurrent
<1>2. ManagerInv'
  BY <1>1 DEF MarketInv, ManagerInv, DirsInv, ReadCurrent, Named, EvidenceVouched, Vouched, Signed, registryVars,
              installVars
<1> QED BY <1>2, ManagerFrame DEF ReadCurrent

\* An accepted directory's files are what the trusted key has signed.
LEMMA LoadInstalledInv ==
  ASSUME MarketInv, LoadInstalled
  PROVE  MarketInv'
<1> USE DEF MarketInv
<1> DEFINE m == Manifest(loader, dirs[loader].files, "installed")
<1>1. loader' = 0 /\ UNCHANGED <<registryVars, installVars, loads, evidence>>
  BY DEF LoadInstalled
<1>2. Signed' = Signed
  BY <1>1 DEF Signed, registryVars
<1>3. manifests' \in Seq(ManifestRow) /\ \A n \in 1..Len(manifests') : Vouched(manifests'[n])
  <2>1. CASE loader \in DOMAIN dirs /\ Accepts(dirs[loader])
    <3>1. dirs[loader] \in DirRow /\ loader \in Version /\ dirs[loader].pkg \in Signed /\ dirs[loader].pkg.ver = loader
      BY <2>1 DEF DirsInv, InstalledSigned
    <3>2. m \in ManifestRow /\ m.ver = loader /\ m.body = dirs[loader].files
      BY <3>1 DEF Manifest, ManifestRow, DirRow
    <3>3. Vouched(m)
      BY <2>1, <3>1, <3>2 DEF Vouched, Accepts
    <3>4. manifests' = Append(manifests, m)
      BY <2>1 DEF LoadInstalled
    <3> HIDE DEF m
    <3>5. /\ manifests' \in Seq(ManifestRow) /\ Len(manifests') = Len(manifests) + 1
          /\ \A n \in 1..Len(manifests) : manifests'[n] = manifests[n]
          /\ manifests'[Len(manifests) + 1] = m
      BY <3>2, <3>4, AppendProperties DEF ManagerInv
    <3>6. Len(manifests) \in Nat
      BY LenProperties DEF ManagerInv
    <3>7. ASSUME NEW n \in 1..Len(manifests') PROVE Vouched(manifests'[n])
      <4>1. CASE n = Len(manifests) + 1
        BY <3>3, <3>5, <4>1
      <4>2. CASE n # Len(manifests) + 1
        BY <3>5, <3>6, <4>2 DEF ManagerInv
      <4> QED BY <4>1, <4>2
    <3> QED BY <3>5, <3>7
  <2>2. CASE ~(loader \in DOMAIN dirs /\ Accepts(dirs[loader]))
    BY <2>2 DEF LoadInstalled, ManagerInv
  <2> QED BY <2>1, <2>2
<1>4. \A x : Vouched(x) => Vouched(x)'
  BY <1>1, <1>2 DEF Vouched, installVars
<1>5. EvidenceVouched'
  BY <1>1, <1>2 DEF ManagerInv, EvidenceVouched, installVars
<1>6. ManagerInv'
  BY <1>1, <1>3, <1>4, <1>5 DEF ManagerInv
<1> QED BY <1>1, <1>6, ManagerFrame

\* An operator's own manifests carry no signature and claim none.
LEMMA LoadPluginsInv ==
  ASSUME MarketInv, CheckAndReload
  PROVE  MarketInv'
<1> USE DEF MarketInv
<1>1. PICK b \in Body : LoadPlugins(b)
  BY DEF CheckAndReload
<1> DEFINE m == Manifest(0, b, "local")
<1>2. /\ loads < MaxLoads /\ loads' = loads + 1 /\ manifests' = <<m>>
      /\ UNCHANGED <<registryVars, installVars, loader, evidence>>
  BY <1>1 DEF LoadPlugins
<1>3. m \in ManifestRow /\ m.how = "local"
  BY DEF Manifest, ManifestRow
<1>4. Vouched(m) /\ Vouched(m)'
  BY <1>3 DEF Vouched
<1> HIDE DEF m
<1>5. manifests' \in Seq(ManifestRow) /\ Len(manifests') = 1 /\ manifests'[1] = m
  BY <1>2, <1>3
<1>6. loads' \in 0..MaxLoads
  BY <1>2, PluginAssumption DEF ManagerInv
<1>7. \A n \in 1..Len(manifests') : manifests'[n] = m
  BY <1>5
<1>8. Signed' = Signed
  BY <1>2 DEF Signed, registryVars
<1>9. (\A n \in 1..Len(manifests) : Vouched(manifests[n]))'
  BY <1>4, <1>7
<1>10. EvidenceVouched'
  BY <1>2, <1>8 DEF ManagerInv, EvidenceVouched, installVars
<1>11. ManagerInv'
  BY <1>2, <1>5, <1>6, <1>9, <1>10 DEF ManagerInv
<1> QED BY <1>2, <1>11, ManagerFrame

\* Neither runner keeps a stored result of a plugin that may not store.
LEMMA ExecuteGuarded ==
  ASSUME NEW b, NEW tried
  PROVE  "stored" \in Execute(b, tried) => b \in Writes
BY DEF Execute, LuaExecute, GRPCExecute, MayStore

\* What a manifest's turn stores and emits names that manifest.
LEMMA HandleInv ==
  ASSUME MarketInv, Handle
  PROVE  MarketInv'
<1> USE DEF MarketInv
<1>1. UNCHANGED <<registryVars, installVars, loader, loads, manifests>>
  BY DEF Handle
<1>2. PICK n \in DOMAIN manifests, tried \in SUBSET {"stored", "emitted"} :
        \E b \in Runs(manifests[n]) :
          evidence' = {[from |-> manifests[n], ran |-> b, kind |-> k] : k \in Execute(manifests[n].body, tried)}
  BY DEF Handle
<1>3. PICK b \in Runs(manifests[n]) :
        evidence' = {[from |-> manifests[n], ran |-> b, kind |-> k] : k \in Execute(manifests[n].body, tried)}
  BY <1>2
<1>4. n \in 1..Len(manifests) /\ Vouched(manifests[n])
  BY <1>2 DEF ManagerInv
<1>5. IsInstalledLua(manifests[n]) /\ b # manifests[n].body => tampered
  BY <1>3, <1>4 DEF Runs, IsInstalledLua, Vouched
<1>6. Signed' = Signed /\ tampered' = tampered
  BY <1>1 DEF Signed, registryVars, installVars
<1>7. EvidenceVouched'
  <2> SUFFICES ASSUME NEW e \in evidence'
               PROVE  /\ e.kind = "stored" => e.from.body \in Writes
                      /\ e.from.how = "installed" => \E p \in Signed : p.ver = e.from.ver /\ p.body = e.from.body
                      /\ IsInstalledLua(e.from) /\ e.ran # e.from.body => tampered
    BY <1>6 DEF EvidenceVouched
  <2>1. PICK k \in Execute(manifests[n].body, tried) : e = [from |-> manifests[n], ran |-> b, kind |-> k]
    BY <1>3
  <2>2. e.from = manifests[n] /\ e.ran = b /\ e.kind = k
    BY <2>1
  <2>3. e.kind = "stored" => e.from.body \in Writes
    BY <2>1, <2>2, ExecuteGuarded
  <2> QED BY <1>4, <1>5, <2>2, <2>3 DEF Vouched
<1>8. \A x : Vouched(x) => Vouched(x)'
  BY <1>1, <1>6 DEF Vouched, installVars
<1>9. ManagerInv'
  BY <1>1, <1>7, <1>8 DEF ManagerInv
<1> QED BY <1>1, <1>9, ManagerFrame

\* Every step keeps the installation's invariant.
LEMMA NextMarketInv == MarketInv /\ [Next]_vars => MarketInv'
<1> SUFFICES ASSUME MarketInv, [Next]_vars PROVE MarketInv'
  OBVIOUS
<1>1. CASE RestartRegistry
  BY <1>1, RestartInv
<1>2. ASSUME NEW v \in Version, NEW b \in Body, Publish(v, b) PROVE MarketInv'
  BY <1>2, PublishInv
<1>3. ASSUME NEW i \in Installer, NEW v \in Version \cup {0}, GetPlugin(i, v) PROVE MarketInv'
  BY <1>3, GetPluginInv
<1>4. ASSUME NEW i \in Installer, Download(i) PROVE MarketInv'
  BY <1>4, DownloadInv
<1>5. ASSUME NEW i \in Installer, RenameStaging(i) PROVE MarketInv'
  BY <1>5, RenameStagingInv
<1>6. ASSUME NEW i \in Installer, TruncateCurrent(i) \/ WriteCurrent(i) PROVE MarketInv'
  BY <1>6, PointerInv
<1>7. ASSUME NEW i \in Installer, CrashInstaller(i) PROVE MarketInv'
  BY <1>7, AbortInv DEF CrashInstaller
<1>8. ASSUME NEW v \in DOMAIN dirs, NEW b \in Body, Tamper(v, b) PROVE MarketInv'
  BY <1>8, TamperInv
<1>9. CASE Manage
  BY <1>9, ReadCurrentInv, LoadInstalledInv, LoadPluginsInv, HandleInv DEF Manage
<1>10. CASE HotReload
  BY <1>10, MarketFrame DEF HotReload, Stage, Rollback, RegisterDiscoveredPlugin, VerifyPluginStage, PromoteToActive
<1>11. CASE UNCHANGED vars
  BY <1>11, MarketFrame DEF vars
<1> QED
  BY <1>1, <1>2, <1>3, <1>4, <1>5, <1>6, <1>7, <1>8, <1>9, <1>10, <1>11 DEF Next, Market, Registry, Install

-----------------------------------------------------------------------------
\* Setting a stage's state keeps its version and the other stages.
LEMMA SetStateEffect ==
  ASSUME NEW s \in Seq(StageRow), NEW n \in {0} \cup (1..Len(s)),
         NEW st \in {"registered", "verified", "active", "retired"}
  PROVE  /\ SetState(s, n, st) \in Seq(StageRow) /\ Len(SetState(s, n, st)) = Len(s)
         /\ \A k \in 1..Len(s) :
              /\ SetState(s, n, st)[k].ver = s[k].ver
              /\ SetState(s, n, st)[k].state = IF k = n THEN st ELSE s[k].state
<1>0. Len(s) \in Nat /\ \A k \in 1..Len(s) : s[k] \in StageRow
  BY LenProperties, ElementOfSeq
<1>1. CASE n = 0
  BY <1>0, <1>1 DEF SetState
<1>2. CASE n # 0
  <2> DEFINE row == [s[n] EXCEPT !.state = st]
  <2>1. n \in 1..Len(s) /\ s[n] \in StageRow
    BY <1>0, <1>2
  <2>2. row \in StageRow /\ row.ver = s[n].ver /\ row.state = st
    BY <2>1 DEF StageRow
  <2>3. SetState(s, n, st) = [s EXCEPT ![n] = row]
    BY <1>2 DEF SetState
  <2> HIDE DEF row
  <2>4. /\ [s EXCEPT ![n] = row] \in Seq(StageRow) /\ Len([s EXCEPT ![n] = row]) = Len(s)
        /\ \A k \in 1..Len(s) : [s EXCEPT ![n] = row][k] = IF k = n THEN row ELSE s[k]
    BY <2>1, <2>2, ExceptSeq
  <2> QED BY <2>2, <2>3, <2>4
<1> QED BY <1>1, <1>2

LEMMA InitStageInv == Init => StageInv
BY DEF Init, StageInv, StageTypeOK, VerifiedChecked, RollbackReady

\* Steps of the registry, the installers and the manager touch no stage.
LEMMA StageFrame ==
  ASSUME StageInv, UNCHANGED stageVars
  PROVE  StageInv'
BY DEF stageVars, StageInv, StageTypeOK, VerifiedChecked, RollbackReady

\* A new stage is neither verified nor active.
LEMMA RegisterStageInv ==
  ASSUME StageInv, NEW v \in Version, RegisterDiscoveredPlugin(v)
  PROVE  StageInv'
<1> USE DEF StageInv
<1> DEFINE row == [ver |-> v, state |-> "registered"]
<1>1. stages' = Append(stages, row) /\ UNCHANGED <<active, previous, checked>>
  BY DEF RegisterDiscoveredPlugin
<1>2. row \in StageRow /\ row.state = "registered"
  BY DEF StageRow
<1> HIDE DEF row
<1>3. stages \in Seq(StageRow) /\ Len(stages) \in Nat
  BY LenProperties DEF StageTypeOK
<1>4. /\ stages' \in Seq(StageRow) /\ Len(stages') = Len(stages) + 1
      /\ \A n \in 1..Len(stages) : stages'[n] = stages[n]
      /\ stages'[Len(stages) + 1] = row
  BY <1>1, <1>2, <1>3, AppendProperties
<1>5. DOMAIN stages = 1..Len(stages) /\ DOMAIN stages' = 1..(Len(stages) + 1)
  BY <1>3, <1>4, LenProperties
<1>6. StageTypeOK'
  BY <1>1, <1>3, <1>4 DEF StageTypeOK
<1>7. \A n \in 1..(Len(stages) + 1) : n \in 1..Len(stages) \/ n = Len(stages) + 1
  BY <1>3
<1>8. VerifiedChecked'
  BY <1>1, <1>2, <1>4, <1>7 DEF VerifiedChecked
<1>9. RollbackReady'
  BY <1>1, <1>2, <1>4, <1>5, <1>7 DEF RollbackReady, StageTypeOK
<1> QED BY <1>6, <1>8, <1>9

\* Verification marks the stage and remembers it.
LEMMA VerifyStageInv ==
  ASSUME StageInv, NEW v \in Version, VerifyPluginStage(v)
  PROVE  StageInv'
<1> USE DEF StageInv
<1>1. PICK n \in Staged(v) : stages' = SetState(stages, n, "verified") /\ checked' = checked \cup {n}
  BY DEF VerifyPluginStage
<1>2. UNCHANGED <<active, previous>>
  BY DEF VerifyPluginStage
<1>3. stages \in Seq(StageRow) /\ Len(stages) \in Nat /\ DOMAIN stages = 1..Len(stages)
  BY LenProperties DEF StageTypeOK
<1>4. n \in 1..Len(stages)
  BY <1>1, <1>3 DEF Staged
<1>5. /\ stages' \in Seq(StageRow) /\ Len(stages') = Len(stages)
      /\ \A k \in 1..Len(stages) :
           stages'[k].ver = stages[k].ver /\ stages'[k].state = IF k = n THEN "verified" ELSE stages[k].state
  BY <1>1, <1>3, <1>4, SetStateEffect
<1>6. DOMAIN stages' = DOMAIN stages
  BY <1>3, <1>5, LenProperties
<1>7. StageTypeOK' /\ VerifiedChecked'
  BY <1>1, <1>2, <1>3, <1>4, <1>5 DEF StageTypeOK, VerifiedChecked
<1>8. RollbackReady'
  BY <1>1, <1>2, <1>3, <1>4, <1>5, <1>6 DEF RollbackReady, StageTypeOK
<1> QED BY <1>7, <1>8

\* Two pointers change hands: the new active stage was verified, and it is
\* another version's than the one it retires.
LEMMA SwitchStages ==
  ASSUME StageInv, NEW n \in 1..Len(stages), n \in checked,
         stages' = SetState(SetState(stages, active, "retired"), n, "active"), active' = n, checked' = checked
  PROVE  /\ stages' \in Seq(StageRow) /\ Len(stages') = Len(stages)
         /\ DOMAIN stages' = DOMAIN stages /\ DOMAIN stages = 1..Len(stages)
         /\ \A k \in 1..Len(stages) : stages'[k].ver = stages[k].ver
         /\ \A k \in 1..Len(stages) : stages'[k].state = "active" => k = n
         /\ VerifiedChecked'
<1> USE DEF StageInv
<1> DEFINE mid == SetState(stages, active, "retired")
<1>1. stages \in Seq(StageRow) /\ Len(stages) \in Nat /\ active \in {0} \cup (1..Len(stages))
  BY LenProperties DEF StageTypeOK
<1>2. /\ mid \in Seq(StageRow) /\ Len(mid) = Len(stages)
      /\ \A k \in 1..Len(stages) :
           mid[k].ver = stages[k].ver /\ mid[k].state = IF k = active THEN "retired" ELSE stages[k].state
  BY <1>1, SetStateEffect
<1> HIDE DEF mid
<1>3. stages' = SetState(mid, n, "active")
  BY DEF mid
<1>4. /\ stages' \in Seq(StageRow) /\ Len(stages') = Len(mid)
      /\ \A k \in 1..Len(mid) :
           stages'[k].ver = mid[k].ver /\ stages'[k].state = IF k = n THEN "active" ELSE mid[k].state
  BY <1>2, <1>3, SetStateEffect
<1>5. DOMAIN stages' = DOMAIN stages /\ DOMAIN stages = 1..Len(stages)
  BY <1>1, <1>2, <1>4, LenProperties
<1>6. \A k \in 1..Len(stages) : stages'[k].state = "active" => k = n
  BY <1>2, <1>4, <1>5 DEF RollbackReady
<1>7. VerifiedChecked'
  BY <1>2, <1>4 DEF VerifiedChecked
<1> QED BY <1>2, <1>4, <1>5, <1>6, <1>7

LEMMA PromoteInv ==
  ASSUME StageInv, NEW v \in Version, PromoteToActive(v)
  PROVE  StageInv'
<1> USE DEF StageInv
<1>1. PICK n \in Staged(v) :
        /\ Promotable(n)
        /\ stages' = SetState(SetState(stages, active, "retired"), n, "active")
        /\ previous' = (IF active = 0 THEN previous ELSE active) /\ active' = n
  BY DEF PromoteToActive
<1>2. checked' = checked
  BY DEF PromoteToActive
<1>3. n \in 1..Len(stages)
  BY <1>1, LenProperties DEF Staged, StageTypeOK
<1>4. n \in checked
  BY <1>1, <1>3 DEF Promotable, VerifiedChecked
<1>5. /\ stages' \in Seq(StageRow) /\ Len(stages') = Len(stages)
      /\ DOMAIN stages' = DOMAIN stages /\ DOMAIN stages = 1..Len(stages)
      /\ \A k \in 1..Len(stages) : stages'[k].ver = stages[k].ver
      /\ \A k \in 1..Len(stages) : stages'[k].state = "active" => k = n
      /\ VerifiedChecked'
  BY <1>1, <1>2, <1>3, <1>4, SwitchStages
<1>6. StageTypeOK'
  BY <1>1, <1>2, <1>3, <1>5 DEF StageTypeOK
<1>7. active' # 0 /\ previous' # 0 => stages'[active'].ver # stages'[previous'].ver
  BY <1>1, <1>3, <1>5 DEF Promotable, StageTypeOK, RollbackReady
<1>8. RollbackReady'
  BY <1>1, <1>2, <1>4, <1>5, <1>7 DEF RollbackReady
<1> QED BY <1>5, <1>6, <1>8

LEMMA RollbackInv ==
  ASSUME StageInv, Rollback
  PROVE  StageInv'
<1> USE DEF StageInv
<1>1. /\ previous # 0 /\ active' = previous /\ previous' = 0 /\ checked' = checked
      /\ stages' = SetState(SetState(stages, active, "retired"), previous, "active")
  BY DEF Rollback
<1>2. previous \in 1..Len(stages) /\ previous \in checked
  BY <1>1 DEF StageTypeOK, RollbackReady
<1>3. /\ stages' \in Seq(StageRow) /\ Len(stages') = Len(stages)
      /\ DOMAIN stages' = DOMAIN stages /\ DOMAIN stages = 1..Len(stages)
      /\ \A k \in 1..Len(stages) : stages'[k].ver = stages[k].ver
      /\ \A k \in 1..Len(stages) : stages'[k].state = "active" => k = previous
      /\ VerifiedChecked'
  BY <1>1, <1>2, SwitchStages
<1> QED BY <1>1, <1>2, <1>3 DEF StageTypeOK, RollbackReady

\* Every step keeps the hot-reload manager's invariant.
LEMMA NextStageInv == StageInv /\ [Next]_vars => StageInv'
<1> SUFFICES ASSUME StageInv, [Next]_vars PROVE StageInv'
  OBVIOUS
<1>1. CASE Market
  <2>1. UNCHANGED stageVars
    BY <1>1 DEF Market, Registry, RestartRegistry, Publish, Manage, ReadCurrent, LoadInstalled, Handle, CheckAndReload,
                LoadPlugins, Install, GetPlugin, Download, RenameStaging, TruncateCurrent, WriteCurrent, CrashInstaller,
                Tamper
  <2> QED BY <2>1, StageFrame
<1>2. CASE HotReload
  BY <1>2, RollbackInv, RegisterStageInv, VerifyStageInv, PromoteInv DEF HotReload, Stage
<1>3. CASE UNCHANGED vars
  BY <1>3, StageFrame DEF vars
<1> QED BY <1>1, <1>2, <1>3 DEF Next

-----------------------------------------------------------------------------
\* Together the two invariants type every variable.
LEMMA InvariantsType ==
  ASSUME MarketInv, StageInv
  PROVE  TypeOK
<1> USE DEF MarketInv, StageInv
<1>1. DOMAIN catalog \subseteq Version /\ \A v \in DOMAIN catalog : catalog[v] \in Package
  BY DEF CatalogInv
<1>2. \A i \in Installer : inst[i] = NoInstall \/ inst[i] \in InstallRow
  BY DEF InstallerInv
<1>3. \A n \in DOMAIN manifests : manifests[n] \in ManifestRow
  BY LenProperties, ElementOfSeq DEF ManagerInv
<1>4. DOMAIN stages = 1..Len(stages)
  BY LenProperties DEF StageTypeOK
<1> QED
  BY <1>1, <1>2, <1>3, <1>4
     DEF TypeOK, CatalogInv, DirsInv, ManagerInv, StageTypeOK, InstallRow, DirRow, ManifestRow, StageRow

\* Every installed directory holds a package the trusted key signed under its own
\* version; a pointer file that is not empty begins with an installed version, and
\* only the end of a longer installed version may follow it: whatever restarts of
\* the registry come between the description and the download of a release and
\* however installers interleave or crash (installVerifiedPackage).
THEOREM InstallationTheorem == Spec => []InstallationSound
<1>1. MarketInv /\ StageInv => InstallationSound
  BY InvariantsType DEF MarketInv, DirsInv, InstallationSound
<1> QED BY <1>1, InitMarketInv, NextMarketInv, InitStageInv, NextStageInv, PTL DEF Spec

\* No output of a plugin is kept that its loaded manifest's permissions forbid, the
\* trusted key has signed that manifest if it is an installed plugin's, and only an
\* edit of an installed file makes a Lua plugin run another script than the one
\* that was verified (LoadInstalled, Execute).
THEOREM EvidenceVouchedTheorem == Spec => []EvidenceVouched
<1>1. MarketInv => EvidenceVouched
  BY DEF MarketInv, ManagerInv
<1> QED BY <1>1, InitMarketInv, NextMarketInv, PTL DEF Spec

\* The active stage and the one a rollback restores are verified and of different
\* versions, and no other stage is marked active (SafeHotReloadManager).
THEOREM RollbackReadyTheorem == Spec => []RollbackReady
<1>1. StageInv => RollbackReady
  BY DEF StageInv
<1> QED BY <1>1, InitStageInv, NextStageInv, PTL DEF Spec
=============================================================================
