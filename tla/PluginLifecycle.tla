-------------------------- MODULE PluginLifecycle --------------------------
(***************************************************************************)
(* The life of one plugin: a registry publishes signed releases, processes *)
(* install them into a directory per version with a pointer to the current *)
(* one, a plugin manager loads what is installed and handles events, and a *)
(* hot-reload manager promotes and rolls back staged versions.  Installers *)
(* run concurrently, may crash between two file operations, and the        *)
(* registry may restart with another catalog or another key.               *)
(***************************************************************************)
EXTENDS Naturals, Sequences, FiniteSets

CONSTANTS
  Installer,      \* processes that run plugin-install or plugin-update
  Version,        \* semantic versions, in their order
  Length,         \* how many characters a version has
  Body,           \* contents a release may have: manifest and files
  Writes,         \* the bodies whose manifest asks for store_write
  Grpc,           \* the bodies of type grpc; the others are Lua scripts
  Trusted, Other, \* signing keys: the one operators trust, and another
  MaxPublish, MaxLoads, MaxStages   \* bounds: publications, loads, stages

ASSUME PluginAssumption ==
  /\ Version \subseteq Nat \ {0} /\ Version # {}
  /\ Length \in [Version -> Nat \ {0}]
  /\ Writes \subseteq Body /\ Grpc \subseteq Body
  /\ Trusted # Other
  /\ {MaxPublish, MaxLoads, MaxStages} \subseteq Nat

VARIABLES
  catalog,    \* the registry's releases: version -> package
  key,        \* its signing key
  published,  \* packages ever published
  inst,       \* per installer: its step, selected release and download
  dirs,       \* the installation: version -> package and files on disk
  current,    \* the pointer file: its first line, and what is left after it
  tampered,   \* an installed file has been changed behind the installer's back
  loader,     \* the manager's load in progress: the version it read, or 0
  loads,      \* loads so far
  manifests,  \* PluginManager.manifests
  evidence,   \* what the last execution of a plugin stored and emitted
  stages,     \* stages of the hot-reload manager, in order of registration
  active, previous,   \* its two pointers: indices of stages, or 0
  checked     \* stages that ever passed verification

registryVars == <<catalog, key, published>>
installVars == <<inst, dirs, current, tampered>>
managerVars == <<loader, loads, manifests, evidence>>
stageVars == <<stages, active, previous, checked>>
vars == <<registryVars, installVars, managerVars, stageVars>>

Package == [ver: Version, body: Body, key: {Trusted, Other}]

NoInstall == [st |-> "idle", pkg |-> <<>>]

\* The pointer file holds a version (or none, 0) and a newline; left are the
\* positions after these that hold a character of a longer version.
Pointer(v, left) == [head |-> v, left |-> left]

\* The version the whole file names; 0 if it names none.
Named == IF current.left = {} THEN current.head ELSE 0

Put(f, x, v) == [y \in DOMAIN f \cup {x} |-> IF y = x THEN v ELSE f[y]]

----------------------------------------------------------------------------
(***************************************************************************)
(* The registry.                                                           *)
(***************************************************************************)

\* A published version is never replaced.
Publish(v, b) ==
  /\ Cardinality(published) < MaxPublish
  /\ v \notin DOMAIN catalog
  /\ LET pkg == [ver |-> v, body |-> b, key |-> key] IN
     catalog' = Put(catalog, v, pkg) /\ published' = published \cup {pkg}
  /\ UNCHANGED <<key, installVars, managerVars, stageVars>>

\* Releases live in memory: a restarted registry serves what its catalog says now.
RestartRegistry ==
  /\ catalog # <<>> /\ Cardinality(published) < MaxPublish
  /\ catalog' = <<>> /\ key' \in {Trusted, Other}
  /\ UNCHANGED <<published, installVars, managerVars, stageVars>>

LatestLocked == CHOOSE v \in DOMAIN catalog : \A w \in DOMAIN catalog : w <= v

----------------------------------------------------------------------------
(***************************************************************************)
(* Install.  The release is described and downloaded in two requests.      *)
(***************************************************************************)

\* requested = 0 asks for the latest version, as Update does.
SelectPluginVersion(requested) ==
  IF requested = 0 THEN {LatestLocked} ELSE {requested} \cap DOMAIN catalog

GetPlugin(i, requested) ==
  /\ inst[i].st = "idle" /\ catalog # <<>>
  /\ \E v \in SelectPluginVersion(requested) :
       inst' = [inst EXCEPT ![i] = [st |-> "described", pkg |-> catalog[v]]]
  /\ UNCHANGED <<registryVars, dirs, current, tampered, managerVars, stageVars>>

SameDigest(p, q) == p.ver = q.ver /\ p.body = q.body

\* The signature is the one of the description, over the downloaded bytes.
Verifies(meta, pkg) == SameDigest(meta, pkg) /\ meta.key = Trusted

Abort(i) == inst' = [inst EXCEPT ![i] = NoInstall]

Download(i) ==
  /\ inst[i].st = "described"
  /\ LET meta == inst[i].pkg IN
     IF meta.ver \in DOMAIN catalog /\ Verifies(meta, catalog[meta.ver])
     THEN inst' = [inst EXCEPT ![i].st = IF meta.ver \in DOMAIN dirs THEN "point" ELSE "staged"]
     ELSE Abort(i)
  /\ UNCHANGED <<registryVars, dirs, current, tampered, managerVars, stageVars>>

Placed(i) == Put(dirs, inst[i].pkg.ver, [pkg |-> inst[i].pkg, files |-> inst[i].pkg.body])

\* The staging directory, complete, becomes the version's; a rename onto a
\* directory that another installer has put there meanwhile fails.
RenameStaging(i) ==
  /\ inst[i].st = "staged"
  /\ IF inst[i].pkg.ver \in DOMAIN dirs
     THEN Abort(i) /\ UNCHANGED dirs
     ELSE dirs' = Placed(i) /\ inst' = [inst EXCEPT ![i].st = "point"]
  /\ UNCHANGED <<registryVars, current, tampered, managerVars, stageVars>>

\* Mutant: the pointer moves as soon as the files are staged.
TruncateCurrentEarly(i) ==
  /\ inst[i].st \in {"staged", "point"}
  /\ current' = Pointer(inst[i].pkg.ver, {})
  /\ inst' = [inst EXCEPT ![i].st = IF @ = "staged" THEN "staged" ELSE "truncated"]
  /\ UNCHANGED <<registryVars, dirs, tampered, managerVars, stageVars>>

\* os.WriteFile truncates the pointer and then writes it.
TruncateCurrent(i) ==
  /\ inst[i].st = "point"
  /\ current' = Pointer(0, {})
  /\ inst' = [inst EXCEPT ![i].st = "truncated"]
  /\ UNCHANGED <<registryVars, dirs, tampered, managerVars, stageVars>>

\* It writes from the start of the file, whatever another installer has written
\* since the truncation: of a longer version the end remains.
Remains(v) ==
  {p \in current.left \cup (IF current.head = 0 THEN {} ELSE 1..Length[current.head]) : p > Length[v] + 1}

WriteCurrent(i) ==
  /\ inst[i].st = "truncated"
  /\ current' = Pointer(inst[i].pkg.ver, Remains(inst[i].pkg.ver))
  /\ Abort(i)
  /\ UNCHANGED <<registryVars, dirs, tampered, managerVars, stageVars>>

\* The process dies; a staging directory it leaves has no version's name.
CrashInstaller(i) ==
  /\ inst[i].st # "idle"
  /\ Abort(i)
  /\ UNCHANGED <<registryVars, dirs, current, tampered, managerVars, stageVars>>

\* Somebody edits an installed file.
Tamper(v, b) ==
  /\ ~tampered /\ b # dirs[v].files
  /\ dirs' = [dirs EXCEPT ![v].files = b] /\ tampered' = TRUE
  /\ UNCHANGED <<registryVars, inst, current, managerVars, stageVars>>

----------------------------------------------------------------------------
(***************************************************************************)
(* The plugin manager.                                                     *)
(***************************************************************************)

Manifest(v, b, how) == [ver |-> v, body |-> b, how |-> how]

\* LoadInstalled reads the pointer first, and fails if that names no version ...
ReadCurrent ==
  /\ loader = 0 /\ loads < MaxLoads /\ Named # 0
  /\ loader' = Named /\ loads' = loads + 1
  /\ UNCHANGED <<registryVars, installVars, manifests, evidence, stageVars>>

\* Mutant: the signature is verified, the installed files are not compared.
AcceptsSigned(d) == d.pkg.key = Trusted

Accepts(d) == d.pkg.key = Trusted /\ d.files = d.pkg.body

\* ... and verifies that version, whatever has become current meanwhile.
LoadInstalled ==
  /\ loader # 0
  /\ manifests' = IF loader \in DOMAIN dirs /\ Accepts(dirs[loader])
                  THEN Append(manifests, Manifest(loader, dirs[loader].files, "installed")) ELSE manifests
  /\ loader' = 0
  /\ UNCHANGED <<registryVars, installVars, loads, evidence, stageVars>>

\* The manifests an operator has put into the plugin directory, unsigned, replace
\* all that were loaded; the hot-reload watcher calls it when a file changes.
LoadPlugins(b) ==
  /\ loads < MaxLoads
  /\ manifests' = <<Manifest(0, b, "local")>> /\ loads' = loads + 1
  /\ UNCHANGED <<registryVars, installVars, loader, evidence, stageVars>>

\* The watcher has seen a file with a new modification time.
CheckAndReload == \E b \in Body : LoadPlugins(b)

\* PermissionGuard.Check(store_write).
MayStore(b) == b \in Writes

\* A refused add_asset or add_finding raises an error, which the script may catch:
\* what it emits besides is kept.
LuaExecute(b, tried) == IF MayStore(b) THEN tried ELSE tried \ {"stored"}

\* A response with evidence it may not store is discarded whole.
GRPCExecute(b, tried) == IF "stored" \in tried /\ ~MayStore(b) THEN {} ELSE tried

\* The manifest that was loaded decides about runner and permissions.
Execute(b, tried) == IF b \in Grpc THEN GRPCExecute(b, tried) ELSE LuaExecute(b, tried)

IsInstalledLua(m) == m.how = "installed" /\ m.body \notin Grpc

\* A Lua script is read from its file each time it runs.  The script of a local
\* manifest and the service behind a gRPC plugin may be anything.
Runs(m) == IF IsInstalledLua(m) THEN {dirs[m.ver].files} ELSE Body

\* The manifests handle the event in turn, independently; one that fails is
\* skipped.  A step is the turn of one.  What its code computes is left out: the
\* output names the manifest it is stored under and the code that produced it.
Handle ==
  /\ \E n \in DOMAIN manifests, tried \in SUBSET {"stored", "emitted"} :
       \E b \in Runs(manifests[n]) :
         evidence' = {[from |-> manifests[n], ran |-> b, kind |-> k] : k \in Execute(manifests[n].body, tried)}
  /\ UNCHANGED <<registryVars, installVars, loader, loads, manifests, stageVars>>

----------------------------------------------------------------------------
(***************************************************************************)
(* SafeHotReloadManager.  A stage is an object: a version registered again *)
(* gets a new one, and the pointers may still refer to the old.            *)
(***************************************************************************)

Staged(v) == {n \in DOMAIN stages : stages[n].ver = v /\ \A m \in DOMAIN stages : stages[m].ver = v => m <= n}

SetState(s, n, state) == IF n = 0 THEN s ELSE [s EXCEPT ![n].state = state]

RegisterDiscoveredPlugin(v) ==
  /\ Len(stages) < MaxStages
  /\ stages' = Append(stages, [ver |-> v, state |-> "registered"])
  /\ UNCHANGED <<registryVars, installVars, managerVars, active, previous, checked>>

\* A verifier that fails changes nothing.
VerifyPluginStage(v) ==
  /\ \E n \in Staged(v) :
       stages' = SetState(stages, n, "verified") /\ checked' = checked \cup {n}
  /\ UNCHANGED <<registryVars, installVars, managerVars, active, previous>>

Promotable(n) ==
  /\ stages[n].state = "verified"
  /\ active # 0 => stages[active].ver # stages[n].ver

PromoteToActive(v) ==
  /\ \E n \in Staged(v) :
       /\ Promotable(n)
       /\ stages' = SetState(SetState(stages, active, "retired"), n, "active")
       /\ previous' = IF active = 0 THEN previous ELSE active
       /\ active' = n
  /\ UNCHANGED <<registryVars, installVars, managerVars, checked>>

\* Mutant: the pointer is kept for another rollback.
RollbackKeeping ==
  /\ previous # 0
  /\ stages' = SetState(SetState(stages, active, "retired"), previous, "active")
  /\ active' = previous
  /\ UNCHANGED <<registryVars, installVars, managerVars, previous, checked>>

Rollback ==
  /\ previous # 0
  /\ stages' = SetState(SetState(stages, active, "retired"), previous, "active")
  /\ active' = previous /\ previous' = 0
  /\ UNCHANGED <<registryVars, installVars, managerVars, checked>>

----------------------------------------------------------------------------

Init ==
  /\ catalog = <<>> /\ key \in {Trusted, Other} /\ published = {}
  /\ inst = [i \in Installer |-> NoInstall]
  /\ dirs = <<>> /\ current = Pointer(0, {}) /\ tampered = FALSE
  /\ loader = 0 /\ loads = 0 /\ manifests = <<>> /\ evidence = {}
  /\ stages = <<>> /\ active = 0 /\ previous = 0 /\ checked = {}

Registry == RestartRegistry \/ \E v \in Version, b \in Body : Publish(v, b)

Install(i) ==
  \/ \E v \in Version \cup {0} : GetPlugin(i, v)
  \/ Download(i) \/ RenameStaging(i) \/ TruncateCurrent(i) \/ WriteCurrent(i) \/ CrashInstaller(i)

Manage == ReadCurrent \/ LoadInstalled \/ Handle \/ CheckAndReload

Stage(v) == RegisterDiscoveredPlugin(v) \/ VerifyPluginStage(v) \/ PromoteToActive(v)

Market ==
  \/ Registry \/ Manage
  \/ \E i \in Installer : Install(i)
  \/ \E v \in DOMAIN dirs, b \in Body : Tamper(v, b)

HotReload == Rollback \/ \E v \in Version : Stage(v)

Next == Market \/ HotReload

Spec == Init /\ [][Next]_vars

----------------------------------------------------------------------------
(***************************************************************************)
(* Properties.                                                             *)
(***************************************************************************)

\* Every variable has its type.
TypeOK ==
  /\ DOMAIN catalog \subseteq Version /\ \A v \in DOMAIN catalog : catalog[v] \in Package
  /\ key \in {Trusted, Other} /\ published \subseteq Package
  /\ \A i \in Installer : inst[i] = NoInstall \/ inst[i] \in [st: {"described", "staged", "point", "truncated"}, pkg: Package]
  /\ DOMAIN dirs \subseteq Version /\ \A v \in DOMAIN dirs : dirs[v] \in [pkg: Package, files: Body]
  /\ current \in [head: Version \cup {0}, left: SUBSET Nat] /\ loader \in Version \cup {0} /\ tampered \in BOOLEAN /\ loads \in 0..MaxLoads
  /\ \A n \in DOMAIN manifests : manifests[n] \in [ver: Version \cup {0}, body: Body, how: {"installed", "local"}]
  /\ stages \in Seq([ver: Version, state: {"registered", "verified", "active", "retired"}])
  /\ {active, previous} \subseteq {0} \cup DOMAIN stages /\ checked \subseteq DOMAIN stages

\* The packages a trusted key has signed.
Signed == {p \in published : p.key = Trusted}

\* Every installed directory holds a package the trusted key has signed under its
\* own version, although the registry may restart with another catalog or key
\* between the description and the download (Install).
InstalledSigned == \A v \in DOMAIN dirs : dirs[v].pkg \in Signed /\ dirs[v].pkg.ver = v

\* A pointer that is not empty begins with an installed version, whatever
\* installers overlap or crash; and what follows that version in it is the end of
\* another installed version, at least two characters longer: versions of nearly
\* the same length never splice (installVerifiedPackage).
PointerSound ==
  /\ current.head # 0 => current.head \in DOMAIN dirs
  /\ \A p \in current.left :
       current.head # 0 /\ p > Length[current.head] + 1 /\ \E v \in DOMAIN dirs : p <= Length[v]

\* Only plugins whose loaded manifest asks for store_write store evidence, even
\* when their script has been changed since; the trusted key signed the manifest
\* of an installed plugin; and unless somebody has edited an installed file, the
\* script that runs is the one verified, whatever is installed or published in
\* the meantime (LoadInstalled, LuaRunner.Execute, GRPCHost.Execute).
EvidenceVouched ==
  \A e \in evidence :
    /\ e.kind = "stored" => e.from.body \in Writes
    /\ e.from.how = "installed" => \E p \in Signed : p.ver = e.from.ver /\ p.body = e.from.body
    /\ IsInstalledLua(e.from) /\ e.ran # e.from.body => tampered

\* The active stage and the one a rollback would restore were both verified and
\* differ in version, and only the active stage is marked active, although a
\* version may be registered or verified again while it is active
\* (SafeHotReloadManager).
RollbackReady ==
  /\ {active, previous} \ {0} \subseteq checked
  /\ active # 0 /\ previous # 0 => stages[active].ver # stages[previous].ver
  /\ \A n \in DOMAIN stages : stages[n].state = "active" => n = active

\* The plugin directory: InstalledSigned and PointerSound together.
InstallationSound == TypeOK /\ InstalledSigned /\ PointerSound

============================================================================
