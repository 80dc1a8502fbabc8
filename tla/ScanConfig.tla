----------------------------- MODULE ScanConfig -----------------------------
(***************************************************************************)
(* Scan configurations: how a YAML file becomes a configuration (Default,  *)
(* assign, profiles, Validate), how a requested profile changes one, and   *)
(* how the engagement wizard renders a file.  A file is a function from    *)
(* the keys it sets to their values.  Settings that no profile and no      *)
(* property touches are the key "other", whose value says whether each of  *)
(* them is within its bounds.  The empty string of the code, a text that   *)
(* is not set, is written "empty".                                         *)
(***************************************************************************)
EXTENDS Naturals, FiniteSets

CONSTANTS
  Target,    \* hosts and networks, written canonically
  Cover,     \* target -> the targets an allowed entry for it admits
  Local      \* the loopback target of Default

ASSUME ConfigAssumption ==
  /\ Local \in Target
  /\ Cover \in [Target -> SUBSET Target]
  /\ \A t \in Target : t \in Cover[t]

\* scope.New(allowed).Allowed(t), detailed in the pipeline's scope guard.
Allowed(allowed, t) == \E a \in allowed : t \in Cover[a]

Family == {"discovery", "portscan", "service", "http", "specialized", "passive_intel"}

NoConfig == [valid |-> FALSE]

Setting(file, key, default) == IF key \in DOMAIN file THEN file[key] ELSE default

SetsAny(file, keys) == DOMAIN file \cap keys # {}

----------------------------------------------------------------------------
(***************************************************************************)
(* Default and assign, section by section.                                 *)
(***************************************************************************)

DiscoveryKeys == {"discovery.enable_dns"}
PortScanKeys == {"portscan.profile", "portscan.tcp_ports", "portscan.enable_tcp",
                 "portscan.enable_udp", "portscan.enable_raw_scanning", "portscan.decoy_ips"}
HTTPKeys == {"http.enable_crawler"}
SpecializedKeys == {"specialized.enable_smb"}
PassiveIntelKeys == {"passive_intel.enabled"}

AssignScope(file) ==
  [allowed       |-> Setting(file, "scope.allowed_targets", {Local}),
   authorization |-> Setting(file, "scope.authorization", "empty")]

AssignActiveTesting(file) ==
  [enabled    |-> Setting(file, "active_testing.enabled", FALSE),
   techniques |-> Setting(file, "active_testing.allowed_techniques", {}),
   \* operator, acknowledgement and a future expiry are all in place
   vouched    |-> Setting(file, "active_testing.vouched", FALSE)]

AssignScheduler(file) ==
  [concurrency |-> Setting(file, "scheduler.concurrency", 1),
   min         |-> Setting(file, "scheduler.min_concurrency", 1)]

AssignDiscovery(file) == [dns |-> Setting(file, "discovery.enable_dns", FALSE)]

AssignPortScan(file) ==
  [profile |-> Setting(file, "portscan.profile", "quick"),
   tcp     |-> Setting(file, "portscan.enable_tcp", FALSE),
   ports   |-> Setting(file, "portscan.tcp_ports", {}),
   udp     |-> Setting(file, "portscan.enable_udp", FALSE),
   raw     |-> Setting(file, "portscan.enable_raw_scanning", FALSE),
   decoys  |-> Setting(file, "portscan.decoy_ips", {})]

AssignHTTP(file) == [crawler |-> Setting(file, "http.enable_crawler", FALSE)]

AssignSpecialized(file) == [smb |-> Setting(file, "specialized.enable_smb", FALSE)]

AssignPassiveIntel(file) == [enabled |-> Setting(file, "passive_intel.enabled", FALSE)]

AssignScan(file) ==
  [profile |-> Setting(file, "scan.profile", "empty"),
   custom  |-> Setting(file, "scan.custom_profile", "empty"),
   targets |-> Setting(file, "scan.targets", {Local}),
   ports   |-> Setting(file, "scan.ports", {}),
   plan    |-> {},
   applied |-> FALSE]

\* Every key of the file assigned over Default.
Assigned(file) ==
  [valid       |-> TRUE,
   scope       |-> AssignScope(file),
   active      |-> AssignActiveTesting(file),
   scheduler   |-> AssignScheduler(file),
   discovery   |-> AssignDiscovery(file),
   portscan    |-> AssignPortScan(file),
   http        |-> AssignHTTP(file),
   specialized |-> AssignSpecialized(file),
   passive     |-> AssignPassiveIntel(file),
   scan        |-> AssignScan(file),
   requireAuth |-> Setting(file, "api.require_auth", FALSE),
   otherValid  |-> Setting(file, "other", TRUE)]

Default == Assigned(<<>>)

----------------------------------------------------------------------------
(***************************************************************************)
(* Profiles.                                                               *)
(***************************************************************************)

ScanProfile(modules, ports, concurrency) ==
  [modules |-> modules, ports |-> ports, concurrency |-> concurrency]

Service == {"discovery", "portscan", "service"}

GetBuiltinProfiles ==
  [quick                   |-> ScanProfile({"discovery", "portscan"}, {80, 443, 22, 8080}, 50),
   standard                |-> ScanProfile({"discovery", "portscan", "service_fingerprint", "http"},
                                           {80, 443, 22, 21, 25, 8080, 8443}, 20),
   exhaustive              |-> ScanProfile(Family, {1, 65535}, 10),
   external_infrastructure |-> ScanProfile(Service \cup {"http", "passive_intel"}, {80, 443, 53, 8080, 8443}, 25),
   internal_network        |-> ScanProfile(Service \cup {"specialized"}, {139, 445, 389, 636, 88}, 30),
   web_application         |-> ScanProfile(Service \cup {"http"}, {80, 443, 8000, 8080, 8443}, 15),
   api_assessment          |-> ScanProfile(Service \cup {"http"}, {80, 443, 3000, 5000, 8080}, 20),
   active_directory        |-> ScanProfile(Service \cup {"specialized"}, {88, 389, 636, 3268}, 10),
   kubernetes              |-> ScanProfile(Service \cup {"http", "specialized"}, {6443, 10250, 10255}, 15),
   cloud_infrastructure    |-> ScanProfile(Service \cup {"http", "passive_intel"}, {80, 443}, 20),
   bug_bounty              |-> ScanProfile(Service \cup {"http", "passive_intel"}, {80, 443}, 30),
   compliance              |-> ScanProfile(Service \cup {"http"}, {80, 443}, 10)]

Builtin == DOMAIN GetBuiltinProfiles

\* The aliases normalizeProfileName resolves; other names stand for themselves.
Alias ==
  [all |-> "exhaustive", web |-> "web_application", network |-> "internal_network",
   api |-> "api_assessment", external |-> "external_infrastructure",
   cloud |-> "cloud_infrastructure", ad |-> "active_directory", k8s |-> "kubernetes"]

NormalizeProfileName(name) == IF name \in DOMAIN Alias THEN Alias[name] ELSE name

\* Module names of profiles and the family each belongs to; others have none.
FamilyOf ==
  [dns |-> "discovery", icmp_sweep |-> "discovery", port_scan |-> "portscan",
   service_fingerprint |-> "service", wappalyzer |-> "http", dir_fuzzing |-> "http",
   web_vuln_engine |-> "http", smb |-> "specialized", ldap |-> "specialized",
   wayback |-> "passive_intel", secret_intel |-> "passive_intel"]

NormalizeModuleNames(names) ==
  (names \cap Family) \cup {FamilyOf[n] : n \in names \cap DOMAIN FamilyOf}

\* A family also joins the plan when the file sets a key of its section.
MergeModulePlan(modules, explicit) ==
  NormalizeModuleNames(modules) \cup
    {f \in Family :
       \/ f = "discovery"     /\ SetsAny(explicit, DiscoveryKeys)
       \/ f = "portscan"      /\ SetsAny(explicit, PortScanKeys \cup {"scan.ports"})
       \/ f = "http"          /\ SetsAny(explicit, HTTPKeys)
       \/ f = "specialized"   /\ SetsAny(explicit, SpecializedKeys)
       \/ f = "passive_intel" /\ SetsAny(explicit, PassiveIntelKeys)}

ModuleEnabled(cfg, family) == cfg.scan.plan = {} \/ family \in cfg.scan.plan

\* What the file sets explicitly wins over the profile.
ProfileScan(scan, profile, name, explicit) ==
  [profile |-> name, custom |-> scan.custom, targets |-> scan.targets, ports |-> scan.ports,
   plan |-> MergeModulePlan(profile.modules, explicit), applied |-> TRUE]

ProfileScheduler(scheduler, profile, explicit) ==
  [concurrency |-> IF "scheduler.concurrency" \in DOMAIN explicit \/ profile.concurrency = 0 THEN scheduler.concurrency
                   ELSE profile.concurrency,
   min |-> scheduler.min]

ProfilePorts(portscan, profile, name, explicit) ==
  LET Keep(key) == key \in DOMAIN explicit IN
  [profile |-> IF Keep("portscan.profile") THEN portscan.profile ELSE name,
   tcp     |-> IF Keep("portscan.enable_tcp") THEN portscan.tcp ELSE TRUE,
   ports   |-> IF Keep("portscan.tcp_ports") \/ Keep("scan.ports") THEN portscan.ports
               ELSE IF name = "exhaustive" THEN {} ELSE profile.ports,
   udp |-> portscan.udp, raw |-> portscan.raw, decoys |-> portscan.decoys]

\* A configuration with other scan, scheduler and port scan sections.
WithSections(cfg, scan, scheduler, portscan) ==
  [valid |-> cfg.valid, scope |-> cfg.scope, active |-> cfg.active, scheduler |-> scheduler,
   discovery |-> cfg.discovery, portscan |-> portscan, http |-> cfg.http, specialized |-> cfg.specialized,
   passive |-> cfg.passive, scan |-> scan, requireAuth |-> cfg.requireAuth, otherValid |-> cfg.otherValid]

ApplyProfile(cfg, profile, name, explicit) ==
  WithSections(cfg, ProfileScan(cfg.scan, profile, name, explicit),
               ProfileScheduler(cfg.scheduler, profile, explicit),
               ProfilePorts(cfg.portscan, profile, name, explicit))

\* A profile requested from the dashboard replaces ports and raw techniques.
ApplyRequestedProfile(cfg, name) ==
  LET key     == NormalizeProfileName(name)
      applied == ApplyProfile(cfg, GetBuiltinProfiles[key], key, <<>>) IN
  IF key \notin Builtin THEN NoConfig
  ELSE WithSections(applied, [applied.scan EXCEPT !.ports = {}], applied.scheduler,
                    [profile |-> applied.portscan.profile, tcp |-> applied.portscan.tcp,
                     ports |-> applied.portscan.ports, udp |-> FALSE, raw |-> FALSE, decoys |-> {}])

ApplyConfiguredProfile(cfg, name, explicit) ==
  LET key == NormalizeProfileName(name) IN
  IF key \notin Builtin THEN NoConfig
  ELSE ApplyProfile(cfg, GetBuiltinProfiles[key], key, explicit)

\* For configurations built in code; loaded ones are marked as applied.
ApplyEngineProfile(cfg) ==
  IF cfg.scan.applied \/ cfg.scan.profile = "empty" THEN cfg
  ELSE ApplyConfiguredProfile(cfg, cfg.scan.profile, <<>>)

\* The template file a custom profile names: a profile, or unreadable.
LoadCustomProfileTemplate(template) ==
  CASE template = "narrow" -> ScanProfile({"dns"}, {53}, 2)
    [] template = "typo"   -> ScanProfile({"discvery"}, {}, 0)
    [] OTHER               -> NoConfig

----------------------------------------------------------------------------
(***************************************************************************)
(* Validate and Load.                                                      *)
(***************************************************************************)

ValidateActiveTesting(active) ==
  IF active.enabled THEN active.vouched /\ active.techniques # {}
                    ELSE active.techniques = {}

PortNumber == 1..65535

Validate(cfg) ==
  /\ cfg.scope.authorization # "empty"
  /\ ValidateActiveTesting(cfg.active)
  /\ cfg.scheduler.concurrency \in 1..256
  /\ cfg.scheduler.min \in 1..cfg.scheduler.concurrency
  /\ cfg.scan.ports \cup cfg.portscan.ports \subseteq PortNumber
  /\ cfg.portscan.decoys = {}
  /\ cfg.otherValid

\* Load also refuses a first target that is a placeholder; targets are a set here and
\* none of them is one.
Placeholder == {"REPLACE_WITH_AUTHORIZATION"}

\* The configuration of a file, or NoConfig when Load returns an error.
Load(file) ==
  LET base    == Assigned(file)
      custom  == LoadCustomProfileTemplate(base.scan.custom)
      applied == CASE base.scan.custom # "empty" ->
                        IF custom = NoConfig THEN NoConfig ELSE ApplyProfile(base, custom, "custom", file)
                   [] base.scan.custom = "empty" /\ base.scan.profile # "empty" ->
                        ApplyConfiguredProfile(base, base.scan.profile, file)
                   [] OTHER -> base
  IN IF /\ applied.valid
        /\ applied.scope.allowed # {} /\ applied.scan.targets # {}
        /\ applied.scope.authorization \notin Placeholder
        /\ Validate(applied)
     THEN applied ELSE NoConfig

----------------------------------------------------------------------------
(***************************************************************************)
(* Engagements: the configuration the wizard builds from an input, and the *)
(* file it renders.  Raw targets and references that validation refuses    *)
(* are the ones outside Target and ValidReference.                         *)
(***************************************************************************)

ValidReference == {"AUTH-1"}

BuildEngagementConfig(input) ==
  IF input.target \notin Target \/ input.authorization \notin ValidReference THEN NoConfig
  ELSE LET scoped == [Default EXCEPT !.scope = [allowed |-> {input.target}, authorization |-> input.authorization]]
           locked == [scoped EXCEPT !.scan = [Default.scan EXCEPT !.targets = {input.target}]]
           cfg == ApplyRequestedProfile(locked, IF input.profile = "empty" THEN "standard" ELSE input.profile)
       IN IF cfg.valid /\ Validate(cfg) THEN cfg ELSE NoConfig

\* Mutant: the document sets the scope but no targets.
RenderScopeOnly(cfg) ==
  [key \in {"scope.allowed_targets", "scope.authorization", "scan.profile"} |->
     CASE key = "scope.allowed_targets" -> cfg.scope.allowed
       [] key = "scope.authorization" -> cfg.scope.authorization
       [] OTHER -> cfg.scan.profile]

\* The keys of the YAML document; it sets sections the profile does not use.
RenderEngagementConfig(cfg) ==
  [key \in {"scope.allowed_targets", "scope.authorization", "scheduler.concurrency", "scheduler.min_concurrency",
            "discovery.enable_dns", "portscan.profile", "portscan.enable_tcp", "portscan.enable_udp",
            "portscan.enable_raw_scanning", "http.enable_crawler", "scan.profile", "scan.targets",
            "active_testing.enabled", "api.require_auth"} |->
     CASE key = "scope.allowed_targets" -> cfg.scope.allowed
       [] key = "scope.authorization" -> cfg.scope.authorization
       [] key = "scheduler.concurrency" -> cfg.scheduler.concurrency
       [] key = "scheduler.min_concurrency" -> cfg.scheduler.min
       [] key \in {"portscan.profile", "scan.profile"} -> cfg.scan.profile
       [] key = "scan.targets" -> cfg.scan.targets
       [] key \in {"discovery.enable_dns", "portscan.enable_tcp", "http.enable_crawler"} -> TRUE
       [] OTHER -> FALSE]

\* What the wizard shows before it writes the file.
PreviewEngagementPlan(cfg) ==
  [scope |-> cfg.scope.allowed, modules |-> cfg.scan.plan, concurrency |-> cfg.scheduler.concurrency]

----------------------------------------------------------------------------
(***************************************************************************)
(* The offline plan of a configuration (doctor, validate-config).          *)
(***************************************************************************)

ResolveEffectivePlan(cfg) ==
  [targets    |-> cfg.scan.targets,
   modules    |-> IF cfg.scan.plan = {} THEN Family ELSE cfg.scan.plan,
   privileged |-> cfg.portscan.raw,
   active     |-> cfg.active.enabled]

============================================================================
