----------------------------- MODULE ApiServer -----------------------------
(***************************************************************************)
(* The API server and the configuration it runs with: the engagement       *)
(* wizard and an operator write the configuration file, the server loads   *)
(* it, concurrent requests pass authentication, authorization and audit,   *)
(* dispatch scans into goroutines of their own, reload tokens, log in, and *)
(* follow the event stream.                                                *)
(*                                                                         *)
(* A request takes up to four steps: authentication, the handler, for      *)
(* logins the second lock, and the audit entry.  A broadcast holds the     *)
(* stream's read lock from its first to its last send and is one step (two *)
(* broadcasts of different scans may reach two subscribers in different    *)
(* orders, which no property compares); the close of a channel is outside  *)
(* the lock and a step of its own.                                         *)
(***************************************************************************)
EXTENDS ScanConfig, Identity

CONSTANTS
  Slot,          \* concurrent connections
  Token, NoToken,\* API tokens, and none
  HandFile,      \* files an operator may write by hand
  Edit,          \* edits an operator may make: records of a key and a value
  Input,         \* inputs of the engagement wizard
  Sent,          \* endpoints clients call
  Asked,         \* scans clients ask for: records of a target and a profile
  ScanId,        \* scan identifiers, chosen by clients or the current second
  BufferCap,     \* capacity of a subscriber's channel
  MaxEdits, MaxRequests, MaxRuns   \* bounds: edits, requests, scans

ASSUME ApiAssumption ==
  /\ NoToken \notin Token
  /\ \A i \in Input : DOMAIN i = {"target", "profile", "authorization"}
  /\ \A a \in Asked : a.target \in Target
  /\ {BufferCap, MaxEdits, MaxRequests, MaxRuns} \subseteq Nat

VARIABLES
  file,      \* the configuration file, or NoFile
  loaded,    \* history: the file as the server loaded it, NoFile before
  input,     \* what the wizard rendered the unedited file from, or NoInput
  edits,     \* edits so far
  cfg,       \* the server's configuration, NoConfig while it is down
  tokens,    \* apiTokens: token -> role
  req,       \* per connection: the request in progress
  served,    \* requests so far
  effects,   \* what requests have changed: kind and role
  audit,     \* api_audit entries
  runs,      \* scans started, in order: identifier, source, configuration, state,
             \* and (history) the file the configuration was loaded from
  chan       \* per connection: the subscriber's channel

serverVars == <<file, loaded, input, edits, cfg>>
apiVars == <<tokens, req, served, effects, audit>>
vars == <<serverVars, apiVars, runs, chan, identityVars>>

NoFile == <<>>
NoInput == [target |-> Local, profile |-> "none", authorization |-> "empty"]

Method == {"GET", "POST", "DELETE"}

\* Endpoints that change state, and the methods on which they do: control stands
\* for pause and resume, write for saved queries, reviews and engagements, sso for
\* the two single sign-on endpoints, agent for the four endpoints of a distributed
\* agent.
ChangesOn ==
  [run |-> {"POST"}, control |-> Method, reload |-> {"POST"}, plan |-> {"POST"},
   delete |-> {"DELETE"}, write |-> {"POST"}, organization |-> {"POST"}, user |-> {"POST"},
   login |-> {"POST"}, logout |-> {"DELETE"}, sso |-> {"POST"}, agent |-> {"POST"}]

Kind == DOMAIN ChangesOn

ASSUME SentAssumption == Sent \subseteq Kind

NoUser == Carried(0, 0, "none")

Request(st, kind, method, role) ==
  [st |-> st, kind |-> kind, method |-> method, role |-> role, status |-> "none", user |-> NoUser]

Idle == Request("idle", "run", "GET", "none")

Channel(open, closed, buf, got) == [open |-> open, closed |-> closed, buf |-> buf, got |-> got]

NoChannel == Channel(FALSE, FALSE, <<>>, <<>>)

Goto(c, st) == [req EXCEPT ![c].st = st]

----------------------------------------------------------------------------
(***************************************************************************)
(* The configuration file.                                                 *)
(***************************************************************************)

\* It never overwrites (O_EXCL).
WriteEngagementConfig(doc) == file = NoFile /\ file' = doc

RunEngagementWizard(i) ==
  /\ cfg = NoConfig
  /\ BuildEngagementConfig(i) # NoConfig
  /\ WriteEngagementConfig(RenderEngagementConfig(BuildEngagementConfig(i)))
  /\ input' = i
  /\ UNCHANGED <<loaded, edits, cfg, apiVars, runs, chan, identityVars>>

WriteFile(f) ==
  /\ file = NoFile /\ cfg = NoConfig
  /\ file' = f /\ input' = NoInput
  /\ UNCHANGED <<loaded, edits, cfg, apiVars, runs, chan, identityVars>>

\* At any time, also under a running server or scan.
EditFile(e) ==
  /\ file # NoFile /\ edits < MaxEdits
  /\ file' = [k \in DOMAIN file \cup {e.key} |-> IF k = e.key THEN e.value ELSE file[k]]
  /\ input' = NoInput /\ edits' = edits + 1
  /\ UNCHANGED <<loaded, cfg, apiVars, runs, chan, identityVars>>

\* Mutant: a map without tokens is accepted too.
TokenMapAny == [Token -> Role \cup {"none"}]

\* parseAPITokens of the environment: a map that is not empty.
TokenMap == {m \in [Token -> Role \cup {"none"}] : \E t \in Token : m[t] # "none"}

\* The server command loads the file; with require_auth it needs tokens.
StartServer ==
  /\ cfg = NoConfig /\ file # NoFile
  /\ Load(file) # NoConfig
  /\ cfg' = Load(file) /\ loaded' = file
  /\ tokens' \in IF Load(file).requireAuth THEN TokenMap ELSE {[t \in Token |-> "none"]}
  /\ UNCHANGED <<file, input, edits, req, served, effects, audit, runs, chan, identityVars>>

----------------------------------------------------------------------------
(***************************************************************************)
(* The event stream.                                                       *)
(***************************************************************************)

\* run is history: the dispatch an event belongs to, 0 for pause and resume.
Event(n, id, type) == [run |-> n, scan |-> id, type |-> type]

\* A full channel loses the event.
BroadcastEvent(ev) ==
  [c \in Slot |->
     IF chan[c].open /\ Len(chan[c].buf) < BufferCap
     THEN Channel(TRUE, chan[c].closed, Append(chan[c].buf, ev), chan[c].got) ELSE chan[c]]

Subscribe(c) ==
  /\ chan' = [chan EXCEPT ![c] = Channel(TRUE, FALSE, <<>>, <<>>)]
  /\ UNCHANGED <<orgs, users, sessions, runs, tokens>>

\* The client's writer takes the next event.
ReceiveEvent(c) ==
  /\ req[c].st = "stream" /\ chan[c].buf # <<>>
  /\ chan' = [chan EXCEPT ![c] = Channel(chan[c].open, chan[c].closed, Tail(chan[c].buf), Append(chan[c].got, Head(chan[c].buf)))]
  /\ UNCHANGED <<serverVars, apiVars, runs, identityVars>>

\* Mutant: the channel is closed before it is removed.
UnsubscribeLate(c) ==
  /\ req[c].st = "stream"
  /\ chan' = [chan EXCEPT ![c].closed = TRUE]
  /\ req' = Goto(c, "leaving")
  /\ UNCHANGED <<serverVars, tokens, served, effects, audit, runs, identityVars>>

\* The client has gone or a write failed: the deferred function first removes the
\* channel under the lock ...
Unsubscribe(c) ==
  /\ req[c].st = "stream"
  /\ chan' = [chan EXCEPT ![c] = Channel(FALSE, chan[c].closed, chan[c].buf, chan[c].got)]
  /\ req' = Goto(c, "leaving")
  /\ UNCHANGED <<serverVars, tokens, served, effects, audit, runs, identityVars>>

\* ... and then closes it.
CloseChannel(c) ==
  /\ req[c].st = "leaving"
  /\ chan' = [chan EXCEPT ![c] = Channel(FALSE, TRUE, chan[c].buf, chan[c].got)]
  /\ req' = [req EXCEPT ![c] = Idle]
  /\ UNCHANGED <<serverVars, tokens, served, effects, audit, runs, identityVars>>

----------------------------------------------------------------------------
(***************************************************************************)
(* Scans.  A run of the server lives in a goroutine of its own; a run of   *)
(* the command line uses the configuration it loads itself.                *)
(***************************************************************************)

Run(id, c, f, from, st) == [id |-> id, from |-> from, cfg |-> c, file |-> f, st |-> st]

\* Mutant: the engine relies on its caller to have checked the scope.
EngineTrusts(c) == ApplyEngineProfile(c).valid /\ Validate(ApplyEngineProfile(c))

\* runner.Run: the engine refuses what Validate or the scope guard refuse.
EngineAccepts(c) ==
  /\ ApplyEngineProfile(c).valid /\ Validate(ApplyEngineProfile(c))
  /\ \A t \in c.scan.targets : Allowed(c.scope.allowed, t)

RunCommand(id) ==
  /\ Len(runs) < MaxRuns /\ file # NoFile
  /\ Load(file) # NoConfig
  /\ runs' = Append(runs, Run(id, Load(file), file, "command",
                             IF EngineAccepts(Load(file)) THEN "running" ELSE "ended"))
  /\ UNCHANGED <<serverVars, apiVars, chan, identityVars>>

RunGoroutine(n) ==
  /\ runs[n].st = "launched"
  /\ chan' = BroadcastEvent(Event(n, runs[n].id, "engine.started"))
  /\ runs' = [runs EXCEPT ![n].st = "started"]
  /\ UNCHANGED <<serverVars, apiVars, identityVars>>

StartEngine(n) ==
  /\ runs[n].st = "started"
  /\ IF EngineAccepts(runs[n].cfg)
     THEN runs' = [runs EXCEPT ![n].st = "running"] /\ UNCHANGED chan
     ELSE runs' = [runs EXCEPT ![n].st = "ended"] /\ chan' = BroadcastEvent(Event(n, runs[n].id, "scan.failed"))
  /\ UNCHANGED <<serverVars, apiVars, identityVars>>

FinishRun(n) ==
  /\ runs[n].st = "running"
  /\ runs' = [runs EXCEPT ![n].st = "ended"]
  /\ IF runs[n].from = "command" THEN UNCHANGED chan
     ELSE \E type \in {"scan.completed", "scan.failed"} : chan' = BroadcastEvent(Event(n, runs[n].id, type))
  /\ UNCHANGED <<serverVars, apiVars, identityVars>>

----------------------------------------------------------------------------
(***************************************************************************)
(* Requests.                                                               *)
(***************************************************************************)

AuthEnabled == \E t \in Token : tokens[t] # "none"

PrincipalForToken(token) == IF token = NoToken THEN "none" ELSE tokens[token]

\* The agent endpoints sign their requests instead (health and auth/token, exempt
\* as well, change nothing).
Exempt(kind) == kind = "agent"

Principal(kind, token) == IF Exempt(kind) THEN "none" ELSE PrincipalForToken(token)

\* authMiddleware: with tokens configured, a request without one of them ends here.
Authenticate(c, kind, method, token) ==
  /\ cfg # NoConfig /\ req[c].st = "idle" /\ served < MaxRequests
  /\ served' = served + 1
  /\ req' = IF AuthEnabled /\ ~Exempt(kind) /\ PrincipalForToken(token) = "none" THEN req
            ELSE [req EXCEPT ![c] = Request("authenticated", kind, method, Principal(kind, token))]
  /\ chan' = [chan EXCEPT ![c] = NoChannel]
  /\ UNCHANGED <<serverVars, tokens, effects, audit, runs, identityVars>>

\* A subscription is a GET request of its own kind.
OpenStream(c, token) ==
  /\ cfg # NoConfig /\ req[c].st = "idle" /\ served < MaxRequests
  /\ AuthEnabled => PrincipalForToken(token) # "none"
  /\ served' = served + 1
  /\ req' = [req EXCEPT ![c] = Request("stream", "run", "GET", "none")]
  /\ Subscribe(c)
  /\ UNCHANGED <<serverVars, effects, audit>>

\* rbacMiddleware.
Authorized(r) ==
  /\ r.role = "viewer" => r.method \notin {"POST", "DELETE"}
  /\ r.role = "analyst" => r.method # "DELETE"

\* The handlers of reload and plan ask for an admin themselves.
AdminOnly(kind) == kind = "reload" \/ (kind = "plan" /\ cfg.requireAuth)

MayServe(c) ==
  /\ Authorized(req[c])
  /\ req[c].method \in ChangesOn[req[c].kind]
  /\ AdminOnly(req[c].kind) => req[c].role = "admin"

\* The end of a handler: its status, and the entry auditLoggerMiddleware writes.
Respond(c, status, changed) ==
  /\ req' = [Goto(c, "respond") EXCEPT ![c].status = status]
  /\ effects' = IF changed THEN effects \cup {[kind |-> req[c].kind, role |-> req[c].role]} ELSE effects
  /\ UNCHANGED <<serverVars, served, audit>>

\* Rejected by the middleware, the method, the body, an agent's signature, timestamp
\* or nonce (see AgentAuth), or an error of the store.
Reject(c) ==
  /\ req[c].st = "authenticated"
  /\ Respond(c, "rejected", FALSE)
  /\ UNCHANGED <<tokens, runs, chan, identityVars>>

\* handleReloadAPITokens keeps the old map on an error or an empty result.
ReloadAPITokens(c) ==
  /\ req[c].st = "authenticated" /\ req[c].kind = "reload" /\ MayServe(c) /\ cfg.requireAuth
  /\ tokens' \in TokenMap
  /\ Respond(c, "ok", TRUE)
  /\ UNCHANGED <<runs, chan, identityVars>>

\* The configuration a requested scan runs with, or NoConfig.
RequestedConfig(ask) ==
  IF ~Allowed(cfg.scope.allowed, ask.target) THEN NoConfig
  ELSE LET locked == [cfg EXCEPT !.scan = [cfg.scan EXCEPT !.targets = {ask.target}]] IN
       IF ask.profile = "empty" THEN locked ELSE ApplyRequestedProfile(locked, ask.profile)

\* handleRunScan announces the scan before it starts the goroutine.  Its scan_id is
\* the client's, or the current second: nothing makes it a new one.
DispatchScan(c, ask, id) ==
  /\ req[c].st = "authenticated" /\ req[c].kind = "run" /\ MayServe(c)
  /\ IF RequestedConfig(ask) = NoConfig
     THEN Respond(c, "rejected", FALSE) /\ UNCHANGED <<runs, chan>>
     ELSE /\ Len(runs) < MaxRuns
          /\ runs' = Append(runs, Run(id, RequestedConfig(ask), loaded, "server", "launched"))
          /\ chan' = BroadcastEvent(Event(Len(runs) + 1, id, "scan.dispatched"))
          /\ Respond(c, "ok", TRUE)
  /\ UNCHANGED <<tokens, identityVars>>

\* handlePauseScan and handleResumeScan take any method and any scan_id.
ControlScan(c, id) ==
  /\ req[c].st = "authenticated" /\ req[c].kind = "control" /\ MayServe(c)
  /\ chan' = BroadcastEvent(Event(0, id, "scan.control"))
  /\ Respond(c, "ok", TRUE)
  /\ UNCHANGED <<tokens, runs, identityVars>>

\* The other handlers change tables this model does not follow, or nothing but
\* the answer: the plan of an engagement is sent back.
Serves(c, kind) ==
  /\ req[c].st = "authenticated" /\ req[c].kind = kind /\ MayServe(c)
  /\ Respond(c, "ok", TRUE)
  /\ UNCHANGED <<tokens, runs, chan, identityVars>>

HandleEngagementPlan(c) == Serves(c, "plan")

\* handleAssets and handleFindings.
HandleDelete(c) == Serves(c, "delete")

\* Saved queries, reviews of findings, engagements.
HandleWrite(c) == Serves(c, "write")

\* Heartbeat, lease, evidence and completion of an agent whose signature holds
\* (their tables are followed in DistributedJobs).
HandleDistributedAgent(c) == Serves(c, "agent")

HandleOrganizations(c) ==
  /\ req[c].st = "authenticated" /\ req[c].kind = "organization" /\ MayServe(c)
  /\ \E name \in OrgName : CreateOrganization(name)
  /\ Respond(c, "ok", TRUE)
  /\ UNCHANGED <<tokens, runs, chan, users, sessions>>

HandleUsers(c) ==
  /\ req[c].st = "authenticated" /\ req[c].kind = "user" /\ MayServe(c)
  /\ \E org \in OrgId, email \in Email, role \in Role : CreateUser(org, email, role)
  /\ Respond(c, "ok", TRUE)
  /\ UNCHANGED <<tokens, runs, chan, orgs, sessions>>

\* The first lock of a login: handleSessions reads the user, the sign-on handlers
\* find or provision one.
FindUser(c) ==
  /\ req[c].st = "authenticated" /\ req[c].kind \in {"login", "sso"} /\ MayServe(c)
  /\ \E user \in [id: 1..(Len(users) + 1), org: OrgId, role: Role] :
       /\ IF req[c].kind = "login"
          THEN (\E u \in DOMAIN users : user = Carried(u, users[u].org, users[u].role)) /\ UNCHANGED <<orgs, users>>
          ELSE \E org \in OrgName \X {0}, email \in Email, claim \in Role \cup {"guest"} :
                 \/ SignOn(email, org, OIDCRole({claim}), "oidc", user)
                 \/ SignOn(email, org, SAMLRole(claim), "saml", user)
       /\ req' = [Goto(c, "login") EXCEPT ![c].user = user]
  /\ UNCHANGED <<serverVars, tokens, served, effects, audit, runs, chan, sessions>>

\* The second lock.
Login(c) ==
  /\ req[c].st = "login"
  /\ CreateSession(req[c].user)
  /\ Respond(c, "ok", TRUE)
  /\ UNCHANGED <<tokens, runs, chan, orgs, users>>

Logout(c) ==
  /\ req[c].st = "authenticated" /\ req[c].kind = "logout" /\ MayServe(c)
  /\ \E s \in DOMAIN sessions : RevokeSession(s)
  /\ Respond(c, "ok", TRUE)
  /\ UNCHANGED <<tokens, runs, chan, orgs, users>>

\* auditLoggerMiddleware, after the handler; a GET writes no entry, and a failed
\* insert (the client's context is gone, the database errs) is only logged.
RecordAPIAudit(c) ==
  /\ req[c].st = "respond"
  /\ \/ req[c].method # "GET"
        /\ audit' = audit \cup {[kind |-> req[c].kind, role |-> req[c].role, status |-> req[c].status]}
     \/ UNCHANGED audit
  /\ req' = [req EXCEPT ![c] = Idle]
  /\ UNCHANGED <<serverVars, tokens, served, effects, runs, chan, identityVars>>

----------------------------------------------------------------------------

Init ==
  /\ file = NoFile /\ loaded = NoFile /\ input = NoInput /\ edits = 0 /\ cfg = NoConfig
  /\ tokens = [t \in Token |-> "none"]
  /\ req = [c \in Slot |-> Idle] /\ served = 0 /\ effects = {} /\ audit = {}
  /\ runs = <<>> /\ chan = [c \in Slot |-> NoChannel]
  /\ IdentityInit

Configure ==
  \/ \E i \in Input : RunEngagementWizard(i)
  \/ \E f \in HandFile : WriteFile(f)
  \/ \E e \in Edit : EditFile(e)
  \/ StartServer
  \/ \E id \in ScanId : RunCommand(id)

Serve(c) ==
  \/ \E kind \in Sent, method \in Method, token \in Token \cup {NoToken} : Authenticate(c, kind, method, token)
  \/ \E token \in Token \cup {NoToken} : OpenStream(c, token)
  \/ Reject(c) \/ ReloadAPITokens(c) \/ \E id \in ScanId : ControlScan(c, id)
  \/ HandleEngagementPlan(c) \/ HandleDelete(c) \/ HandleWrite(c) \/ HandleDistributedAgent(c)
  \/ \E ask \in Asked, id \in ScanId : DispatchScan(c, ask, id)
  \/ HandleOrganizations(c) \/ HandleUsers(c) \/ FindUser(c) \/ Login(c) \/ Logout(c)
  \/ RecordAPIAudit(c)

Next ==
  \/ Configure
  \/ \E c \in Slot : Serve(c) \/ ReceiveEvent(c) \/ Unsubscribe(c) \/ CloseChannel(c)
  \/ \E n \in DOMAIN runs : RunGoroutine(n) \/ StartEngine(n) \/ FinishRun(n)

Spec == Init /\ [][Next]_vars

----------------------------------------------------------------------------
(***************************************************************************)
(* Properties.                                                             *)
(***************************************************************************)

RequestRow ==
  [st: {"idle", "authenticated", "login", "respond", "stream", "leaving"}, kind: Kind, method: Method,
   role: Role \cup {"none"}, status: {"none", "ok", "rejected"},
   user: {NoUser} \cup [id: Nat \ {0}, org: OrgId, role: Role]]

\* Every variable has its type.
TypeOK ==
  /\ edits \in 0..MaxEdits /\ served \in 0..MaxRequests /\ Len(runs) <= MaxRuns
  /\ tokens \in [Token -> Role \cup {"none"}]
  /\ req \in [Slot -> RequestRow]
  /\ effects \subseteq [kind: Kind, role: Role \cup {"none"}]
  /\ audit \subseteq [kind: Kind, role: Role \cup {"none"}, status: {"ok", "rejected"}]
  /\ \A c \in Slot : chan[c].open \in BOOLEAN /\ chan[c].closed \in BOOLEAN /\ Len(chan[c].buf) <= BufferCap
  /\ IdentityTypeOK

\* Every engine that works does so within the scope of the file that was loaded for
\* it, with a written authorization, valid bounds and no decoys, and tests actively
\* only if that file enables it, whatever profile a request or the file selected and
\* however the file on disk is edited meanwhile (handleRunScan, ApplyRequestedProfile,
\* Engine.Run).
RunsWithinAuthorization ==
  \A n \in DOMAIN runs : runs[n].st = "running" =>
    LET c == runs[n].cfg
        f == runs[n].file IN
    /\ \A t \in c.scan.targets : Allowed(Setting(f, "scope.allowed_targets", {Local}), t)
    /\ c.scope.authorization = Setting(f, "scope.authorization", "empty") /\ c.scope.authorization # "empty"
    /\ Validate(c)
    /\ c.active.enabled => Setting(f, "active_testing.enabled", FALSE)
    /\ c.portscan.raw => Setting(f, "portscan.enable_raw_scanning", FALSE)

\* A value the file sets explicitly survives the profile it selects, and every
\* family with settings of its own is in the plan (ApplyConfiguredProfile).
ExplicitWins ==
  cfg # NoConfig =>
    /\ "scheduler.concurrency" \in DOMAIN loaded => cfg.scheduler.concurrency = loaded["scheduler.concurrency"]
    /\ "portscan.tcp_ports" \in DOMAIN loaded => cfg.portscan.ports = loaded["portscan.tcp_ports"]
    /\ "portscan.enable_tcp" \in DOMAIN loaded => cfg.portscan.tcp = loaded["portscan.enable_tcp"]
    /\ SetsAny(loaded, HTTPKeys) => ModuleEnabled(cfg, "http")
    /\ SetsAny(loaded, SpecializedKeys) => ModuleEnabled(cfg, "specialized")

\* A file the wizard wrote loads, locked to the one target of its input, with
\* active testing and raw scans off, the concurrency that the preview showed and
\* at least the modules it showed (RenderEngagementConfig, Load).
EngagementLocked ==
  input # NoInput =>
    LET back == Load(file)
        shown  == PreviewEngagementPlan(BuildEngagementConfig(input)) IN
    /\ back # NoConfig
    /\ back.scope.allowed = {input.target} /\ back.scan.targets = {input.target}
    /\ ~back.active.enabled /\ ~ResolveEffectivePlan(back).privileged
    /\ back.scheduler.concurrency = shown.concurrency
    /\ shown.modules \subseteq ResolveEffectivePlan(back).modules

\* Once the configuration requires authentication, no request but that of a signing
\* agent changes anything without a role, however tokens are reloaded; a viewer
\* changes nothing but the pause state (README.md:124 calls it read-only, but pause
\* and resume take a GET), an analyst deletes nothing (authMiddleware, rbacMiddleware,
\* handleReloadAPITokens).
RolesEnforced ==
  cfg # NoConfig /\ cfg.requireAuth =>
    \A e \in effects :
      /\ e.role = "none" => e.kind = "agent"
      /\ e.role = "viewer" => e.kind = "control"
      /\ e.role = "analyst" => e.kind \notin {"delete", "logout", "reload", "plan"}

\* A broadcast never finds a closed channel: it would panic while it holds the
\* server's lock (handleWebSocketEvents, BroadcastEvent).
NoSendOnClosed == \A c \in Slot : ~(chan[c].open /\ chan[c].closed)

Stage(type) == CASE type = "scan.dispatched" -> 1 [] type = "engine.started" -> 2 [] OTHER -> 3

\* No other run of the server has the identifier of this event's scan.
Alone(ev) == \A n, m \in DOMAIN runs :
               runs[n].id = ev.scan /\ runs[m].id = ev.scan
               /\ runs[n].from = "server" /\ runs[m].from = "server" => n = m

\* What a subscriber sees of one scan is in order: dispatched, started, ended,
\* each at most once, although handler and goroutine broadcast concurrently and
\* a full channel loses events, as long as clients dispatch it once (a client may
\* name a scan again, and two unnamed ones of the same second share a name).
StreamInOrder ==
  \A c \in Slot :
    LET seen == chan[c].got \o chan[c].buf IN
    \A i, j \in DOMAIN seen :
      /\ i < j /\ seen[i].scan = seen[j].scan /\ Alone(seen[i])
      /\ seen[i].type # "scan.control" /\ seen[j].type # "scan.control"
      => Stage(seen[i].type) < Stage(seen[j].type)

\* A loaded configuration is what its author wrote, by hand or with the wizard:
\* ExplicitWins and EngagementLocked together.
ConfigFaithful == ExplicitWins /\ EngagementLocked

\* The event stream: channels stay within their buffer (TypeOK), no event meets a
\* closed one, and what arrives of a scan is in order.
StreamSound == TypeOK /\ NoSendOnClosed /\ StreamInOrder

============================================================================
