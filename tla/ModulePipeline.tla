--------------------------- MODULE ModulePipeline ---------------------------
(***************************************************************************)
(* What the registered scan modules (internal/modules, registered by       *)
(* engine.Engine.Run) do with the events the scheduler hands them: which   *)
(* hosts they send traffic to and which events they emit.  Scheduler.tla   *)
(* models how events are queued, checkpointed and retried and leaves open  *)
(* what a module emits; this module models the modules and keeps only the  *)
(* outline of the scheduler: events are deduplicated, a worker looks at    *)
(* the checkpoint of an event's key before it runs the chain of modules    *)
(* subscribed to it, and marks it when the chain has ended.                *)
(*                                                                         *)
(* The network and the operator's import files are a record `world`,       *)
(* chosen at the start from Worlds: relations (sets of pairs) saying what  *)
(* resolves, listens, redirects and links to what.  An event keeps, of its *)
(* Data, the crawl depth and the transport protocol, which change what a   *)
(* handler does.  Lookups at the resolver, at rdap.org and at passive      *)
(* providers are not contacts with a host under test.                      *)
(***************************************************************************)
EXTENDS Integers, FiniteSets, Sequences

CONSTANTS
    Names,           \* DNS names
    IPv4, IPv6,      \* addresses
    Networks,        \* CIDR blocks given as targets or in the scope
    AddressesOf,     \* AddressesOf[n]: the addresses of n, in order
    SubdomainOf,     \* pairs <<s, d>>: the name s ends in "." followed by d
    AllowedTargets,  \* cfg.Scope.AllowedTargets
    TCPPorts, UDPPorts,
    Paths,           \* URL paths, "/" among them
    Enabled,         \* optional features that are switched on
    Sources, IPOnly, DomainOnly, \* passive providers with credentials
    StorageHost,     \* StorageHost[t]: cloud storage hosts named after t
    CIDRMaxHosts, MaxDepth, MaxPagesPerHost, MaxScreenshotsPerScan,
    Concurrency,     \* scheduler workers
    MaxLost,         \* bound: page requests that fail
    Worlds           \* the networks, import files and target lists to scan

Addresses == IPv4 \cup IPv6
Scannable == Names \cup Addresses \cup Networks
Hosts == Names \cup Addresses \cup UNION {StorageHost[t] : t \in Scannable}
Ports == TCPPorts \cup UDPPorts
Pages == [host : Hosts, port : Ports, path : Paths]

ASSUME BoundsAssumption == /\ CIDRMaxHosts \in Nat
                           /\ MaxDepth \in Nat
                           /\ MaxPagesPerHost \in Nat \ {0}
                           /\ MaxScreenshotsPerScan \in Nat \ {0}
                           /\ Concurrency \in Nat \ {0}
                           /\ MaxLost \in Nat
ASSUME KindsAssumption == /\ Names \cap Addresses = {}
                          /\ Networks \cap (Names \cup Addresses) = {}
                          /\ AddressesOf \in [Networks -> Seq(Addresses) \ {<<>>}]
                          /\ SubdomainOf \subseteq Names \X Names
                          /\ "/" \in Paths
\* Certificates and the host header that VHostDiscovery tries hold names.  A
\* configuration without targets is refused by config.Load.
ASSUME WorldsAssumption ==
    \A w \in Worlds :
        /\ w.targets \subseteq Scannable /\ w.targets # {}
        /\ w.redirect \subseteq Hosts \X Hosts
        /\ w.resolves \subseteq Names \X Addresses
        /\ w.sans \subseteq Hosts \X Names /\ w.vhosts \subseteq Hosts \X Names
        /\ w.links \subseteq Pages \X Pages /\ w.robots \subseteq Hosts \X Pages
        /\ w.historical \subseteq Pages
        /\ \A g \in w.historical : g.host \in Names \cup Addresses
        /\ w.passive \subseteq Names
        /\ w.captured \cup w.traits \subseteq Names \cup Addresses

VARIABLES
    world,      \* the network, the files and the configured targets
    accepted,   \* events the deduper has seen
    pending,    \* accepted events no worker has taken
    running,    \* events whose module chain a worker is running
    done,       \* keys with completed checkpoints
    contacted,  \* hosts reached by a dial or a scope-checking client
    strayed,    \* hosts reached by a client that checks no scope
    pages,      \* HTTP.pages
    shots,      \* BrowserScreenshotRenderer.counts of this scan
    reserved,   \* PassiveIntel.seen
    fetched,    \* history: pages the HTTP module has requested
    asked,      \* history: <<source, host, event type>> sent to a provider
    lost        \* page requests that failed

vars == <<world, accepted, pending, running, done, contacted, strayed,
          pages, shots, reserved, fetched, asked, lost>>

-----------------------------------------------------------------------------
(* Scope.                                                                  *)

Image(R, x) == {r[2] : r \in {q \in R : q[1] = x}}

\* sameDomain: the host is the parent or ends in "." followed by it.
sameDomain(parent, h) == h = parent \/ <<h, parent>> \in SubdomainOf

\* The host part of a target: of a CIDR block, everything before the slash.
HostPart(t) == IF t \in Networks THEN AddressesOf[t][1] ELSE t

InNetwork(n, a) == \E i \in DOMAIN AddressesOf[n] : AddressesOf[n][i] = a

\* Guard.Allowed.  A domain and a wildcard entry cover the same names.
Allowed(t) ==
    LET h == HostPart(t)
    IN  \/ \E n \in AllowedTargets \cap Networks : InNetwork(n, h)
        \/ h \in AllowedTargets
        \/ \E d \in AllowedTargets \cap Names : sameDomain(d, h)

-----------------------------------------------------------------------------
(* Events.                                                                 *)

Ev(type, h, port, proto, path, depth) ==
    [type |-> type, host |-> h, port |-> port, proto |-> proto,
     path |-> path, depth |-> depth]

Target(h)      == Ev("target.discovered", h, 0, "", "", 0)
Host(h)        == Ev("host.discovered", h, 0, "", "", 0)
Domain(h)      == Ev("domain.discovered", h, 0, "", "", 0)
Traits(h)      == Ev("passive.tcp_traits", h, 0, "", "", 0)
Open(h, p, pr) == Ev("port.open", h, p, pr, "", 0)
Service(e)     == Ev("service.fingerprinted", e.host, e.port, "", "", 0)
URL(g, depth)  == Ev("http.url", g.host, g.port, "tcp", g.path, depth)

PageOf(e) == [host |-> e.host, port |-> e.port, path |-> e.path]

\* The checkpoint key: type and target, neither protocol nor depth.
KeyOf(e) == <<e.type, e.host, e.port, e.path>>

\* What one module does with one event.
Nothing == [contacts |-> {}, strays |-> {}, events |-> {}]
Contact(S) == [Nothing EXCEPT !.contacts = S]
Emit(E) == [Nothing EXCEPT !.events = E]

On(feature) == feature \in Enabled

-----------------------------------------------------------------------------
(* HTTP clients.  The first request goes to h; redirects take it further.  *)

\* Mutant: redirects are limited in number but not checked.
UncheckedHop(S) == S \cup UNION {Image(world.redirect, h) : h \in S}

\* scopedHTTPClient: a redirect is followed to a host in scope only, and
\* with at most five requests in all.
ScopedHop(S) ==
    S \cup UNION {{t \in Image(world.redirect, h) : Allowed(t)} : h \in S}
scopedHTTPClient(h) == ScopedHop(ScopedHop(ScopedHop(ScopedHop({h}))))

\* An http.Client without CheckRedirect: up to ten requests, to any host.
FreeHop(S) == S \cup UNION {Image(world.redirect, h) : h \in S}
ThreeHops(S) == FreeHop(FreeHop(FreeHop(S)))
DefaultClient(h) == ThreeHops(ThreeHops(ThreeHops({h})))

-----------------------------------------------------------------------------
(* Modules on target.discovered.                                           *)

\* skipCIDREndpoint: the network and the broadcast address of an IPv4 block
\* of four addresses or more.
skipCIDREndpoint(n, i) ==
    /\ AddressesOf[n][1] \in IPv4
    /\ Len(AddressesOf[n]) >= 4
    /\ i \in {1, Len(AddressesOf[n])}

\* expandCIDR: the first CIDRMaxHosts usable addresses that are in scope.
expandCIDR(n) ==
    LET usable == {i \in DOMAIN AddressesOf[n] :
                     ~skipCIDREndpoint(n, i) /\ Allowed(AddressesOf[n][i])}
    IN  {AddressesOf[n][i] : i \in
          {j \in usable : Cardinality({k \in usable : k < j}) < CIDRMaxHosts}}

importPassiveHosts(parent) ==
    {Target(n) : n \in {m \in world.passive : sameDomain(parent, m) /\ Allowed(m)}}

importTCPTraits == {Traits(a) : a \in {b \in world.traits : Allowed(b)}}

importCaptureObservations(parent) ==
    importTCPTraits
    \cup {Host(a) : a \in {b \in world.captured \cap Addresses : Allowed(b)}}
    \cup {Target(n) : n \in {m \in world.captured \cap Names :
                               sameDomain(parent, m) /\ Allowed(m)}}

captureLiveTraffic ==
    IF On("live_capture")
    THEN {Host(a) : a \in {b \in world.wire \cap IPv4 : Allowed(b)}} ELSE {}

\* The addresses Discovery probes for liveness (probeLiveHost).
probeLiveHost(S) == IF On("live_probes") THEN S ELSE {}

\* Mutant: the answers of the resolver are taken as they come.
LookupUnchecked(n) == {Host(a) : a \in Image(world.resolves, n)}

\* LookupHost on a name, each answer checked against the scope.
LookupHost(n) ==
    {Host(a) : a \in {b \in Image(world.resolves, n) : Allowed(b)}}

\* Discovery.Handle
Discovery(e) ==
    IF ~Allowed(e.host) THEN Nothing ELSE
    LET t == e.host
        seen == importCaptureObservations(t) \cup captureLiveTraffic
    IN  IF t \in Networks THEN
            [Nothing EXCEPT
               !.contacts = probeLiveHost(expandCIDR(t)),
               !.events = seen \cup {Host(a) : a \in expandCIDR(t)}]
        ELSE IF t \in Addresses THEN
            [Nothing EXCEPT
               !.contacts = probeLiveHost({t}),
               !.events = seen \cup {Host(t)}]
        ELSE Emit(seen \cup {Host(t)} \cup importPassiveHosts(t)
                  \cup (IF On("dns") THEN LookupHost(t) ELSE {}))

\* expandIPv6Net(ipNet, 16)
expandIPv6Net(n) ==
    {AddressesOf[n][i] : i \in {j \in DOMAIN AddressesOf[n] : j <= 16}}

\* IPv6Discovery.Handle: the addresses of a block are not checked again.
IPv6Discovery(e) ==
    IF ~Allowed(e.host) THEN Nothing
    ELSE IF e.host \in Networks /\ HostPart(e.host) \in IPv6 THEN
        Emit({Host(a) : a \in expandIPv6Net(e.host)})
    ELSE IF e.host \in Names THEN
        Emit({Host(a) : a \in {b \in Image(world.resolves, e.host) \cap IPv6 :
                                 Allowed(b)}})
    ELSE Nothing

\* ARPDiscovery.Handle
ARPDiscovery(e) ==
    IF Allowed(e.host) /\ e.host \in IPv4 \cap world.neighbours
    THEN Emit({Host(e.host)}) ELSE Nothing

\* HistoricalURLImporter.Handle: any target without a colon.
HistoricalURLImporter(e) ==
    IF On("historical") /\ HostPart(e.host) \notin IPv6
    THEN Emit({URL(g, 0) : g \in {f \in world.historical :
                              sameDomain(e.host, f.host) /\ Allowed(f.host)}})
    ELSE Nothing

-----------------------------------------------------------------------------
(* Modules on host.discovered.                                             *)

\* webEvents
webEvents(h, p) ==
    IF p \in {80, 8000, 8080, 8081, 8888, 443, 8443}
    THEN {URL([host |-> h, port |-> p, path |-> "/"], 0)} ELSE {}

\* A TCP port that answers is an event, and a URL if it is a web port.
TCPEvents(h, S) == UNION {{Open(h, p, "tcp")} \cup webEvents(h, p) : p \in S}

scanTCP(h) == TCPEvents(h, Image(world.tcp, h) \cap TCPPorts)

scanUDP(h) == {Open(h, p, "udp") : p \in Image(world.udp, h) \cap UDPPorts}

\* PortScan.Handle
PortScan(e) ==
    IF ~Allowed(e.host) THEN Nothing
    ELSE [Nothing EXCEPT
            !.contacts = IF On("tcp") \/ On("udp") THEN {e.host} ELSE {},
            !.events = (IF On("tcp") THEN scanTCP(e.host) ELSE {})
                       \cup (IF On("udp") THEN scanUDP(e.host) ELSE {})]

\* RawTCPScanner.Handle: "open|filtered" and "unfiltered" count as open.
RawTCPScanner(e) ==
    IF ~On("raw") \/ ~Allowed(e.host) THEN Nothing
    ELSE [Nothing EXCEPT
            !.contacts = {e.host},
            !.events = TCPEvents(e.host, TCPPorts \cap
                         (Image(world.tcp, e.host) \cup Image(world.filtered, e.host)))]

-----------------------------------------------------------------------------
(* Modules on port.open.  Their filters look at the end of the target, so  *)
(* at the port number, never at the protocol.                              *)

\* ServiceFingerprint.Handle: nothing is emitted for a service without a
\* name; its HTTP probe follows no redirect.
ServiceFingerprint(e) ==
    IF ~Allowed(e.host) THEN Nothing
    ELSE [Nothing EXCEPT
            !.contacts = {e.host},
            !.events = IF Image(world.named, e.port) # {} THEN {Service(e)} ELSE {}]

\* KerberosADFingerprint.Handle; nothing consumes its service.identified.
KerberosADFingerprint(e) ==
    IF e.port = 88 /\ Allowed(e.host) THEN Contact({e.host}) ELSE Nothing

\* TLSFingerprinter.Handle
TLSFingerprinter(e) ==
    IF e.port \notin {443, 8443} \/ ~Allowed(e.host) THEN Nothing
    ELSE [Nothing EXCEPT
            !.contacts = {e.host},
            !.events = {Domain(n) : n \in {m \in Image(world.sans, e.host) : Allowed(m)}}]

\* VHostDiscovery.Handle.  It cuts the target at its first colon, so that no
\* IPv6 address passes; its client has no CheckRedirect.  world.vhosts are
\* the candidate names that the host answers differently to.
VHostDiscovery(e) ==
    IF e.port \notin {80, 443, 8080} \/ e.host \in IPv6 \/ ~Allowed(e.host)
    THEN Nothing
    ELSE [contacts |-> {e.host},
          strays |-> DefaultClient(e.host) \ {e.host},
          events |-> {Domain(n) : n \in {m \in Image(world.vhosts, e.host) : Allowed(m)}}]

\* A module that sends requests to the web server of an open port with a
\* scope-checking client and emits nothing.
WebProbe(e, ports) ==
    IF e.port \in ports /\ Allowed(e.host)
    THEN Contact(scopedHTTPClient(e.host)) ELSE Nothing

HTTP2Fingerprinter(e)       == WebProbe(e, {443, 8443})
FaviconFingerprinter(e)     == WebProbe(e, {80, 443, 8080})
CMSEnumerator(e)            == WebProbe(e, {80, 443, 8080})
FrameworkEnumerator(e)      == WebProbe(e, {80, 443, 8080})
EnterpriseAppEnumerator(e)  == WebProbe(e, {80, 443, 8080})
SensitiveExposureScanner(e) == WebProbe(e, {80, 443, 8080})
APIProtocolScanner(e)       == WebProbe(e, {80, 443, 8080, 50051})
AuthProtocolScanner(e)      == WebProbe(e, {80, 443, 8080, 8443})
SessionJWTScanner(e)        == WebProbe(e, {80, 443, 8080, 8443})
AuthPoliciesDetector(e)     == WebProbe(e, {80, 443, 8080, 8443})

\* GRPCReflectionEnumerator.Handle, on the configured ports
GRPCReflectionEnumerator(e) ==
    IF On("grpc") /\ Allowed(e.host) THEN Contact({e.host}) ELSE Nothing

-----------------------------------------------------------------------------
(* Specialized, on five types of events.  Nothing consumes the events it   *)
(* emits, specialized.discovered.                                          *)

\* Data["service"]: the name that ServiceFingerprint gave to the port.
serviceName(e) ==
    IF e.type = "service.fingerprinted" THEN Image(world.named, e.port) ELSE {}

\* One of the ports, or one of the services.
Either(e, ports, services) == e.port \in ports \/ serviceName(e) \cap services # {}

isProtocolEnumerationPort(e) ==
    Either(e, {21, 22, 25, 587}, {"ftp", "ssh", "smtp", "smtp-submission"})

isContainerPort(e) ==
    Either(e, {2375, 2376, 5000, 5001, 6443, 10250, 10255, 2379, 8080, 10010},
           {"docker", "docker-tls", "docker-registry", "kubernetes-api", "kubelet",
            "etcd", "podman", "containerd"})

isDatabasePort(e) ==
    Either(e, {3306, 5432, 1433, 6379, 9200, 27017, 11211, 5984, 8123, 9000, 9042, 8086},
           {"mysql", "postgresql", "mssql", "redis", "elasticsearch", "mongodb",
            "memcached", "couchdb", "cassandra", "clickhouse", "influxdb", "oracle"})

\* The probes that run: probeSMB, probeLDAP, probeSNMP, probeContainer,
\* probeDatabase and probeProtocolCapabilities.  An event without a protocol
\* counts as tcp.
Families(e) ==
    {f \in {"smb", "ldap", "snmp", "container", "database", "protocols"} :
        /\ On(f)
        /\ CASE f = "smb"  -> Either(e, {445, 139}, {"smb", "netbios-ssn"})
             [] f = "ldap" -> Either(e, {389, 636, 3268, 3269}, {"ldap", "ldaps"})
             [] f = "snmp" -> Either(e, {161}, {"snmp"}) \/ e.proto = "udp"
             [] f = "container" -> isContainerPort(e)
             [] f = "database"  -> isDatabasePort(e)
             [] f = "protocols" -> e.proto # "udp" /\ isProtocolEnumerationPort(e)}

\* The databases that probeDatabase speaks HTTP to, in the order it asks.
HTTPDatabase(e) ==
    /\ ~Either(e, {6379}, {"redis"})
    /\ \/ Either(e, {9200}, {"elasticsearch"})
       \/ /\ ~Either(e, {11211, 27017, 3306, 5432, 1433},
                     {"memcached", "mongodb", "mysql", "postgresql", "mssql"})
          /\ Either(e, {8123, 8086}, {"clickhouse", "influxdb"})

\* probeDatabase: checkElasticsearch, checkClickHouse and checkInfluxDB use
\* a client without CheckRedirect, the others a plain connection.
probeDatabase(e) == IF HTTPDatabase(e) THEN DefaultClient(e.host) \ {e.host} ELSE {}

\* Specialized.Handle on port.open and service.fingerprinted.  The other
\* probes connect to the port and follow no redirect.
SpecializedPort(e) ==
    IF ~Allowed(e.host) \/ Families(e) = {} THEN Nothing
    ELSE [Nothing EXCEPT
            !.contacts = {e.host},
            !.strays = IF "database" \in Families(e) THEN probeDatabase(e) ELSE {}]

\* probeCloudTarget: storage hosts named after the target, not checked.
probeCloudTarget(e) ==
    IF On("cloud")
    THEN [Nothing EXCEPT !.strays = UNION {DefaultClient(b) : b \in StorageHost[e.host]}]
    ELSE Nothing

\* probeCloudURL: one request, without a check of its own.
probeCloudURL(e) == IF On("cloud") THEN Contact({e.host}) ELSE Nothing

-----------------------------------------------------------------------------
(* PassiveIntel, on target.discovered, host.discovered and                 *)
(* service.fingerprinted.                                                  *)

\* The providers an event may be sent to.  circl_cve alone takes services,
\* and only with a cpe:2.3 name; ServiceFingerprint writes cpe:/ names.
SourcesFor(e) ==
    IF e.type = "service.fingerprinted" THEN {}
    ELSE {s \in Sources \ {"circl_cve"} :
            /\ s \in IPOnly => e.host \in Addresses
            /\ s \in DomainOnly => e.host \notin Addresses}

\* Mutant: the reservation is made but not looked at.
ReserveAlways(e) == SourcesFor(e)

\* reserveTarget: once for each provider and host of a scan.
reserveTarget(e) == {s \in SourcesFor(e) : <<s, e.host>> \notin reserved}

PassiveQueries(e) == IF Allowed(e.host) THEN reserveTarget(e) ELSE {}

\* discoverPublicBuckets: storage hosts again, asked directly.
discoverPublicBuckets(e) ==
    IF "bucket" \in PassiveQueries(e)
    THEN [Nothing EXCEPT !.strays = UNION {DefaultClient(b) : b \in StorageHost[e.host]}]
    ELSE Nothing

PassiveIntel(e) ==
    /\ reserved' = reserved \cup {<<s, e.host>> : s \in PassiveQueries(e)}
    /\ asked' = asked \cup {<<s, e.host, e.type>> : s \in PassiveQueries(e)}

-----------------------------------------------------------------------------
(* Modules on http.url.                                                    *)

\* Mutant: the limit compared with <= before the increment.
AllowOneMore(h) == pages[h] <= MaxPagesPerHost
\* allowPage, without its increment.
allowPage(h) == pages[h] < MaxPagesPerHost

\* reserve, without its increment.
reserve(e) ==
    On("screenshots") /\ Allowed(e.host) /\ shots < MaxScreenshotsPerScan

\* fetchRobotsAndSitemap: URLs of the same host name, at depth 1.
fetchRobotsAndSitemap(e) ==
    {URL(g, 1) : g \in {f \in Image(world.robots, e.host) :
                          Allowed(f.host) /\ f.host = e.host}}

\* The links of a page: same host name, any port, one level deeper.
Follow(e) ==
    {URL(g, e.depth + 1) : g \in {f \in Image(world.links, PageOf(e)) :
                                    Allowed(f.host) /\ f.host = e.host}}

\* Mutant: links are still followed at the last level.
CrawlTooDeep(e) ==
    IF ~On("crawler") THEN {}
    ELSE (IF e.depth = 0 THEN fetchRobotsAndSitemap(e) ELSE {})
         \cup (IF e.depth <= MaxDepth THEN Follow(e) ELSE {})

CrawlEvents(e) ==
    IF ~On("crawler") THEN {}
    ELSE (IF e.depth = 0 THEN fetchRobotsAndSitemap(e) ELSE {})
         \cup (IF e.depth < MaxDepth THEN Follow(e) ELSE {})

\* HTTP.Handle on a URL allowed to be fetched.  The page, and at depth 0
\* the redirect chain, methods, manifest, robots, API and directory
\* requests, go to its host; `ok` is FALSE when the page request fails.
HTTP(e, ok) ==
    IF ~Allowed(e.host) \/ ~allowPage(e.host) THEN Nothing
    ELSE [Nothing EXCEPT !.contacts = scopedHTTPClient(e.host),
                         !.events = IF ok THEN CrawlEvents(e) ELSE {}]

\* BrowserScreenshotRenderer.Handle: an external browser opens the URL.
BrowserScreenshotRenderer(e) == IF reserve(e) THEN Contact({e.host}) ELSE Nothing

\* DirectoryAPIEnumerator.Handle
DirectoryAPIEnumerator(e) ==
    IF On("directory") /\ e.depth = 0 /\ Allowed(e.host)
    THEN Contact(scopedHTTPClient(e.host)) ELSE Nothing

\* FrontendFrameworkDetector.Handle
FrontendFrameworkDetector(e) ==
    IF Allowed(e.host) THEN Contact(scopedHTTPClient(e.host)) ELSE Nothing

\* WasmAndSPADiscovery.Handle on scripts; nothing consumes url.discovered.
WasmAndSPADiscovery(e) ==
    IF Allowed(e.host) THEN Contact(scopedHTTPClient(e.host)) ELSE Nothing

-----------------------------------------------------------------------------
(* The scheduler around the modules.                                       *)

Init ==
    /\ world \in Worlds
    /\ \A t \in world.targets : Allowed(t)
    /\ accepted = {Target(t) : t \in world.targets}
    /\ pending = accepted
    /\ running = {}
    /\ done = {}
    /\ contacted = {}
    /\ strayed = {}
    /\ pages = [h \in Hosts |-> 0]
    /\ shots = 0
    /\ reserved = {}
    /\ fetched = {}
    /\ asked = {}
    /\ lost = 0

modules == <<contacted, strayed, pages, shots, reserved, fetched, asked, lost>>

\* A worker takes an event and looks at its checkpoint.
Take(e) ==
    /\ e \in pending
    /\ Cardinality(running) < Concurrency
    /\ pending' = pending \ {e}
    /\ running' = IF KeyOf(e) \in done THEN running ELSE running \cup {e}
    /\ UNCHANGED <<world, accepted, done, modules>>

\* Mutant: the worker is not given back.
FinishKeeping(e, results) ==
    LET emitted == UNION {r.events : r \in results}
    IN  /\ e \in running
        /\ running' = running
        /\ done' = done \cup {KeyOf(e)}
        /\ accepted' = accepted \cup emitted
        /\ pending' = pending \cup (emitted \ accepted)
        /\ contacted' = contacted \cup UNION {r.contacts : r \in results}
        /\ strayed' = strayed \cup UNION {r.strays : r \in results}
        /\ UNCHANGED world

\* The chain of modules on e has ended: what it sent, what it emitted.
Finish(e, results) ==
    LET emitted == UNION {r.events : r \in results}
    IN  /\ e \in running
        /\ running' = running \ {e}
        /\ done' = done \cup {KeyOf(e)}
        /\ accepted' = accepted \cup emitted
        /\ pending' = pending \cup (emitted \ accepted)
        /\ contacted' = contacted \cup UNION {r.contacts : r \in results}
        /\ strayed' = strayed \cup UNION {r.strays : r \in results}
        /\ UNCHANGED world

HandleTarget(e) ==
    /\ e.type = "target.discovered"
    /\ Finish(e, {Discovery(e), IPv6Discovery(e), ARPDiscovery(e),
                  HistoricalURLImporter(e), probeCloudTarget(e),
                  discoverPublicBuckets(e)})
    /\ PassiveIntel(e)
    /\ UNCHANGED <<pages, shots, fetched, lost>>

HandleHost(e) ==
    /\ e.type = "host.discovered"
    /\ Finish(e, {PortScan(e), RawTCPScanner(e), probeCloudTarget(e),
                  discoverPublicBuckets(e)})
    /\ PassiveIntel(e)
    /\ UNCHANGED <<pages, shots, fetched, lost>>

\* OSStackFingerprint and SNMPWalkFingerprint also listen here; they send
\* nothing and emit nothing.
HandlePort(e) ==
    /\ e.type = "port.open"
    /\ Finish(e, {VHostDiscovery(e), ServiceFingerprint(e), KerberosADFingerprint(e),
                  TLSFingerprinter(e), HTTP2Fingerprinter(e), FaviconFingerprinter(e),
                  CMSEnumerator(e), FrameworkEnumerator(e), EnterpriseAppEnumerator(e),
                  SensitiveExposureScanner(e), APIProtocolScanner(e),
                  AuthProtocolScanner(e), SessionJWTScanner(e), AuthPoliciesDetector(e),
                  GRPCReflectionEnumerator(e), SpecializedPort(e)})
    /\ UNCHANGED <<pages, shots, reserved, fetched, asked, lost>>

\* ServiceFingerprint's event: Specialized and PassiveIntel consume it.
HandleService(e) ==
    /\ e.type = "service.fingerprinted"
    /\ Finish(e, {SpecializedPort(e)})
    /\ PassiveIntel(e)
    /\ UNCHANGED <<pages, shots, fetched, lost>>

\* Names from certificates and virtual hosts: only IPv6Discovery listens.
HandleDomain(e) ==
    /\ e.type = "domain.discovered"
    /\ Finish(e, {IPv6Discovery(e)})
    /\ UNCHANGED <<pages, shots, reserved, fetched, asked, lost>>

\* OSStackFingerprint records an asset; no traffic and no event.
HandleTraits(e) ==
    /\ e.type = "passive.tcp_traits"
    /\ Finish(e, {Nothing})
    /\ UNCHANGED <<pages, shots, reserved, fetched, asked, lost>>

HandleURL(e, ok) ==
    LET fetch == Allowed(e.host) /\ allowPage(e.host)
    IN  /\ e.type = "http.url"
        /\ ok \/ (fetch /\ lost < MaxLost)
        /\ Finish(e, {HTTP(e, ok), BrowserScreenshotRenderer(e), DirectoryAPIEnumerator(e),
                      FrontendFrameworkDetector(e), WasmAndSPADiscovery(e),
                      probeCloudURL(e)})
        /\ pages' = IF fetch THEN [pages EXCEPT ![e.host] = @ + 1] ELSE pages
        /\ fetched' = IF fetch THEN fetched \cup {PageOf(e)} ELSE fetched
        /\ shots' = IF reserve(e) THEN shots + 1 ELSE shots
        /\ lost' = IF ok THEN lost ELSE lost + 1
        /\ UNCHANGED <<reserved, asked>>

Handle(e) ==
    \/ HandleTarget(e)
    \/ HandleHost(e)
    \/ HandlePort(e)
    \/ HandleService(e)
    \/ HandleDomain(e)
    \/ HandleTraits(e)
    \/ \E ok \in BOOLEAN : HandleURL(e, ok)

Next == \/ \E e \in pending : Take(e)
        \/ \E e \in running : Handle(e)

\* Workers keep running: each waits only for the network, under a timeout.
Spec == Init /\ [][Next]_vars /\ WF_vars(Next)

-----------------------------------------------------------------------------
(* Properties.                                                             *)

Types == {"target.discovered", "host.discovered", "domain.discovered",
          "passive.tcp_traits", "port.open", "service.fingerprinted", "http.url"}

\* The deepest crawl depth an event can carry: what robots.txt and the
\* sitemap list enters at depth 1 whatever MaxDepth is.
DeepestCrawl == IF MaxDepth = 0 THEN 1 ELSE MaxDepth

EventSet == [type : Types, host : Scannable, port : Ports \cup {0},
             proto : {"", "tcp", "udp"}, path : Paths \cup {""}, depth : 0..DeepestCrawl]

\* Every variable has its type; in particular no event is deeper than
\* DeepestCrawl and no more chains run than there are workers.
TypeOK ==
    /\ world \in Worlds
    /\ accepted \subseteq EventSet
    /\ pending \subseteq accepted
    /\ running \subseteq accepted
    /\ Cardinality(running) <= Concurrency
    /\ done \subseteq {KeyOf(e) : e \in accepted}
    /\ contacted \subseteq Hosts
    /\ strayed \subseteq Hosts
    /\ pages \in [Hosts -> 0..MaxPagesPerHost]
    /\ shots \in 0..MaxScreenshotsPerScan
    /\ reserved \subseteq Sources \X Scannable
    /\ fetched \subseteq Pages
    /\ asked \subseteq Sources \X Scannable \X Types
    /\ lost \in 0..MaxLost

\* A host that only the unchecked expansion of an IPv6 target names.
FromIPv6Block(e) ==
    /\ e.type = "host.discovered"
    /\ \E n \in Networks : /\ Target(n) \in accepted
                           /\ HostPart(n) \in IPv6
                           /\ e.host \in expandIPv6Net(n)

\* No discovery step widens the scan: every event is about a host in scope,
\* but for the addresses IPv6Discovery takes from a block that lies only
\* partly in scope.
EventsInScope == \A e \in accepted : Allowed(e.host) \/ FromIPv6Block(e)

\* Every host that a module dials, or reaches with a client that checks
\* redirects, is in scope, through any chain of discoveries and redirects.
GuardedContacts == \A h \in contacted : Allowed(h)

\* What docs/configuration.md and docs/development.md promise: no traffic
\* at all leaves the scope.
ScopeRespected == \A h \in contacted \cup strayed : Allowed(h)

\* The HTTP module asks a host for at most MaxPagesPerHost pages, however
\* many workers run it on URLs of that host.
PageBudget ==
    \A h \in Hosts : Cardinality({g \in fetched : g.host = h}) <= MaxPagesPerHost

\* Reference for the crawler: the pages at the end of a trail that starts at a
\* page found by port scanning or the import of old URLs, all links staying on
\* one host; robots and sitemap entries are one link away.
EntryPages ==
    world.historical
    \cup {[host |-> c[1], port |-> c[2], path |-> "/"] : c \in world.tcp \cup world.filtered}

SitePages ==
    EntryPages \cup {l[2] : l \in world.links} \cup {r[2] : r \in world.robots}

\* A page leads to another as the i-th link of a trail.
LeadsTo(i, f, g) ==
    /\ g.host = f.host
    /\ \/ i <= MaxDepth /\ <<f, g>> \in world.links
       \/ i = 1 /\ <<f.host, g>> \in world.robots

\* The trails of n links from an entry page.
Trails(n) ==
    {t \in [0..n -> SitePages] :
        t[0] \in EntryPages /\ \A i \in 1..n : LeadsTo(i, t[i - 1], t[i])}

Crawlable == UNION {{t[n] : t \in Trails(n)} : n \in 0..DeepestCrawl}

\* The crawler never requests a page further than the configured depth from
\* where it started, whichever worker followed which link first.
CrawlBounded == fetched \subseteq Crawlable

Quiet == pending = {} /\ running = {}

\* Reference for discovery: the hosts in scope that the targets lead to.
KnownNames ==
    (world.targets \cap Names)
    \cup {n \in (world.passive \cup world.captured) \cap Names :
             Allowed(n) /\ \E t \in world.targets : sameDomain(t, n)}

DirectHosts ==
    (world.targets \ Networks) \cup KnownNames
    \cup {a \in Addresses : Allowed(a) /\
             \/ a \in world.captured
             \/ \E n \in KnownNames :
                   <<n, a>> \in world.resolves /\ (On("dns") \/ a \in IPv6)
             \/ \E n \in world.targets \cap Networks : a \in expandCIDR(n)}

\* The open ports that a scanner which is switched on finds.
ScannedPorts(h) ==
    IF On("tcp") \/ On("raw") THEN Image(world.tcp, h) \cap TCPPorts ELSE {}

\* Addresses in scope of the names that the certificates of S show.
CertificateHosts(S) ==
    {a \in IPv6 : Allowed(a) /\ \E h \in S, n \in Names :
        /\ <<h, n>> \in world.sans
        /\ ScannedPorts(h) \cap {443, 8443} # {}
        /\ Allowed(n)
        /\ <<n, a>> \in world.resolves}

\* The least set with the direct hosts and the certificate hosts of its own.
KnownHosts ==
    {h \in Hosts : \A S \in SUBSET Hosts :
                      DirectHosts \cup CertificateHosts(S) \subseteq S => h \in S}

\* When nothing is left to do, every known host has been scanned, every open
\* port of it given to the port modules (under one of its protocols), and
\* every web port's first page requested unless the host's budget is spent.
Covered ==
    Quiet => \A h \in KnownHosts :
        /\ KeyOf(Host(h)) \in done
        /\ \A p \in ScannedPorts(h) :
              /\ KeyOf(Open(h, p, "tcp")) \in done
              /\ webEvents(h, p) # {} =>
                    \/ [host |-> h, port |-> p, path |-> "/"] \in fetched
                    \/ pages[h] = MaxPagesPerHost

\* A provider is asked about a host at most once in a scan, although target
\* and host events name it several times.
AskedOnce ==
    \A q, r \in asked : q[1] = r[1] /\ q[2] = r[2] => q = r

\* Discovery ends: names, addresses, certificates and links that lead to
\* each other in circles do not keep the scan going.
DiscoveryEnds == <>Quiet

\* Discovery visits what the reference computed from the network says, no more of
\* a site (CrawlBounded) and no host less (Covered).
DiscoveryExact == TypeOK /\ CrawlBounded /\ Covered

=============================================================================
