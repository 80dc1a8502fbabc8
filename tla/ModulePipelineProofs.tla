------------------------ MODULE ModulePipelineProofs ------------------------
(***************************************************************************)
(* Proofs about ModulePipeline, for every scope, network, set of ports and *)
(* features, number of workers and bound.                                  *)
(***************************************************************************)
EXTENDS ModulePipeline, FiniteSetTheorems, TLAPS

-----------------------------------------------------------------------------
(* Scope.                                                                  *)

\* Targets are only ever Target(h), and discovered names are no networks.
Proper(f) == /\ f.type = "target.discovered" => f = Target(f.host)
             /\ f.type = "domain.discovered" => f.host \notin Networks

\* The unchecked part of what IPv6Discovery makes of the target e.
BlockEvent(f, e) == /\ f.type = "host.discovered"
                    /\ e.type = "target.discovered"
                    /\ e.host \in Networks
                    /\ HostPart(e.host) \in IPv6
                    /\ f.host \in expandIPv6Net(e.host)

\* A result that keeps the scan in scope when it comes from the event e.
Sound(r, e) == /\ \A h \in r.contacts : Allowed(h)
               /\ \A f \in r.events : /\ Proper(f)
                                      /\ Allowed(f.host) \/ BlockEvent(f, e)

ScopeInv == /\ world \in Worlds
            /\ running \subseteq accepted
            /\ pending \subseteq accepted
            /\ \A f \in accepted : Proper(f)
            /\ EventsInScope
            /\ GuardedContacts

\* One redirect of a scope-checking client stays in scope.
LEMMA HopInScope ==
    ASSUME NEW S, \A g \in S : Allowed(g)
    PROVE  \A g \in ScopedHop(S) : Allowed(g)
BY DEF ScopedHop

\* So does the whole chain of redirects.
LEMMA ClientInScope ==
    ASSUME NEW h, Allowed(h)
    PROVE  \A g \in scopedHTTPClient(h) : Allowed(g)
<1>1. \A g \in {h} : Allowed(g)
  OBVIOUS
<1>2. \A g \in ScopedHop({h}) : Allowed(g)
  BY <1>1, HopInScope
<1>3. \A g \in ScopedHop(ScopedHop({h})) : Allowed(g)
  BY <1>2, HopInScope
<1>4. \A g \in ScopedHop(ScopedHop(ScopedHop({h}))) : Allowed(g)
  BY <1>3, HopInScope
<1> QED
  BY <1>4, HopInScope DEF scopedHTTPClient

\* A module that only sends to hosts in scope.
LEMMA ContactSound ==
    ASSUME NEW e, NEW S, \A g \in S : Allowed(g)
    PROVE  Sound(Contact(S), e)
BY DEF Sound, Contact, Nothing

\* A module that only emits events about hosts in scope.
LEMMA EmitSound ==
    ASSUME NEW e, NEW E, \A f \in E : Proper(f) /\ Allowed(f.host)
    PROVE  Sound(Emit(E), e)
BY DEF Sound, Emit, Nothing

\* A module that does nothing.
LEMMA NothingSound == ASSUME NEW e PROVE Sound(Nothing, e)
BY DEF Sound, Nothing

\* Events of the other types satisfy Proper by their type.
LEMMA ProperEvents ==
    /\ \A h : Proper(Target(h)) /\ Target(h).host = h
    /\ \A h : Proper(Host(h)) /\ Host(h).host = h
    /\ \A h : Proper(Traits(h)) /\ Traits(h).host = h
    /\ \A h \in Names : Proper(Domain(h)) /\ Domain(h).host = h
    /\ \A h, p, pr : Proper(Open(h, p, pr)) /\ Open(h, p, pr).host = h
    /\ \A e : Proper(Service(e)) /\ Service(e).host = e.host
    /\ \A g, d : Proper(URL(g, d)) /\ URL(g, d).host = g.host
BY KindsAssumption DEF Proper, Target, Host, Traits, Domain, Open, Service, URL, Ev

\* Discovery: every import, lookup and expansion checks the scope.
LEMMA DiscoverySound == ASSUME NEW e PROVE Sound(Discovery(e), e)
<1> SUFFICES ASSUME Allowed(e.host) PROVE Sound(Discovery(e), e)
  BY NothingSound DEF Discovery
<1> DEFINE t == e.host
           seen == importCaptureObservations(t) \cup captureLiveTraffic
<1>1. \A f \in seen : Proper(f) /\ Allowed(f.host)
  BY ProperEvents DEF importCaptureObservations, captureLiveTraffic, importTCPTraits
<1>2. \A a \in expandCIDR(t) : Allowed(a)
  BY DEF expandCIDR
<1>3. \A f \in {Host(a) : a \in expandCIDR(t)} \cup {Host(t)} : Proper(f) /\ Allowed(f.host)
  BY <1>2, ProperEvents
<1>4. \A f \in importPassiveHosts(t) \cup LookupHost(t) : Proper(f) /\ Allowed(f.host)
  BY ProperEvents DEF importPassiveHosts, LookupHost
<1>5. CASE t \in Networks
  <2>1. Discovery(e) = [Nothing EXCEPT
                          !.contacts = probeLiveHost(expandCIDR(t)),
                          !.events = seen \cup {Host(a) : a \in expandCIDR(t)}]
    BY <1>5 DEF Discovery
  <2> QED
    BY <2>1, <1>1, <1>2, <1>3 DEF Sound, Nothing, probeLiveHost
<1>6. CASE t \notin Networks /\ t \in Addresses
  <2>1. Discovery(e) = [Nothing EXCEPT
                          !.contacts = probeLiveHost({t}),
                          !.events = seen \cup {Host(t)}]
    BY <1>6 DEF Discovery
  <2> QED
    BY <2>1, <1>1, <1>3 DEF Sound, Nothing, probeLiveHost
<1>7. CASE t \notin Networks /\ t \notin Addresses
  <2> DEFINE E == seen \cup {Host(t)} \cup importPassiveHosts(t)
                  \cup (IF On("dns") THEN LookupHost(t) ELSE {})
  <2>1. Discovery(e) = Emit(E)
    BY <1>7 DEF Discovery
  <2>2. \A f \in E : Proper(f) /\ Allowed(f.host)
    BY <1>1, <1>3, <1>4
  <2> HIDE DEF E
  <2> QED
    BY <2>1, <2>2, EmitSound
<1> QED
  BY <1>5, <1>6, <1>7

\* IPv6Discovery: names are checked; a block's addresses are BlockEvents.
LEMMA IPv6Sound ==
    ASSUME NEW e, e.type \in {"target.discovered", "domain.discovered"}, Proper(e)
    PROVE  Sound(IPv6Discovery(e), e)
<1>1. CASE ~Allowed(e.host)
  BY <1>1, NothingSound DEF IPv6Discovery
<1>2. CASE Allowed(e.host) /\ e.host \in Networks /\ HostPart(e.host) \in IPv6
  <2>1. IPv6Discovery(e) = Emit({Host(a) : a \in expandIPv6Net(e.host)})
    BY <1>2 DEF IPv6Discovery
  <2>2. e.type = "target.discovered"
    BY <1>2 DEF Proper
  <2>3. \A a : Host(a).type = "host.discovered"
    BY DEF Host, Ev
  <2> QED
    BY <2>1, <2>2, <2>3, <1>2, ProperEvents DEF Sound, Emit, Nothing, BlockEvent
<1>3. CASE /\ Allowed(e.host)
           /\ ~(e.host \in Networks /\ HostPart(e.host) \in IPv6)
           /\ e.host \in Names
  <2> DEFINE E == {Host(a) : a \in {b \in Image(world.resolves, e.host) \cap IPv6 : Allowed(b)}}
  <2>1. IPv6Discovery(e) = Emit(E)
    BY <1>3 DEF IPv6Discovery
  <2>2. \A f \in E : Proper(f) /\ Allowed(f.host)
    BY ProperEvents
  <2> QED
    BY <2>1, <2>2, EmitSound
<1>4. CASE /\ Allowed(e.host)
           /\ ~(e.host \in Networks /\ HostPart(e.host) \in IPv6)
           /\ e.host \notin Names
  BY <1>4, NothingSound DEF IPv6Discovery
<1> QED
  BY <1>1, <1>2, <1>3, <1>4

\* The other modules on target.discovered; storage hosts are not counted.
LEMMA TargetModulesSound ==
    ASSUME NEW e
    PROVE  /\ Sound(ARPDiscovery(e), e)
           /\ Sound(HistoricalURLImporter(e), e)
           /\ Sound(probeCloudTarget(e), e)
           /\ Sound(discoverPublicBuckets(e), e)
<1>1. Sound(ARPDiscovery(e), e)
  BY ProperEvents, NothingSound, EmitSound DEF ARPDiscovery
<1>2. Sound(HistoricalURLImporter(e), e)
  <2> DEFINE E == {URL(g, 0) : g \in {f \in world.historical :
                              sameDomain(e.host, f.host) /\ Allowed(f.host)}}
  <2>1. \A f \in E : Proper(f) /\ Allowed(f.host)
    BY ProperEvents
  <2>2. HistoricalURLImporter(e) = Emit(E) \/ HistoricalURLImporter(e) = Nothing
    BY DEF HistoricalURLImporter
  <2> QED
    BY <2>1, <2>2, NothingSound, EmitSound
<1>3. Sound(probeCloudTarget(e), e)
  BY NothingSound DEF probeCloudTarget, Sound, Nothing
<1>4. Sound(discoverPublicBuckets(e), e)
  BY NothingSound DEF discoverPublicBuckets, Sound, Nothing
<1> QED
  BY <1>1, <1>2, <1>3, <1>4

\* The scanners: what they find belongs to the host they were allowed to scan.
LEMMA HostModulesSound ==
    ASSUME NEW e
    PROVE  Sound(PortScan(e), e) /\ Sound(RawTCPScanner(e), e)
<1>1. \A S : \A f \in TCPEvents(e.host, S) : Proper(f) /\ f.host = e.host
  <2>1. \A p : \A f \in webEvents(e.host, p) : Proper(f) /\ f.host = e.host
    <3> SUFFICES ASSUME NEW p PROVE \A f \in webEvents(e.host, p) : Proper(f) /\ f.host = e.host
      OBVIOUS
    <3> DEFINE g == [host |-> e.host, port |-> p, path |-> "/"]
    <3>1. Proper(URL(g, 0)) /\ URL(g, 0).host = e.host
      BY ProperEvents
    <3> QED
      BY <3>1 DEF webEvents
  <2>2. \A p : Proper(Open(e.host, p, "tcp")) /\ Open(e.host, p, "tcp").host = e.host
    BY ProperEvents
  <2> QED
    BY <2>1, <2>2 DEF TCPEvents
<1>2. \A f \in scanUDP(e.host) : Proper(f) /\ f.host = e.host
  BY ProperEvents DEF scanUDP
<1>3. \A f \in scanTCP(e.host) : Proper(f) /\ f.host = e.host
  BY <1>1 DEF scanTCP
<1>4. Sound(PortScan(e), e)
  BY <1>2, <1>3, NothingSound DEF PortScan, Sound, Nothing
<1>5. Sound(RawTCPScanner(e), e)
  BY <1>1, NothingSound DEF RawTCPScanner, Sound, Nothing
<1> QED
  BY <1>4, <1>5

\* The modules on port.open and service.fingerprinted.
LEMMA PortModulesSound ==
    ASSUME NEW e, world \in Worlds
    PROVE  /\ Sound(VHostDiscovery(e), e)
           /\ Sound(ServiceFingerprint(e), e)
           /\ Sound(KerberosADFingerprint(e), e)
           /\ Sound(TLSFingerprinter(e), e)
           /\ Sound(GRPCReflectionEnumerator(e), e)
           /\ Sound(SpecializedPort(e), e)
           /\ \A ports : Sound(WebProbe(e, ports), e)
<1>1. /\ Image(world.sans, e.host) \subseteq Names
      /\ Image(world.vhosts, e.host) \subseteq Names
  BY WorldsAssumption DEF Image
<1>2. Sound(VHostDiscovery(e), e)
  BY <1>1, ProperEvents, NothingSound DEF VHostDiscovery, Sound
<1>3. Sound(ServiceFingerprint(e), e)
  BY ProperEvents, NothingSound DEF ServiceFingerprint, Sound, Nothing
<1>4. Sound(KerberosADFingerprint(e), e)
  BY ContactSound, NothingSound DEF KerberosADFingerprint
<1>5. Sound(TLSFingerprinter(e), e)
  BY <1>1, ProperEvents, NothingSound DEF TLSFingerprinter, Sound, Nothing
<1>6. Sound(GRPCReflectionEnumerator(e), e)
  BY ContactSound, NothingSound DEF GRPCReflectionEnumerator
<1>7. Sound(SpecializedPort(e), e)
  BY NothingSound DEF SpecializedPort, Sound, Nothing
<1>8. \A ports : Sound(WebProbe(e, ports), e)
  BY ClientInScope, ContactSound, NothingSound DEF WebProbe
<1> QED
  BY <1>2, <1>3, <1>4, <1>5, <1>6, <1>7, <1>8

\* The modules on http.url.  probeCloudURL relies on the event's own scope.
LEMMA URLModulesSound ==
    ASSUME NEW e, Allowed(e.host)
    PROVE  /\ \A ok : Sound(HTTP(e, ok), e)
           /\ Sound(BrowserScreenshotRenderer(e), e)
           /\ Sound(DirectoryAPIEnumerator(e), e)
           /\ Sound(FrontendFrameworkDetector(e), e)
           /\ Sound(WasmAndSPADiscovery(e), e)
           /\ Sound(probeCloudURL(e), e)
<1>1. \A f \in CrawlEvents(e) : Proper(f) /\ Allowed(f.host)
  BY ProperEvents DEF CrawlEvents, fetchRobotsAndSitemap, Follow
<1>2. \A ok : Sound(HTTP(e, ok), e)
  BY <1>1, ClientInScope, NothingSound DEF HTTP, Sound, Nothing
<1>3. Sound(Contact({e.host}), e) /\ Sound(Contact(scopedHTTPClient(e.host)), e)
  BY ClientInScope, ContactSound
<1> QED
  BY <1>2, <1>3, NothingSound
     DEF BrowserScreenshotRenderer, DirectoryAPIEnumerator, FrontendFrameworkDetector,
         WasmAndSPADiscovery, probeCloudURL

\* A chain of sound results keeps the scan in scope.
LEMMA FinishSound ==
    ASSUME ScopeInv, NEW e \in running, NEW results,
           \A r \in results : Sound(r, e), Finish(e, results)
    PROVE  ScopeInv'
<1> DEFINE emitted == UNION {r.events : r \in results}
<1>1. /\ accepted' = accepted \cup emitted
      /\ running' = running \ {e}
      /\ pending' = pending \cup (emitted \ accepted)
      /\ contacted' = contacted \cup UNION {r.contacts : r \in results}
      /\ world' = world
  BY DEF Finish
<1>2. \A f \in emitted : Proper(f) /\ (Allowed(f.host) \/ BlockEvent(f, e))
  BY DEF Sound
<1>3. \A f \in emitted : BlockEvent(f, e) => FromIPv6Block(f)'
  <2>1. e \in accepted /\ Proper(e)
    BY DEF ScopeInv
  <2> QED
    BY <2>1, <1>1 DEF BlockEvent, FromIPv6Block, Proper
<1>4. EventsInScope'
  <2>1. \A f \in accepted : FromIPv6Block(f) => FromIPv6Block(f)'
    BY <1>1 DEF FromIPv6Block
  <2> QED
    BY <1>1, <1>2, <1>3, <2>1 DEF ScopeInv, EventsInScope
<1>5. GuardedContacts'
  BY <1>1 DEF ScopeInv, GuardedContacts, Sound
<1>6. \A f \in accepted' : Proper(f)
  BY <1>1, <1>2 DEF ScopeInv
<1> QED
  BY <1>1, <1>4, <1>5, <1>6 DEF ScopeInv

\* Every step keeps ScopeInv.
LEMMA ScopeStep == ScopeInv /\ [Next]_vars => ScopeInv'
<1> SUFFICES ASSUME ScopeInv, [Next]_vars PROVE ScopeInv'
  OBVIOUS
<1>1. ASSUME NEW e \in pending, Take(e) PROVE ScopeInv'
  <2>1. UNCHANGED <<world, accepted, contacted>>
    BY <1>1 DEF Take, modules
  <2>2. running' \subseteq accepted /\ pending' \subseteq accepted
    BY <1>1 DEF Take, ScopeInv
  <2> QED
    BY <2>1, <2>2 DEF ScopeInv, EventsInScope, GuardedContacts, FromIPv6Block
<1>2. ASSUME NEW e \in running, Handle(e) PROVE ScopeInv'
  <2>0. world \in Worlds /\ Proper(e) /\ (Allowed(e.host) \/ FromIPv6Block(e))
    BY DEF ScopeInv, EventsInScope
  <2>1. CASE HandleTarget(e)
    <3>1. Sound(IPv6Discovery(e), e)
      BY <2>0, <2>1, IPv6Sound DEF HandleTarget
    <3> QED
      BY <2>1, <3>1, DiscoverySound, TargetModulesSound, FinishSound DEF HandleTarget
  <2>2. CASE HandleHost(e)
    BY <2>2, HostModulesSound, TargetModulesSound, FinishSound DEF HandleHost
  <2>3. CASE HandlePort(e)
    <3>1. /\ Sound(HTTP2Fingerprinter(e), e)
          /\ Sound(FaviconFingerprinter(e), e)
          /\ Sound(CMSEnumerator(e), e)
          /\ Sound(FrameworkEnumerator(e), e)
          /\ Sound(EnterpriseAppEnumerator(e), e)
          /\ Sound(SensitiveExposureScanner(e), e)
          /\ Sound(APIProtocolScanner(e), e)
          /\ Sound(AuthProtocolScanner(e), e)
          /\ Sound(SessionJWTScanner(e), e)
          /\ Sound(AuthPoliciesDetector(e), e)
      BY <2>0, PortModulesSound
         DEF HTTP2Fingerprinter, FaviconFingerprinter, CMSEnumerator,
             FrameworkEnumerator, EnterpriseAppEnumerator, SensitiveExposureScanner,
             APIProtocolScanner, AuthProtocolScanner, SessionJWTScanner,
             AuthPoliciesDetector
    <3> QED
      BY <2>0, <2>3, <3>1, PortModulesSound, FinishSound DEF HandlePort
  <2>4. CASE HandleService(e)
    BY <2>0, <2>4, PortModulesSound, FinishSound DEF HandleService
  <2>5. CASE HandleDomain(e)
    <3>1. Sound(IPv6Discovery(e), e)
      BY <2>0, <2>5, IPv6Sound DEF HandleDomain
    <3> QED
      BY <2>5, <3>1, FinishSound DEF HandleDomain
  <2>6. CASE HandleTraits(e)
    BY <2>6, NothingSound, FinishSound DEF HandleTraits
  <2>7. ASSUME NEW ok \in BOOLEAN, HandleURL(e, ok) PROVE ScopeInv'
    <3>1. Allowed(e.host)
      BY <2>0, <2>7 DEF HandleURL, FromIPv6Block
    <3> QED
      BY <2>7, <3>1, URLModulesSound, FinishSound DEF HandleURL
  <2> QED
    BY <1>2, <2>1, <2>2, <2>3, <2>4, <2>5, <2>6, <2>7 DEF Handle
<1>3. CASE UNCHANGED vars
  BY <1>3 DEF vars, ScopeInv, EventsInScope, GuardedContacts, FromIPv6Block
<1> QED
  BY <1>1, <1>2, <1>3 DEF Next

\* The configured targets are in scope.
LEMMA ScopeInit == Init => ScopeInv
<1> SUFFICES ASSUME Init PROVE ScopeInv
  OBVIOUS
<1>1. \A f \in accepted : Proper(f) /\ Allowed(f.host)
  BY ProperEvents DEF Init
<1> QED
  BY <1>1 DEF Init, ScopeInv, EventsInScope, GuardedContacts

\* No discovery step widens the scan, whatever the network answers.
THEOREM ScopeTheorem == Spec => []EventsInScope
<1>1. ScopeInv => EventsInScope
  BY DEF ScopeInv
<1> QED
  BY <1>1, ScopeInit, ScopeStep, PTL DEF Spec

\* Dials and scope-checking clients reach hosts in scope only, through any
\* chain of discoveries and redirects and with any features switched on.
THEOREM ContactsTheorem == Spec => []GuardedContacts
<1>1. ScopeInv => GuardedContacts
  BY DEF ScopeInv
<1> QED
  BY <1>1, ScopeInit, ScopeStep, PTL DEF Spec

-----------------------------------------------------------------------------
(* Budgets and reservations.                                               *)

\* What has been asked is reserved.
AskedInv == \A q \in asked : <<q[1], q[2]>> \in reserved

\* PassiveIntel asks about a host only what nobody has reserved before.
LEMMA AskedStep == AskedInv /\ AskedOnce /\ [Next]_vars => AskedInv' /\ AskedOnce'
<1> SUFFICES ASSUME AskedInv, AskedOnce, [Next]_vars PROVE AskedInv' /\ AskedOnce'
  OBVIOUS
<1>1. ASSUME NEW e, PassiveIntel(e) PROVE AskedInv' /\ AskedOnce'
  <2>1. \A s \in PassiveQueries(e) : <<s, e.host>> \notin reserved
    BY DEF PassiveQueries, reserveTarget
  <2>2. \A q \in asked' : \/ q \in asked
                          \/ \E s \in PassiveQueries(e) : q = <<s, e.host, e.type>>
    BY <1>1 DEF PassiveIntel
  <2>3. \A s \in PassiveQueries(e) : <<s, e.host>> \in reserved'
    BY <1>1 DEF PassiveIntel
  <2>4. reserved \subseteq reserved'
    BY <1>1 DEF PassiveIntel
  <2>5. \A s : /\ <<s, e.host, e.type>>[1] = s
              /\ <<s, e.host, e.type>>[2] = e.host
    OBVIOUS
  <2>6. \A q \in asked' : \/ q \in asked
                          \/ /\ q[1] \in PassiveQueries(e)
                             /\ q[2] = e.host
                             /\ q = <<q[1], e.host, e.type>>
    BY <2>2, <2>5, Zenon
  <2>7. AskedInv'
    <3> SUFFICES ASSUME NEW q \in asked' PROVE <<q[1], q[2]>> \in reserved'
      BY DEF AskedInv
    <3>1. CASE q \in asked
      BY <3>1, <2>4 DEF AskedInv
    <3>2. CASE q[1] \in PassiveQueries(e) /\ q[2] = e.host
      BY <3>2, <2>3
    <3> QED
      BY <2>6, <3>1, <3>2
  <2>8. AskedOnce'
    <3> SUFFICES ASSUME NEW q \in asked', NEW r \in asked', q[1] = r[1], q[2] = r[2]
                 PROVE  q = r
      BY DEF AskedOnce
    <3>1. CASE q \in asked /\ r \in asked
      BY <3>1 DEF AskedOnce
    <3>2. \A p \in asked : ~(p[1] \in PassiveQueries(e) /\ p[2] = e.host)
      BY <2>1 DEF AskedInv
    <3>3. CASE q \notin asked /\ r \notin asked
      BY <3>3, <2>6, Zenon
    <3> QED
      BY <2>6, <3>1, <3>2, <3>3, Zenon
  <2> QED
    BY <2>7, <2>8
<1>2. CASE UNCHANGED <<reserved, asked>>
  BY <1>2 DEF AskedInv, AskedOnce
<1>3. ASSUME NEW e \in pending, Take(e) PROVE UNCHANGED <<reserved, asked>>
  BY <1>3 DEF Take, modules
<1>4. ASSUME NEW e \in running, Handle(e)
      PROVE  PassiveIntel(e) \/ UNCHANGED <<reserved, asked>>
  BY <1>4 DEF Handle, HandleTarget, HandleHost, HandlePort, HandleService,
              HandleDomain, HandleTraits, HandleURL
<1>5. UNCHANGED vars => UNCHANGED <<reserved, asked>>
  BY DEF vars
<1> QED
  BY <1>1, <1>2, <1>3, <1>4, <1>5 DEF Next

\* A provider is asked about a host at most once, with any number of workers.
THEOREM AskedOnceTheorem == Spec => []AskedOnce
<1>1. Init => AskedInv /\ AskedOnce
  BY DEF Init, AskedInv, AskedOnce
<1> QED
  BY <1>1, AskedStep, PTL DEF Spec

\* The pages requested of a host are no more than its counter says, and the
\* counter stays within the limit.
PagesOf(h) == {g \in fetched : g.host = h}

BudgetInv == /\ pages \in [Hosts -> 0..MaxPagesPerHost]
             /\ \A h \in Hosts : /\ IsFiniteSet(PagesOf(h))
                                 /\ Cardinality(PagesOf(h)) <= pages[h]

\* A page is requested only with an increment of its host's counter.
LEMMA BudgetStep == BudgetInv /\ [Next]_vars => BudgetInv'
<1> SUFFICES ASSUME BudgetInv, [Next]_vars PROVE BudgetInv'
  OBVIOUS
<1>1. CASE UNCHANGED <<pages, fetched>>
  BY <1>1 DEF BudgetInv, PagesOf
<1>2. ASSUME NEW e, NEW ok \in BOOLEAN, HandleURL(e, ok), ~UNCHANGED <<pages, fetched>>
      PROVE  BudgetInv'
  <2>1. /\ pages' = [pages EXCEPT ![e.host] = @ + 1]
        /\ fetched' = fetched \cup {PageOf(e)}
        /\ pages[e.host] < MaxPagesPerHost
    BY <1>2 DEF HandleURL, allowPage
  <2>2. pages' \in [Hosts -> 0..MaxPagesPerHost]
    <3>1. pages \in [Hosts -> 0..MaxPagesPerHost] /\ MaxPagesPerHost \in Nat
      BY BoundsAssumption DEF BudgetInv
    <3>2. e.host \in Hosts => pages[e.host] + 1 \in 0..MaxPagesPerHost
      BY <2>1, <3>1
    <3> QED
      BY <2>1, <3>1, <3>2
  <2>3. ASSUME NEW h \in Hosts
        PROVE  IsFiniteSet(PagesOf(h))' /\ Cardinality(PagesOf(h))' <= pages'[h]
    <3>1. CASE h # e.host
      <4>1. PagesOf(h)' = PagesOf(h)
        BY <2>1, <3>1 DEF PagesOf, PageOf
      <4>2. pages'[h] = pages[h]
        BY <2>1, <3>1 DEF BudgetInv
      <4> QED
        BY <4>1, <4>2 DEF BudgetInv
    <3>2. CASE h = e.host
      <4>1. PagesOf(h)' = PagesOf(h) \cup {PageOf(e)}
        BY <2>1, <3>2 DEF PagesOf, PageOf
      <4>2. /\ IsFiniteSet(PagesOf(h) \cup {PageOf(e)})
            /\ Cardinality(PagesOf(h) \cup {PageOf(e)}) <= Cardinality(PagesOf(h)) + 1
        <5> DEFINE S == PagesOf(h)
                   x == PageOf(e)
        <5>1. IsFiniteSet(S)
          BY DEF BudgetInv
        <5>2. /\ IsFiniteSet(S \cup {x})
              /\ \/ x \in S /\ S \cup {x} = S
                 \/ Cardinality(S \cup {x}) = Cardinality(S) + 1
          BY <5>1, FS_AddElement
        <5>3. Cardinality(S) \in Nat
          BY <5>1, FS_CardinalityType
        <5> QED
          BY <5>2, <5>3
      <4>3. pages'[h] = pages[h] + 1 /\ pages[h] \in Nat
        BY <2>1, <3>2, BoundsAssumption DEF BudgetInv
      <4>4. Cardinality(PagesOf(h)) \in Nat /\ Cardinality(PagesOf(h)) <= pages[h]
        BY FS_CardinalityType DEF BudgetInv
      <4>5. Cardinality(PagesOf(h) \cup {PageOf(e)}) \in Nat
        BY <4>2, FS_CardinalityType
      <4> QED
        BY <4>1, <4>2, <4>3, <4>4, <4>5
    <3> QED
      BY <3>1, <3>2
  <2> QED
    BY <2>2, <2>3 DEF BudgetInv
<1>3. ASSUME NEW e \in pending, Take(e) PROVE UNCHANGED <<pages, fetched>>
  BY <1>3 DEF Take, modules
<1>4. ASSUME NEW e \in running, Handle(e)
      PROVE  UNCHANGED <<pages, fetched>> \/ \E ok \in BOOLEAN : HandleURL(e, ok)
  BY <1>4 DEF Handle, HandleTarget, HandleHost, HandlePort, HandleService,
              HandleDomain, HandleTraits
<1>5. UNCHANGED vars => UNCHANGED <<pages, fetched>>
  BY DEF vars
<1> QED
  BY <1>1, <1>2, <1>3, <1>4, <1>5 DEF Next

\* The page budget of a host holds for every number of workers and URLs.
THEOREM PageBudgetTheorem == Spec => []PageBudget
<1>1. Init => BudgetInv
  <2> SUFFICES ASSUME Init PROVE BudgetInv
    OBVIOUS
  <2>1. \A h \in Hosts : PagesOf(h) = {}
    BY DEF Init, PagesOf
  <2>2. IsFiniteSet({}) /\ Cardinality({}) = 0
    BY FS_EmptySet
  <2>3. pages = [h \in Hosts |-> 0]
    BY DEF Init
  <2> QED
    BY <2>1, <2>2, <2>3, BoundsAssumption DEF BudgetInv
<1>2. BudgetInv => PageBudget
  <2> SUFFICES ASSUME BudgetInv, NEW h \in Hosts
               PROVE  Cardinality(PagesOf(h)) <= MaxPagesPerHost
    BY DEF PageBudget, PagesOf
  <2>1. Cardinality(PagesOf(h)) \in Nat
    BY FS_CardinalityType DEF BudgetInv
  <2> QED
    BY <2>1, BoundsAssumption DEF BudgetInv
<1> QED
  BY <1>1, <1>2, BudgetStep, PTL DEF Spec

-----------------------------------------------------------------------------
(* Discovery against its reference.                                        *)

\* What holds of every event: an address or a name for all but targets, and for
\* a URL a trail that leads to its page in as many links as its depth.
EventOK(f) ==
    /\ f \in EventSet
    /\ f.type # "target.discovered" => f.host \in Names \cup Addresses
    /\ f.type = "http.url" => /\ f.port \in Ports /\ f.path \in Paths
                              /\ \E t \in Trails(f.depth) : t[f.depth] = PageOf(f)

\* What holds of every module's result.
ResultOK(r) == /\ r.contacts \subseteq Hosts
               /\ r.strays \subseteq Hosts
               /\ \A f \in r.events : EventOK(f)

\* What the modules that lead to hosts and ports emit on an event.
Emitted(f) ==
    CASE f.type = "target.discovered" -> Discovery(f).events \cup IPv6Discovery(f).events
      [] f.type = "host.discovered" -> PortScan(f).events \cup RawTCPScanner(f).events
      [] f.type = "port.open" -> TLSFingerprinter(f).events
      [] f.type = "domain.discovered" -> IPv6Discovery(f).events
      [] OTHER -> {}

\* No event is forgotten: it waits, it is handled, or its key is done...
Accounted ==
    \A f \in accepted : f \in pending \/ f \in running \/ KeyOf(f) \in done

\* ... and when its key is done, what it leads to has been accepted...
EmittedAccepted == \A f \in accepted : KeyOf(f) \in done => Emitted(f) \subseteq accepted

\* ... and its page requested, unless the budget of its host is spent.
PageSettled ==
    \A f \in accepted :
        f.type = "http.url" /\ KeyOf(f) \in done /\ Allowed(f.host) =>
            PageOf(f) \in fetched \/ pages[f.host] = MaxPagesPerHost

TargetsAccepted == \A t \in world.targets : Allowed(t) /\ Target(t) \in accepted

PipelineInv ==
    /\ TypeOK /\ IsFiniteSet(running)
    /\ \A f \in accepted : EventOK(f)
    /\ CrawlBounded
    /\ Accounted /\ EmittedAccepted /\ PageSettled /\ TargetsAccepted

-----------------------------------------------------------------------------
\* Depths 0 and 1 exist whatever the configured depth is.
LEMMA DepthNat == DeepestCrawl \in Nat /\ 0 \in 0..DeepestCrawl /\ 1 \in 0..DeepestCrawl
BY BoundsAssumption DEF DeepestCrawl

\* The events that modules construct.
LEMMA EventsTyped ==
    /\ \A h \in Scannable : EventOK(Target(h))
    /\ \A h \in Names \cup Addresses :
          EventOK(Host(h)) /\ EventOK(Traits(h)) /\ EventOK(Domain(h))
    /\ \A h \in Names \cup Addresses, p \in Ports, pr \in {"tcp", "udp"} : EventOK(Open(h, p, pr))
    /\ \A e : e.host \in Names \cup Addresses /\ e.port \in Ports \cup {0} => EventOK(Service(e))
<1> USE DepthNat
<1>1. Names \cup Addresses \subseteq Scannable
  BY DEF Scannable
<1>2. \A h \in Scannable : EventOK(Target(h))
  BY DEF EventOK, EventSet, Target, Ev, Types
<1>3. \A h \in Names \cup Addresses :
          EventOK(Host(h)) /\ EventOK(Traits(h)) /\ EventOK(Domain(h))
  BY <1>1 DEF EventOK, EventSet, Host, Traits, Domain, Ev, Types
<1>4. \A h \in Names \cup Addresses, p \in Ports, pr \in {"tcp", "udp"} : EventOK(Open(h, p, pr))
  <2> SUFFICES ASSUME NEW h \in Names \cup Addresses, NEW p \in Ports, NEW pr \in {"tcp", "udp"}
               PROVE  EventOK(Open(h, p, pr))
    OBVIOUS
  <2>1. Open(h, p, pr).type = "port.open" /\ Open(h, p, pr).host = h
    BY DEF Open, Ev
  <2>2. p \in Ports \cup {0} /\ pr \in {"", "tcp", "udp"} /\ h \in Scannable
    BY <1>1
  <2>3. Open(h, p, pr) \in EventSet
    BY <2>2 DEF Open, Ev, EventSet, Types
  <2> QED
    BY <2>1, <2>3 DEF EventOK
<1>5. \A e : e.host \in Names \cup Addresses /\ e.port \in Ports \cup {0} => EventOK(Service(e))
  BY <1>1 DEF EventOK, EventSet, Service, Ev, Types
<1> QED
  BY <1>2, <1>3, <1>4, <1>5

\* A URL's event is typed when a trail leads to its page.
LEMMA URLTyped ==
    ASSUME NEW g \in Pages, g.host \in Names \cup Addresses, NEW d \in 0..DeepestCrawl,
           \E t \in Trails(d) : t[d] = g
    PROVE  EventOK(URL(g, d))
<1>1. g = [host |-> g.host, port |-> g.port, path |-> g.path] /\ g.port \in Ports /\ g.path \in Paths
  BY DEF Pages
<1>2. g.host \in Scannable
  BY DEF Scannable
<1>3. PageOf(URL(g, d)) = g /\ URL(g, d).depth = d
  BY <1>1 DEF PageOf, URL, Ev
<1>4. URL(g, d) \in EventSet
  BY <1>1, <1>2 DEF URL, Ev, EventSet, Types
<1>5. URL(g, d).port \in Ports /\ URL(g, d).path \in Paths /\ URL(g, d).host \in Names \cup Addresses
  BY <1>1 DEF URL, Ev
<1> QED
  BY <1>3, <1>4, <1>5 DEF EventOK

\* An entry page is a trail of no link.
LEMMA EntryTrail ==
    ASSUME NEW g \in EntryPages PROVE \E t \in Trails(0) : t[0] = g
<1> DEFINE t == [i \in 0..0 |-> g]
<1>1. g \in SitePages
  BY DEF SitePages
<1>2. t \in [0..0 -> SitePages] /\ t[0] = g
  BY <1>1
<1>3. \A i \in 1..0 : LeadsTo(i, t[i - 1], t[i])
  OBVIOUS
<1>4. t \in Trails(0)
  BY <1>2, <1>3 DEF Trails
<1> QED
  BY <1>2, <1>4

\* One link more extends a trail.
LEMMA TrailExtends ==
    ASSUME NEW n \in Nat, NEW t \in Trails(n), NEW g \in SitePages, LeadsTo(n + 1, t[n], g)
    PROVE  \E u \in Trails(n + 1) : u[n + 1] = g
<1> DEFINE u == [i \in 0..(n + 1) |-> IF i <= n THEN t[i] ELSE g]
<1>1. t \in [0..n -> SitePages] /\ t[0] \in EntryPages /\ \A i \in 1..n : LeadsTo(i, t[i - 1], t[i])
  BY DEF Trails
<1>2. u \in [0..(n + 1) -> SitePages]
  BY <1>1
<1>3. u[0] = t[0] /\ u[n + 1] = g
  OBVIOUS
<1>4. \A i \in 1..(n + 1) : LeadsTo(i, u[i - 1], u[i])
  <2> SUFFICES ASSUME NEW i \in 1..(n + 1) PROVE LeadsTo(i, u[i - 1], u[i])
    OBVIOUS
  <2>1. CASE i <= n
    <3>1. u[i - 1] = t[i - 1] /\ u[i] = t[i] /\ i \in 1..n
      BY <2>1
    <3> QED
      BY <3>1, <1>1
  <2>2. CASE i = n + 1
    <3>1. u[i - 1] = t[n] /\ u[i] = g
      BY <2>2
    <3> QED
      BY <3>1, <2>2
  <2> QED
    BY <2>1, <2>2
<1>5. u \in Trails(n + 1)
  BY <1>1, <1>2, <1>3, <1>4 DEF Trails
<1> QED
  BY <1>3, <1>5

\* Redirects lead to hosts.
LEMMA HopTyped ==
    ASSUME world \in Worlds, NEW S \in SUBSET Hosts
    PROVE  ScopedHop(S) \subseteq Hosts /\ FreeHop(S) \subseteq Hosts
<1>1. \A h : Image(world.redirect, h) \subseteq Hosts
  BY WorldsAssumption DEF Image
<1> QED
  BY <1>1 DEF ScopedHop, FreeHop

\* So do the chains of redirects of both clients.
LEMMA ClientTyped ==
    ASSUME world \in Worlds, NEW h \in Hosts
    PROVE  scopedHTTPClient(h) \subseteq Hosts /\ DefaultClient(h) \subseteq Hosts
<1>1. {h} \in SUBSET Hosts
  OBVIOUS
<1>2. scopedHTTPClient(h) \subseteq Hosts
  BY <1>1, HopTyped DEF scopedHTTPClient
<1>3. \A S \in SUBSET Hosts : ThreeHops(S) \in SUBSET Hosts
  BY HopTyped DEF ThreeHops
<1>4. DefaultClient(h) \subseteq Hosts
  BY <1>1, <1>3 DEF DefaultClient
<1> QED
  BY <1>2, <1>4

-----------------------------------------------------------------------------
\* A module that does nothing.
LEMMA NothingTyped == ResultOK(Nothing)
BY DEF ResultOK, Nothing

\* A module that only sends to hosts.
LEMMA ContactTyped == ASSUME NEW S \in SUBSET Hosts PROVE ResultOK(Contact(S))
BY DEF ResultOK, Contact, Nothing

\* A module that only emits typed events.
LEMMA EmitTyped == ASSUME NEW E, \A f \in E : EventOK(f) PROVE ResultOK(Emit(E))
BY DEF ResultOK, Emit, Nothing

\* The first address of a block and what is expanded from it are addresses.
LEMMA BlockTyped ==
    ASSUME NEW n \in Networks
    PROVE  expandCIDR(n) \subseteq Addresses /\ expandIPv6Net(n) \subseteq Addresses
<1>1. AddressesOf[n] \in Seq(Addresses)
  BY KindsAssumption
<1>2. \A i \in DOMAIN AddressesOf[n] : AddressesOf[n][i] \in Addresses
  BY <1>1
<1> QED
  BY <1>2 DEF expandCIDR, expandIPv6Net

\* Names and addresses are hosts.
LEMMA HostsTyped == Names \cup Addresses \subseteq Hosts
BY DEF Hosts

\* The resolver answers with addresses.
LEMMA ResolvedTyped ==
    ASSUME world \in Worlds, NEW n PROVE Image(world.resolves, n) \subseteq Addresses
BY WorldsAssumption DEF Image

\* Discovery emits typed events and probes addresses.
LEMMA DiscoveryTyped ==
    ASSUME world \in Worlds, NEW e, e.host \in Scannable
    PROVE  ResultOK(Discovery(e))
<1> DEFINE t == e.host
           seen == importCaptureObservations(t) \cup captureLiveTraffic
<1>1. /\ world.captured \subseteq Names \cup Addresses /\ world.traits \subseteq Names \cup Addresses
      /\ world.passive \subseteq Names
  BY WorldsAssumption
<1>2. IPv4 \subseteq Addresses
  BY DEF Addresses
<1>2a. Names \subseteq Scannable /\ Addresses \subseteq Scannable
  BY DEF Scannable
<1>3. \A f \in seen : EventOK(f)
  <2>1. \A f \in importTCPTraits : EventOK(f)
    BY <1>1, EventsTyped DEF importTCPTraits
  <2>2. \A f \in captureLiveTraffic : EventOK(f)
    BY <1>2, EventsTyped DEF captureLiveTraffic
  <2>3. \A f \in importCaptureObservations(t) : EventOK(f)
    BY <2>1, <1>2a, EventsTyped DEF importCaptureObservations
  <2> QED
    BY <2>2, <2>3
<1>4. CASE ~Allowed(t)
  BY <1>4, NothingTyped DEF Discovery
<1>5. CASE Allowed(t) /\ t \in Networks
  <2>1. Discovery(e) = [Nothing EXCEPT
                          !.contacts = probeLiveHost(expandCIDR(t)),
                          !.events = seen \cup {Host(a) : a \in expandCIDR(t)}]
    BY <1>5 DEF Discovery
  <2>2. expandCIDR(t) \subseteq Addresses /\ expandCIDR(t) \subseteq Hosts
    BY <1>5, BlockTyped, HostsTyped
  <2>3. \A f \in {Host(a) : a \in expandCIDR(t)} : EventOK(f)
    BY <2>2, EventsTyped
  <2> HIDE DEF t, seen
  <2> QED
    BY <2>1, <2>2, <2>3, <1>3 DEF ResultOK, Nothing, probeLiveHost
<1>6. CASE Allowed(t) /\ t \notin Networks /\ t \in Addresses
  <2>1. Discovery(e) = [Nothing EXCEPT
                          !.contacts = probeLiveHost({t}),
                          !.events = seen \cup {Host(t)}]
    BY <1>6 DEF Discovery
  <2>2. t \in Hosts /\ EventOK(Host(t))
    BY <1>6, HostsTyped, EventsTyped
  <2> HIDE DEF t, seen
  <2> QED
    BY <2>1, <2>2, <1>3 DEF ResultOK, Nothing, probeLiveHost
<1>7. CASE Allowed(t) /\ t \notin Networks /\ t \notin Addresses
  <2> DEFINE E == seen \cup {Host(t)} \cup importPassiveHosts(t)
                  \cup (IF On("dns") THEN LookupHost(t) ELSE {})
  <2>1. Discovery(e) = Emit(E)
    BY <1>7 DEF Discovery
  <2>2. EventOK(Host(t))
    BY <1>7, EventsTyped DEF Scannable
  <2>3. \A f \in importPassiveHosts(t) : EventOK(f)
    BY <1>1, <1>2a, EventsTyped DEF importPassiveHosts
  <2>4. \A f \in LookupHost(t) : EventOK(f)
    BY ResolvedTyped, EventsTyped DEF LookupHost
  <2>5. \A f \in E : EventOK(f)
    BY <1>3, <2>2, <2>3, <2>4
  <2> HIDE DEF E
  <2> QED
    BY <2>1, <2>5, EmitTyped
<1> QED
  BY <1>4, <1>5, <1>6, <1>7

\* IPv6Discovery emits addresses.
LEMMA IPv6Typed ==
    ASSUME world \in Worlds, NEW e PROVE ResultOK(IPv6Discovery(e))
<1>1. CASE ~Allowed(e.host)
  BY <1>1, NothingTyped DEF IPv6Discovery
<1>2. CASE Allowed(e.host) /\ e.host \in Networks /\ HostPart(e.host) \in IPv6
  <2> DEFINE E == {Host(a) : a \in expandIPv6Net(e.host)}
  <2>1. IPv6Discovery(e) = Emit(E)
    BY <1>2 DEF IPv6Discovery
  <2>2. \A f \in E : EventOK(f)
    BY <1>2, BlockTyped, EventsTyped
  <2> QED
    BY <2>1, <2>2, EmitTyped
<1>3. CASE Allowed(e.host) /\ ~(e.host \in Networks /\ HostPart(e.host) \in IPv6) /\ e.host \in Names
  <2> DEFINE E == {Host(a) : a \in {b \in Image(world.resolves, e.host) \cap IPv6 : Allowed(b)}}
  <2>1. IPv6Discovery(e) = Emit(E)
    BY <1>3 DEF IPv6Discovery
  <2>2. \A f \in E : EventOK(f)
    BY ResolvedTyped, EventsTyped
  <2> QED
    BY <2>1, <2>2, EmitTyped
<1>4. CASE Allowed(e.host) /\ ~(e.host \in Networks /\ HostPart(e.host) \in IPv6) /\ e.host \notin Names
  BY <1>4, NothingTyped DEF IPv6Discovery
<1> QED
  BY <1>1, <1>2, <1>3, <1>4

\* Old URLs are entry pages.
LEMMA HistoricalTyped ==
    ASSUME world \in Worlds, NEW e PROVE ResultOK(HistoricalURLImporter(e))
<1> DEFINE E == {URL(g, 0) : g \in {f \in world.historical :
                              sameDomain(e.host, f.host) /\ Allowed(f.host)}}
<1>1. HistoricalURLImporter(e) = Emit(E) \/ HistoricalURLImporter(e) = Nothing
  BY DEF HistoricalURLImporter
<1>2. \A g \in world.historical : EventOK(URL(g, 0))
  <2> SUFFICES ASSUME NEW g \in world.historical PROVE EventOK(URL(g, 0))
    OBVIOUS
  <2>1. g \in Pages /\ g.host \in Names \cup Addresses
    BY WorldsAssumption
  <2>2. g \in EntryPages
    BY DEF EntryPages
  <2> QED
    BY <2>1, <2>2, EntryTrail, URLTyped, DepthNat
<1>3. \A f \in E : EventOK(f)
  BY <1>2
<1> HIDE DEF E
<1> QED
  BY <1>1, <1>3, EmitTyped, NothingTyped

\* Storage hosts are hosts.
LEMMA StorageTyped ==
    ASSUME world \in Worlds, NEW h \in Scannable
    PROVE  UNION {DefaultClient(b) : b \in StorageHost[h]} \subseteq Hosts
<1>1. \A b \in StorageHost[h] : b \in Hosts
  BY DEF Hosts
<1> QED
  BY <1>1, ClientTyped

\* The other modules on target.discovered; some run on hosts too.
LEMMA TargetModulesTyped ==
    ASSUME world \in Worlds, NEW e, e.host \in Scannable
    PROVE  /\ ResultOK(ARPDiscovery(e))
           /\ ResultOK(probeCloudTarget(e))
           /\ ResultOK(discoverPublicBuckets(e))
<1>1. ResultOK(ARPDiscovery(e))
  <2>1. e.host \in IPv4 => \A f \in {Host(e.host)} : EventOK(f)
    BY EventsTyped DEF Addresses
  <2> QED
    BY <2>1, EmitTyped, NothingTyped DEF ARPDiscovery
<1>2. ResultOK(probeCloudTarget(e))
  BY StorageTyped, NothingTyped DEF probeCloudTarget, ResultOK, Nothing
<1>3. ResultOK(discoverPublicBuckets(e))
  BY StorageTyped, NothingTyped DEF discoverPublicBuckets, ResultOK, Nothing
<1> QED
  BY <1>1, <1>2, <1>3

\* A scanned web port is an entry page.
LEMMA WebTyped ==
    ASSUME NEW h \in Names \cup Addresses, NEW p \in TCPPorts,
           p \in Image(world.tcp, h) \cup Image(world.filtered, h)
    PROVE  \A f \in webEvents(h, p) : EventOK(f)
<1> DEFINE g == [host |-> h, port |-> p, path |-> "/"]
<1>1. PICK c \in world.tcp \cup world.filtered : c[1] = h /\ c[2] = p
  BY DEF Image
<1>2. g \in EntryPages
  BY <1>1 DEF EntryPages
<1>3. g \in Pages /\ g.host \in Names \cup Addresses
  BY KindsAssumption, HostsTyped DEF Pages, Ports
<1>4. EventOK(URL(g, 0))
  BY <1>2, <1>3, EntryTrail, URLTyped, DepthNat
<1> QED
  BY <1>4 DEF webEvents

\* The scanners emit ports of the host and entry pages.
LEMMA HostModulesTyped ==
    ASSUME NEW e, e.host \in Names \cup Addresses
    PROVE  ResultOK(PortScan(e)) /\ ResultOK(RawTCPScanner(e))
<1> DEFINE h == e.host
<1>1. ASSUME NEW S, S \subseteq TCPPorts \cap (Image(world.tcp, h) \cup Image(world.filtered, h))
      PROVE  \A f \in TCPEvents(h, S) : EventOK(f)
  <2>1. \A p \in S : EventOK(Open(h, p, "tcp")) /\ \A f \in webEvents(h, p) : EventOK(f)
    BY <1>1, EventsTyped, WebTyped DEF Ports
  <2> QED
    BY <2>1 DEF TCPEvents
<1>2. \A f \in scanTCP(h) : EventOK(f)
  BY <1>1 DEF scanTCP
<1>3. \A f \in scanUDP(h) : EventOK(f)
  BY EventsTyped DEF scanUDP, Ports
<1>4. h \in Hosts
  BY HostsTyped
<1>5. ResultOK(PortScan(e))
  BY <1>2, <1>3, <1>4, NothingTyped DEF PortScan, ResultOK, Nothing
<1>6. ResultOK(RawTCPScanner(e))
  BY <1>1, <1>4, NothingTyped DEF RawTCPScanner, ResultOK, Nothing
<1> QED
  BY <1>5, <1>6

\* The modules on port.open and service.fingerprinted.
LEMMA PortModulesTyped ==
    ASSUME world \in Worlds, NEW e, e.host \in Names \cup Addresses, e.port \in Ports \cup {0}
    PROVE  /\ ResultOK(VHostDiscovery(e))
           /\ ResultOK(ServiceFingerprint(e))
           /\ ResultOK(KerberosADFingerprint(e))
           /\ ResultOK(TLSFingerprinter(e))
           /\ ResultOK(GRPCReflectionEnumerator(e))
           /\ ResultOK(SpecializedPort(e))
           /\ \A ports : ResultOK(WebProbe(e, ports))
<1>1. e.host \in Hosts
  BY HostsTyped
<1>2. /\ Image(world.sans, e.host) \subseteq Names
      /\ Image(world.vhosts, e.host) \subseteq Names
  BY WorldsAssumption DEF Image
<1>3. DefaultClient(e.host) \subseteq Hosts /\ scopedHTTPClient(e.host) \subseteq Hosts
  BY <1>1, ClientTyped
<1>4. EventOK(Service(e)) /\ \A n \in Names : EventOK(Domain(n))
  BY EventsTyped
<1>5. ResultOK(VHostDiscovery(e))
  BY <1>1, <1>2, <1>3, <1>4, NothingTyped DEF VHostDiscovery, ResultOK
<1>6. ResultOK(ServiceFingerprint(e))
  BY <1>1, <1>4, NothingTyped DEF ServiceFingerprint, ResultOK, Nothing
<1>7. ResultOK(TLSFingerprinter(e))
  BY <1>1, <1>2, <1>4, NothingTyped DEF TLSFingerprinter, ResultOK, Nothing
<1>8. ResultOK(KerberosADFingerprint(e)) /\ ResultOK(GRPCReflectionEnumerator(e))
  BY <1>1, ContactTyped, NothingTyped DEF KerberosADFingerprint, GRPCReflectionEnumerator
<1>9. ResultOK(SpecializedPort(e))
  BY <1>1, <1>3, NothingTyped DEF SpecializedPort, probeDatabase, ResultOK, Nothing
<1>10. \A ports : ResultOK(WebProbe(e, ports))
  BY <1>3, ContactTyped, NothingTyped DEF WebProbe
<1> QED
  BY <1>5, <1>6, <1>7, <1>8, <1>9, <1>10

\* A link followed, or an entry of robots.txt, extends the trail by one.
LEMMA CrawlTyped ==
    ASSUME world \in Worlds, NEW e, EventOK(e), e.type = "http.url"
    PROVE  \A f \in CrawlEvents(e) : EventOK(f)
<1> DEFINE d == e.depth
<1>1. d \in 0..DeepestCrawl /\ d \in Nat /\ e.host \in Names \cup Addresses
  <2>1. d \in 0..DeepestCrawl
    BY DEF EventOK, EventSet
  <2>2. e.host \in Names \cup Addresses
    BY DEF EventOK
  <2> QED
    BY <2>1, <2>2, DepthNat
<1>2. PICK t \in Trails(d) : t[d] = PageOf(e)
  BY DEF EventOK
<1>3. PageOf(e).host = e.host
  BY DEF PageOf
<1>4. ASSUME d < MaxDepth, NEW g \in Image(world.links, PageOf(e)), g.host = e.host
      PROVE  EventOK(URL(g, d + 1))
  <2>1. <<PageOf(e), g>> \in world.links /\ g \in Pages
    BY <1>4, WorldsAssumption DEF Image
  <2>2. g \in SitePages
    BY <2>1 DEF SitePages
  <2>3. d + 1 \in 0..DeepestCrawl /\ d + 1 <= MaxDepth
    BY <1>1, <1>4, BoundsAssumption DEF DeepestCrawl
  <2>4. LeadsTo(d + 1, t[d], g)
    BY <1>2, <1>3, <1>4, <2>1, <2>3 DEF LeadsTo
  <2>5. \E u \in Trails(d + 1) : u[d + 1] = g
    BY <1>1, <2>2, <2>4, TrailExtends
  <2>6. g.host \in Names \cup Addresses
    BY <1>1, <1>4
  <2> QED
    BY <2>1, <2>3, <2>5, <2>6, URLTyped
<1>5. ASSUME d = 0, NEW g \in Image(world.robots, e.host), g.host = e.host
      PROVE  EventOK(URL(g, 1))
  <2>1. <<e.host, g>> \in world.robots /\ g \in Pages
    BY <1>5, WorldsAssumption DEF Image
  <2>2. g \in SitePages
    BY <2>1 DEF SitePages
  <2>3. LeadsTo(0 + 1, t[0], g)
    BY <1>2, <1>3, <1>5, <2>1 DEF LeadsTo
  <2>4. \E u \in Trails(0 + 1) : u[0 + 1] = g
    BY <1>5, <2>2, <2>3, TrailExtends
  <2>5. \E u \in Trails(1) : u[1] = g
    BY <2>4
  <2>6. g.host \in Names \cup Addresses
    BY <1>1, <1>5
  <2> QED
    BY <2>1, <2>5, <2>6, URLTyped, DepthNat
<1> QED
  BY <1>4, <1>5 DEF CrawlEvents, Follow, fetchRobotsAndSitemap

\* The modules on http.url.
LEMMA URLModulesTyped ==
    ASSUME world \in Worlds, NEW e, EventOK(e), e.type = "http.url"
    PROVE  /\ \A ok : ResultOK(HTTP(e, ok))
           /\ ResultOK(BrowserScreenshotRenderer(e))
           /\ ResultOK(DirectoryAPIEnumerator(e))
           /\ ResultOK(FrontendFrameworkDetector(e))
           /\ ResultOK(WasmAndSPADiscovery(e))
           /\ ResultOK(probeCloudURL(e))
<1>1. e.host \in Hosts
  BY HostsTyped DEF EventOK
<1>2. scopedHTTPClient(e.host) \subseteq Hosts
  BY <1>1, ClientTyped
<1>3. \A ok : ResultOK(HTTP(e, ok))
  BY <1>2, CrawlTyped, NothingTyped DEF HTTP, ResultOK, Nothing
<1>4. ResultOK(Contact({e.host})) /\ ResultOK(Contact(scopedHTTPClient(e.host)))
  BY <1>1, <1>2, ContactTyped
<1> QED
  BY <1>3, <1>4, NothingTyped
     DEF BrowserScreenshotRenderer, DirectoryAPIEnumerator, FrontendFrameworkDetector,
         WasmAndSPADiscovery, probeCloudURL

-----------------------------------------------------------------------------
\* The network does not change during a scan, nor does what follows from it.
LEMMA SameReference ==
    ASSUME world' = world
    PROVE  /\ Crawlable' = Crawlable
           /\ \A f : EventOK(f)' <=> EventOK(f)
<1>1. EntryPages' = EntryPages
  BY DEF EntryPages
<1>2. SitePages' = SitePages
  BY <1>1 DEF SitePages
<1>3. \A i, f, g : LeadsTo(i, f, g)' <=> LeadsTo(i, f, g)
  BY DEF LeadsTo
<1>4. \A n : Trails(n)' = Trails(n)
  BY <1>1, <1>2, <1>3 DEF Trails
<1>5. Crawlable' = Crawlable
  BY <1>4 DEF Crawlable
<1>6. \A f : EventOK(f)' <=> EventOK(f)
  BY <1>4 DEF EventOK
<1> QED
  BY <1>5, <1>6

\* Nor does what an event leads to.
LEMMA SameEmitted ==
    ASSUME world' = world, NEW f
    PROVE  Emitted(f)' = Emitted(f)
<1>1. Discovery(f)' = Discovery(f)
  BY DEF Discovery, importCaptureObservations, importTCPTraits, captureLiveTraffic,
         importPassiveHosts, LookupHost
<1>2. IPv6Discovery(f)' = IPv6Discovery(f)
  BY DEF IPv6Discovery
<1>3. PortScan(f)' = PortScan(f) /\ RawTCPScanner(f)' = RawTCPScanner(f)
  BY DEF PortScan, scanTCP, scanUDP, RawTCPScanner
<1>4. TLSFingerprinter(f)' = TLSFingerprinter(f)
  BY DEF TLSFingerprinter
<1> QED
  BY <1>1, <1>2, <1>3, <1>4 DEF Emitted

\* What an event leads to depends on its key only.
LEMMA EmittedByKey ==
    ASSUME NEW f, NEW g, KeyOf(f) = KeyOf(g)
    PROVE  Emitted(f) = Emitted(g)
<1>1. f.type = g.type /\ f.host = g.host /\ f.port = g.port
  BY DEF KeyOf
<1>2. Discovery(f) = Discovery(g) /\ IPv6Discovery(f) = IPv6Discovery(g)
  BY <1>1 DEF Discovery, IPv6Discovery
<1>3. PortScan(f) = PortScan(g) /\ RawTCPScanner(f) = RawTCPScanner(g)
  BY <1>1 DEF PortScan, RawTCPScanner
<1>4. TLSFingerprinter(f) = TLSFingerprinter(g)
  BY <1>1 DEF TLSFingerprinter
<1> QED
  BY <1>1, <1>2, <1>3, <1>4 DEF Emitted

\* The part of TypeOK about what the modules keep.
BooksTyped ==
    /\ pages \in [Hosts -> 0..MaxPagesPerHost]
    /\ shots \in 0..MaxScreenshotsPerScan
    /\ reserved \subseteq Sources \X Scannable
    /\ fetched \subseteq Pages
    /\ asked \subseteq Sources \X Scannable \X Types
    /\ lost \in 0..MaxLost

\* The chain on e has settled what PageSettled says of e, and keeps it of others.
SettledBy(e) ==
    /\ e.type = "http.url" /\ Allowed(e.host) =>
          PageOf(e) \in fetched' \/ pages'[e.host] = MaxPagesPerHost
    /\ fetched \subseteq fetched'
    /\ \A h : pages[h] = MaxPagesPerHost => pages'[h] = MaxPagesPerHost

\* The end of a chain of typed results keeps the invariant.
LEMMA FinishKeeps ==
    ASSUME PipelineInv, NEW e \in running, NEW results,
           \A r \in results : ResultOK(r), Finish(e, results),
           Emitted(e) \subseteq UNION {r.events : r \in results},
           BooksTyped', fetched' \subseteq Crawlable, SettledBy(e)
    PROVE  PipelineInv'
<1> DEFINE emitted == UNION {r.events : r \in results}
<1>1. /\ accepted' = accepted \cup emitted
      /\ running' = running \ {e}
      /\ pending' = pending \cup (emitted \ accepted)
      /\ done' = done \cup {KeyOf(e)}
      /\ contacted' = contacted \cup UNION {r.contacts : r \in results}
      /\ strayed' = strayed \cup UNION {r.strays : r \in results}
      /\ world' = world
  BY DEF Finish
<1>2. e \in accepted /\ TypeOK /\ world \in Worlds
  BY DEF PipelineInv, TypeOK
<1>3. \A f \in emitted : EventOK(f)
  BY DEF ResultOK
<1>4. \A f \in accepted' : EventOK(f)
  BY <1>1, <1>3 DEF PipelineInv
<1>5. /\ UNION {r.contacts : r \in results} \subseteq Hosts
      /\ UNION {r.strays : r \in results} \subseteq Hosts
  BY DEF ResultOK
<1>6. IsFiniteSet(running') /\ Cardinality(running') <= Concurrency
  <2>1. IsFiniteSet(running) /\ Cardinality(running) <= Concurrency /\ Concurrency \in Nat
    BY BoundsAssumption DEF PipelineInv, TypeOK
  <2>2. IsFiniteSet(running \ {e}) /\ Cardinality(running \ {e}) = Cardinality(running) - 1
    BY <2>1, FS_RemoveElement
  <2>3. Cardinality(running) \in Nat
    BY <2>1, FS_CardinalityType
  <2> QED
    BY <1>1, <2>1, <2>2, <2>3
<1>7. TypeOK'
  <2>1. accepted' \subseteq EventSet
    BY <1>4 DEF EventOK
  <2>2. pending' \subseteq accepted' /\ running' \subseteq accepted'
    BY <1>1, <1>2 DEF TypeOK
  <2>3. done' \subseteq {KeyOf(f) : f \in accepted'}
    BY <1>1, <1>2 DEF TypeOK
  <2>4. contacted' \subseteq Hosts /\ strayed' \subseteq Hosts
    BY <1>1, <1>2, <1>5 DEF TypeOK
  <2> QED
    BY <1>1, <1>2, <1>6, <2>1, <2>2, <2>3, <2>4 DEF TypeOK, BooksTyped
<1>8. \A f \in accepted' : EventOK(f)'
  BY <1>1, <1>4, SameReference
<1>9. CrawlBounded'
  BY <1>1, SameReference DEF CrawlBounded
<1>10. Accounted'
  <2> SUFFICES ASSUME NEW f \in accepted'
               PROVE  f \in pending' \/ f \in running' \/ KeyOf(f) \in done'
    BY DEF Accounted
  <2>1. CASE f \in accepted
    <3>1. f \in pending \/ f \in running \/ KeyOf(f) \in done
      BY <2>1 DEF PipelineInv, Accounted
    <3> QED
      BY <1>1, <3>1
  <2>2. CASE f \notin accepted
    BY <1>1, <2>2
  <2> QED
    BY <2>1, <2>2
<1>11. ASSUME NEW f \in accepted', KeyOf(f) \in done', KeyOf(f) # KeyOf(e)
       PROVE  \E g \in accepted : KeyOf(g) = KeyOf(f) /\ KeyOf(g) \in done
  BY <1>1, <1>2, <1>11 DEF TypeOK
<1>12. EmittedAccepted'
  <2> SUFFICES ASSUME NEW f \in accepted', KeyOf(f) \in done'
               PROVE  Emitted(f) \subseteq accepted'
    BY <1>1, SameEmitted DEF EmittedAccepted
  <2>1. CASE KeyOf(f) = KeyOf(e)
    BY <1>1, <2>1, EmittedByKey
  <2>2. CASE KeyOf(f) # KeyOf(e)
    <3>1. PICK g \in accepted : KeyOf(g) = KeyOf(f) /\ KeyOf(g) \in done
      BY <1>11, <2>2
    <3>2. Emitted(g) \subseteq accepted
      BY <3>1 DEF PipelineInv, EmittedAccepted
    <3> QED
      BY <1>1, <3>1, <3>2, EmittedByKey
  <2> QED
    BY <2>1, <2>2
<1>13. PageSettled'
  <2> SUFFICES ASSUME NEW f \in accepted', f.type = "http.url", KeyOf(f) \in done', Allowed(f.host)
               PROVE  PageOf(f) \in fetched' \/ pages'[f.host] = MaxPagesPerHost
    BY DEF PageSettled
  <2>1. CASE KeyOf(f) = KeyOf(e)
    <3>1. f.type = e.type /\ f.host = e.host /\ PageOf(f) = PageOf(e)
      BY <2>1 DEF KeyOf, PageOf
    <3> QED
      BY <3>1 DEF SettledBy
  <2>2. CASE KeyOf(f) # KeyOf(e)
    <3>1. PICK g \in accepted : KeyOf(g) = KeyOf(f) /\ KeyOf(g) \in done
      BY <1>11, <2>2
    <3>2. f.type = g.type /\ f.host = g.host /\ PageOf(f) = PageOf(g)
      BY <3>1 DEF KeyOf, PageOf
    <3>3. PageOf(g) \in fetched \/ pages[g.host] = MaxPagesPerHost
      BY <3>1, <3>2 DEF PipelineInv, PageSettled
    <3> QED
      BY <3>2, <3>3 DEF SettledBy
  <2> QED
    BY <2>1, <2>2
<1>14. TargetsAccepted'
  BY <1>1 DEF PipelineInv, TargetsAccepted
<1> QED
  BY <1>6, <1>7, <1>8, <1>9, <1>10, <1>12, <1>13, <1>14 DEF PipelineInv

\* A worker takes an event only if there are fewer chains than workers.
LEMMA TakeKeeps ==
    ASSUME PipelineInv, NEW e \in pending, Take(e)
    PROVE  PipelineInv'
<1>1. /\ UNCHANGED <<world, accepted, done, contacted, strayed, pages, shots, reserved,
                     fetched, asked, lost>>
      /\ pending' = pending \ {e}
      /\ running' = IF KeyOf(e) \in done THEN running ELSE running \cup {e}
      /\ Cardinality(running) < Concurrency
  BY DEF Take, modules
<1>2. IsFiniteSet(running') /\ Cardinality(running') <= Concurrency
  <2>1. IsFiniteSet(running) /\ Concurrency \in Nat
    BY BoundsAssumption DEF PipelineInv
  <2>2. Cardinality(running) \in Nat
    BY <2>1, FS_CardinalityType
  <2>3. /\ IsFiniteSet(running \cup {e})
        /\ \/ e \in running /\ running \cup {e} = running
           \/ Cardinality(running \cup {e}) = Cardinality(running) + 1
    BY <2>1, FS_AddElement
  <2>4. Cardinality(running \cup {e}) <= Concurrency
    BY <1>1, <2>1, <2>2, <2>3
  <2> QED
    BY <1>1, <2>1, <2>2, <2>3, <2>4
<1>3. TypeOK'
  BY <1>1, <1>2 DEF PipelineInv, TypeOK
<1>4. (\A f \in accepted : EventOK(f))' /\ CrawlBounded'
  BY <1>1, SameReference DEF PipelineInv, CrawlBounded
<1>5. Accounted'
  BY <1>1 DEF PipelineInv, Accounted
<1>6. EmittedAccepted'
  BY <1>1, SameEmitted DEF PipelineInv, EmittedAccepted
<1>7. PageSettled' /\ TargetsAccepted'
  BY <1>1 DEF PipelineInv, PageSettled, TargetsAccepted
<1> QED
  BY <1>2, <1>3, <1>4, <1>5, <1>6, <1>7 DEF PipelineInv

\* Who is asked is a provider, about a target or host.
LEMMA PassiveTyped ==
    ASSUME PipelineInv, NEW e \in accepted, PassiveIntel(e), UNCHANGED <<pages, shots, fetched, lost>>
    PROVE  BooksTyped' /\ fetched' \subseteq Crawlable
<1>1. PassiveQueries(e) \subseteq Sources
  BY DEF PassiveQueries, reserveTarget, SourcesFor
<1>2. e.host \in Scannable /\ e.type \in Types
  BY DEF PipelineInv, TypeOK, EventSet
<1>3. reserved' \subseteq Sources \X Scannable
  BY <1>1, <1>2 DEF PassiveIntel, PipelineInv, TypeOK
<1>4. asked' \subseteq Sources \X Scannable \X Types
  BY <1>1, <1>2 DEF PassiveIntel, PipelineInv, TypeOK
<1> QED
  BY <1>3, <1>4 DEF BooksTyped, PipelineInv, TypeOK, CrawlBounded

\* A chain that writes no books keeps them.
LEMMA BooksKept ==
    ASSUME PipelineInv, UNCHANGED <<pages, shots, reserved, fetched, asked, lost>>
    PROVE  BooksTyped' /\ fetched' \subseteq Crawlable
BY DEF BooksTyped, PipelineInv, TypeOK, CrawlBounded

-----------------------------------------------------------------------------
\* A page is requested within the budget, at the end of a trail.
LEMMA HandleURLKeeps ==
    ASSUME PipelineInv, NEW e \in running, NEW ok \in BOOLEAN, HandleURL(e, ok)
    PROVE  PipelineInv'
<1> DEFINE fetch == Allowed(e.host) /\ allowPage(e.host)
           results == {HTTP(e, ok), BrowserScreenshotRenderer(e), DirectoryAPIEnumerator(e),
                       FrontendFrameworkDetector(e), WasmAndSPADiscovery(e), probeCloudURL(e)}
<1>1. /\ e.type = "http.url" /\ Finish(e, results)
      /\ pages' = IF fetch THEN [pages EXCEPT ![e.host] = @ + 1] ELSE pages
      /\ fetched' = IF fetch THEN fetched \cup {PageOf(e)} ELSE fetched
      /\ shots' = IF reserve(e) THEN shots + 1 ELSE shots
      /\ lost' = IF ok THEN lost ELSE lost + 1
      /\ ok \/ lost < MaxLost
      /\ UNCHANGED <<reserved, asked>>
  BY DEF HandleURL
<1>2. world \in Worlds /\ e \in accepted /\ EventOK(e)
  BY DEF PipelineInv, TypeOK
<1>3. \A r \in results : ResultOK(r)
  BY <1>1, <1>2, URLModulesTyped
<1>4. Emitted(e) = {}
  BY <1>1 DEF Emitted
<1>5. e.host \in Hosts /\ PageOf(e) \in Pages
  BY <1>1, <1>2, HostsTyped DEF EventOK, PageOf, Pages
<1>6. PageOf(e) \in Crawlable
  <2>1. e.depth \in 0..DeepestCrawl
    BY <1>2 DEF EventOK, EventSet
  <2>2. \E t \in Trails(e.depth) : t[e.depth] = PageOf(e)
    BY <1>1, <1>2 DEF EventOK
  <2> QED
    BY <2>1, <2>2 DEF Crawlable
<1>7. pages \in [Hosts -> 0..MaxPagesPerHost] /\ MaxPagesPerHost \in Nat
  BY BoundsAssumption DEF PipelineInv, TypeOK
<1>8. pages[e.host] \in 0..MaxPagesPerHost
  BY <1>5, <1>7
<1>9. fetch => pages[e.host] < MaxPagesPerHost
  BY DEF allowPage
<1>10. pages' \in [Hosts -> 0..MaxPagesPerHost]
  <2>1. CASE fetch
    <3>1. pages[e.host] + 1 \in 0..MaxPagesPerHost
      BY <1>7, <1>8, <1>9, <2>1
    <3>2. pages' = [pages EXCEPT ![e.host] = pages[e.host] + 1]
      BY <1>1, <2>1
    <3> HIDE DEF fetch
    <3> QED
      BY <1>7, <3>1, <3>2
  <2>2. CASE ~fetch
    BY <1>1, <1>7, <2>2
  <2> QED
    BY <2>1, <2>2
<1>11. shots' \in 0..MaxScreenshotsPerScan
  <2>1. shots \in 0..MaxScreenshotsPerScan /\ MaxScreenshotsPerScan \in Nat
    BY BoundsAssumption DEF PipelineInv, TypeOK
  <2>2. reserve(e) => shots < MaxScreenshotsPerScan
    BY DEF reserve
  <2> QED
    BY <1>1, <2>1, <2>2
<1>12. lost' \in 0..MaxLost
  <2>1. lost \in 0..MaxLost /\ MaxLost \in Nat
    BY BoundsAssumption DEF PipelineInv, TypeOK
  <2> QED
    BY <1>1, <2>1
<1>13. fetched \subseteq Pages /\ fetched \subseteq Crawlable
  BY DEF PipelineInv, TypeOK, CrawlBounded
<1>14. fetched' \subseteq Pages /\ fetched' \subseteq Crawlable
  BY <1>1, <1>5, <1>6, <1>13
<1>15. BooksTyped'
  BY <1>1, <1>10, <1>11, <1>12, <1>14 DEF BooksTyped, PipelineInv, TypeOK
<1>16. SettledBy(e)
  <2>1. CASE fetch
    <3>1. PageOf(e) \in fetched' /\ fetched \subseteq fetched'
      BY <1>1, <2>1
    <3>2. ASSUME NEW h, pages[h] = MaxPagesPerHost PROVE pages'[h] = MaxPagesPerHost
      <4>1. h # e.host
        BY <1>7, <1>8, <1>9, <2>1, <3>2
      <4> QED
        BY <1>1, <1>5, <1>7, <2>1, <3>2, <4>1
    <3> QED
      BY <3>1, <3>2 DEF SettledBy
  <2>2. CASE ~fetch
    <3>1. UNCHANGED <<pages, fetched>>
      BY <1>1, <2>2
    <3>2. Allowed(e.host) => pages[e.host] = MaxPagesPerHost
      BY <1>7, <1>8, <2>2 DEF allowPage
    <3> QED
      BY <3>1, <3>2 DEF SettledBy
  <2> QED
    BY <2>1, <2>2
<1> HIDE DEF results
<1> QED
  BY <1>1, <1>3, <1>4, <1>14, <1>15, <1>16, FinishKeeps

\* Every step keeps the invariant.
LEMMA PipelineStep == PipelineInv /\ [Next]_vars => PipelineInv'
<1> SUFFICES ASSUME PipelineInv, [Next]_vars PROVE PipelineInv'
  OBVIOUS
<1>1. ASSUME NEW e \in running, Handle(e) PROVE PipelineInv'
  <2>1. /\ world \in Worlds /\ e \in accepted /\ EventOK(e)
        /\ e.host \in Scannable /\ e.port \in Ports \cup {0}
    BY DEF PipelineInv, TypeOK, EventOK, EventSet
  <2>2. e.type # "target.discovered" => e.host \in Names \cup Addresses
    BY <2>1 DEF EventOK
  <2>3. e.type # "http.url" /\ UNCHANGED <<pages, fetched>> => SettledBy(e)
    BY DEF SettledBy
  <2>4. CASE HandleTarget(e)
    <3> DEFINE results == {Discovery(e), IPv6Discovery(e), ARPDiscovery(e),
                           HistoricalURLImporter(e), probeCloudTarget(e), discoverPublicBuckets(e)}
    <3>1. \A r \in results : ResultOK(r)
      BY <2>1, DiscoveryTyped, IPv6Typed, HistoricalTyped, TargetModulesTyped
    <3>2. Emitted(e) \subseteq UNION {r.events : r \in results}
      BY <2>4 DEF HandleTarget, Emitted
    <3>3. Finish(e, results)
      BY <2>4 DEF HandleTarget
    <3>4. BooksTyped' /\ fetched' \subseteq Crawlable /\ SettledBy(e)
      BY <2>1, <2>3, <2>4, PassiveTyped DEF HandleTarget
    <3> HIDE DEF results
    <3> QED
      BY <3>1, <3>2, <3>3, <3>4, FinishKeeps
  <2>5. CASE HandleHost(e)
    <3> DEFINE results == {PortScan(e), RawTCPScanner(e), probeCloudTarget(e), discoverPublicBuckets(e)}
    <3>1. \A r \in results : ResultOK(r)
      BY <2>1, <2>2, <2>5, HostModulesTyped, TargetModulesTyped DEF HandleHost
    <3>2. Emitted(e) \subseteq UNION {r.events : r \in results}
      BY <2>5 DEF HandleHost, Emitted
    <3>3. Finish(e, results)
      BY <2>5 DEF HandleHost
    <3>4. BooksTyped' /\ fetched' \subseteq Crawlable /\ SettledBy(e)
      BY <2>1, <2>3, <2>5, PassiveTyped DEF HandleHost
    <3> HIDE DEF results
    <3> QED
      BY <3>1, <3>2, <3>3, <3>4, FinishKeeps
  <2>6. CASE HandlePort(e)
    <3> DEFINE results == {VHostDiscovery(e), ServiceFingerprint(e), KerberosADFingerprint(e),
                  TLSFingerprinter(e), HTTP2Fingerprinter(e), FaviconFingerprinter(e),
                  CMSEnumerator(e), FrameworkEnumerator(e), EnterpriseAppEnumerator(e),
                  SensitiveExposureScanner(e), APIProtocolScanner(e),
                  AuthProtocolScanner(e), SessionJWTScanner(e), AuthPoliciesDetector(e),
                  GRPCReflectionEnumerator(e), SpecializedPort(e)}
    <3>0. e.host \in Names \cup Addresses
      BY <2>2, <2>6 DEF HandlePort
    <3>1. \A r \in results : ResultOK(r)
      BY <2>1, <3>0, PortModulesTyped
         DEF HTTP2Fingerprinter, FaviconFingerprinter, CMSEnumerator,
             FrameworkEnumerator, EnterpriseAppEnumerator, SensitiveExposureScanner,
             APIProtocolScanner, AuthProtocolScanner, SessionJWTScanner, AuthPoliciesDetector
    <3>2. Emitted(e) \subseteq UNION {r.events : r \in results}
      <4>1. Emitted(e) = TLSFingerprinter(e).events /\ TLSFingerprinter(e) \in results
        BY <2>6 DEF HandlePort, Emitted
      <4> HIDE DEF results
      <4> QED
        BY <4>1
    <3>3. Finish(e, results)
      BY <2>6 DEF HandlePort
    <3>4. BooksTyped' /\ fetched' \subseteq Crawlable /\ SettledBy(e)
      BY <2>1, <2>3, <2>6, BooksKept DEF HandlePort
    <3> HIDE DEF results
    <3> QED
      BY <3>1, <3>2, <3>3, <3>4, FinishKeeps
  <2>7. CASE HandleService(e)
    <3> DEFINE results == {SpecializedPort(e)}
    <3>1. \A r \in results : ResultOK(r)
      BY <2>1, <2>2, <2>7, PortModulesTyped DEF HandleService
    <3>2. Emitted(e) = {}
      BY <2>7 DEF HandleService, Emitted
    <3>3. Finish(e, results)
      BY <2>7 DEF HandleService
    <3>4. BooksTyped' /\ fetched' \subseteq Crawlable /\ SettledBy(e)
      BY <2>1, <2>3, <2>7, PassiveTyped DEF HandleService
    <3> HIDE DEF results
    <3> QED
      BY <3>1, <3>2, <3>3, <3>4, FinishKeeps
  <2>8. CASE HandleDomain(e)
    <3> DEFINE results == {IPv6Discovery(e)}
    <3>1. \A r \in results : ResultOK(r)
      BY <2>1, IPv6Typed
    <3>2. Emitted(e) \subseteq UNION {r.events : r \in results}
      BY <2>8 DEF HandleDomain, Emitted
    <3>3. Finish(e, results)
      BY <2>8 DEF HandleDomain
    <3>4. BooksTyped' /\ fetched' \subseteq Crawlable /\ SettledBy(e)
      BY <2>1, <2>3, <2>8, BooksKept DEF HandleDomain
    <3> HIDE DEF results
    <3> QED
      BY <3>1, <3>2, <3>3, <3>4, FinishKeeps
  <2>9. CASE HandleTraits(e)
    <3> DEFINE results == {Nothing}
    <3>1. \A r \in results : ResultOK(r)
      BY NothingTyped
    <3>2. Emitted(e) = {}
      BY <2>9 DEF HandleTraits, Emitted
    <3>3. Finish(e, results)
      BY <2>9 DEF HandleTraits
    <3>4. BooksTyped' /\ fetched' \subseteq Crawlable /\ SettledBy(e)
      BY <2>1, <2>3, <2>9, BooksKept DEF HandleTraits
    <3> HIDE DEF results
    <3> QED
      BY <3>1, <3>2, <3>3, <3>4, FinishKeeps
  <2>10. ASSUME NEW ok \in BOOLEAN, HandleURL(e, ok) PROVE PipelineInv'
    BY <2>10, HandleURLKeeps
  <2> QED
    BY <1>1, <2>4, <2>5, <2>6, <2>7, <2>8, <2>9, <2>10 DEF Handle
<1>2. CASE UNCHANGED vars
  <2>1. UNCHANGED <<world, accepted, pending, running, done, contacted, strayed, pages, shots,
                    reserved, fetched, asked, lost>>
    BY <1>2 DEF vars
  <2>2. TypeOK' /\ IsFiniteSet(running')
    BY <2>1 DEF PipelineInv, TypeOK
  <2>3. (\A f \in accepted : EventOK(f))' /\ CrawlBounded'
    BY <2>1, SameReference DEF PipelineInv, CrawlBounded
  <2>4. EmittedAccepted'
    BY <2>1, SameEmitted DEF PipelineInv, EmittedAccepted
  <2>5. Accounted' /\ PageSettled' /\ TargetsAccepted'
    BY <2>1 DEF PipelineInv, Accounted, PageSettled, TargetsAccepted
  <2> QED
    BY <2>2, <2>3, <2>4, <2>5 DEF PipelineInv
<1> QED
  BY <1>1, <1>2, TakeKeeps DEF Next

\* The configured targets are accepted and wait.
LEMMA PipelineInit == Init => PipelineInv
<1> SUFFICES ASSUME Init PROVE PipelineInv
  OBVIOUS
<1>1. world \in Worlds /\ world.targets \subseteq Scannable
  BY WorldsAssumption DEF Init
<1>2. accepted = {Target(t) : t \in world.targets} /\ pending = accepted /\ running = {} /\ done = {}
  BY DEF Init
<1>3. \A f \in accepted : EventOK(f)
  BY <1>1, <1>2, EventsTyped
<1>4. accepted \subseteq EventSet
  BY <1>3 DEF EventOK
<1>5. IsFiniteSet({}) /\ Cardinality({}) = 0
  BY FS_EmptySet
<1>6. pages \in [Hosts -> 0..MaxPagesPerHost] /\ shots \in 0..MaxScreenshotsPerScan /\ lost \in 0..MaxLost
  BY BoundsAssumption DEF Init
<1>7. TypeOK
  BY <1>1, <1>2, <1>4, <1>5, <1>6, BoundsAssumption DEF Init, TypeOK
<1>8. CrawlBounded /\ Accounted /\ EmittedAccepted /\ PageSettled
  BY <1>2 DEF Init, CrawlBounded, Accounted, EmittedAccepted, PageSettled
<1>9. TargetsAccepted
  BY <1>2 DEF Init, TargetsAccepted
<1> QED
  BY <1>2, <1>3, <1>5, <1>7, <1>8, <1>9 DEF PipelineInv

-----------------------------------------------------------------------------
\* When nothing is left to do, what an accepted event leads to is done too.
LEMMA QuietDone ==
    ASSUME PipelineInv, Quiet, NEW f \in accepted
    PROVE  KeyOf(f) \in done /\ Emitted(f) \subseteq accepted
<1>1. KeyOf(f) \in done
  BY DEF PipelineInv, Accounted, Quiet
<1> QED
  BY <1>1 DEF PipelineInv, EmittedAccepted

\* What Discovery and IPv6Discovery make of an accepted target.
LEMMA TargetLeads ==
    ASSUME PipelineInv, Quiet, NEW t, Target(t) \in accepted
    PROVE  /\ Discovery(Target(t)).events \subseteq accepted
           /\ IPv6Discovery(Target(t)).events \subseteq accepted
           /\ Target(t).host = t
<1>1. Target(t).type = "target.discovered" /\ Target(t).host = t
  BY DEF Target, Ev
<1> QED
  BY <1>1, QuietDone DEF Emitted

\* The events of Discovery on an allowed target.
LEMMA DiscoveryEvents ==
    ASSUME NEW e, Allowed(e.host)
    PROVE  /\ importCaptureObservations(e.host) \subseteq Discovery(e).events
           /\ e.host \in Networks =>
                 \A a \in expandCIDR(e.host) : Host(a) \in Discovery(e).events
           /\ e.host \notin Networks => Host(e.host) \in Discovery(e).events
           /\ e.host \notin Networks \cup Addresses =>
                 /\ importPassiveHosts(e.host) \subseteq Discovery(e).events
                 /\ On("dns") => LookupHost(e.host) \subseteq Discovery(e).events
<1> DEFINE t == e.host
           seen == importCaptureObservations(t) \cup captureLiveTraffic
<1>1. CASE t \in Networks
  <2>1. Discovery(e) = [Nothing EXCEPT
                          !.contacts = probeLiveHost(expandCIDR(t)),
                          !.events = seen \cup {Host(a) : a \in expandCIDR(t)}]
    BY <1>1 DEF Discovery
  <2>2. Discovery(e).events = seen \cup {Host(a) : a \in expandCIDR(t)}
    BY <2>1 DEF Nothing
  <2> QED
    BY <1>1, <2>2
<1>2. CASE t \notin Networks /\ t \in Addresses
  <2>1. Discovery(e) = [Nothing EXCEPT
                          !.contacts = probeLiveHost({t}),
                          !.events = seen \cup {Host(t)}]
    BY <1>2 DEF Discovery
  <2>2. Discovery(e).events = seen \cup {Host(t)}
    BY <2>1 DEF Nothing
  <2> QED
    BY <1>2, <2>2
<1>3. CASE t \notin Networks /\ t \notin Addresses
  <2> DEFINE E == seen \cup {Host(t)} \cup importPassiveHosts(t)
                  \cup (IF On("dns") THEN LookupHost(t) ELSE {})
  <2>1. Discovery(e) = Emit(E)
    BY <1>3 DEF Discovery
  <2>2. Discovery(e).events = E
    BY <2>1 DEF Emit, Nothing
  <2> QED
    BY <1>3, <2>2
<1> QED
  BY <1>1, <1>2, <1>3

\* The addresses of a name that IPv6Discovery emits.
LEMMA IPv6Events ==
    ASSUME NEW e, Allowed(e.host), e.host \in Names
    PROVE  \A a \in IPv6 : <<e.host, a>> \in world.resolves /\ Allowed(a) =>
              Host(a) \in IPv6Discovery(e).events
<1> DEFINE E == {Host(a) : a \in {b \in Image(world.resolves, e.host) \cap IPv6 : Allowed(b)}}
<1>1. e.host \notin Networks
  BY KindsAssumption
<1>2. IPv6Discovery(e) = Emit(E)
  BY <1>1 DEF IPv6Discovery
<1>3. IPv6Discovery(e).events = E
  BY <1>2 DEF Emit, Nothing
<1>4. ASSUME NEW a, <<e.host, a>> \in world.resolves PROVE a \in Image(world.resolves, e.host)
  BY <1>4 DEF Image
<1> QED
  BY <1>3, <1>4

\* The names below the targets are accepted as targets.
LEMMA NamesAccepted ==
    ASSUME PipelineInv, Quiet, NEW n \in KnownNames
    PROVE  n \in Names /\ Allowed(n) /\ Target(n) \in accepted
<1>1. CASE n \in world.targets
  BY <1>1 DEF KnownNames, PipelineInv, TargetsAccepted
<1>2. CASE n \notin world.targets
  <2>1. PICK t \in world.targets : sameDomain(t, n)
    BY <1>2 DEF KnownNames
  <2>2. n \in Names /\ Allowed(n) /\ n \in world.passive \cup world.captured
    BY <1>2 DEF KnownNames
  <2>3. <<n, t>> \in SubdomainOf
    BY <1>2, <2>1 DEF sameDomain
  <2>4. t \in Names /\ t \notin Networks \cup Addresses
    BY <2>3, KindsAssumption
  <2>5. Target(t) \in accepted /\ Allowed(t)
    BY DEF PipelineInv, TargetsAccepted
  <2>6. Target(t).host = t /\ Discovery(Target(t)).events \subseteq accepted
    BY <2>5, TargetLeads
  <2>7. importCaptureObservations(t) \subseteq accepted /\ importPassiveHosts(t) \subseteq accepted
    BY <2>4, <2>5, <2>6, DiscoveryEvents
  <2>8. Target(n) \in importCaptureObservations(t) \cup importPassiveHosts(t)
    BY <2>1, <2>2 DEF importCaptureObservations, importPassiveHosts
  <2> QED
    BY <2>2, <2>7, <2>8
<1> QED
  BY <1>1, <1>2

\* The hosts the targets lead to directly are accepted...
LEMMA DirectAccepted ==
    ASSUME PipelineInv, Quiet, NEW h \in DirectHosts
    PROVE  h \in Names \cup Addresses /\ Allowed(h) /\ Host(h) \in accepted
<1>0. world \in Worlds /\ world.targets \subseteq Scannable /\ world.targets # {}
  BY WorldsAssumption DEF PipelineInv, TypeOK
<1>1. \A t \in world.targets : /\ Allowed(t) /\ Target(t) \in accepted /\ Target(t).host = t
                               /\ Discovery(Target(t)).events \subseteq accepted
                               /\ IPv6Discovery(Target(t)).events \subseteq accepted
  BY TargetLeads DEF PipelineInv, TargetsAccepted
<1>2. CASE h \in world.targets \ Networks
  <2>1. Host(h) \in accepted
    BY <1>1, <1>2, DiscoveryEvents
  <2> QED
    BY <1>0, <1>1, <1>2, <2>1 DEF Scannable
<1>3. \A n \in KnownNames : /\ n \in Names /\ n \notin Networks \cup Addresses /\ Allowed(n)
                            /\ Target(n).host = n
                            /\ Discovery(Target(n)).events \subseteq accepted
                            /\ IPv6Discovery(Target(n)).events \subseteq accepted
  BY NamesAccepted, TargetLeads, KindsAssumption
<1>4. CASE h \in KnownNames
  <2>1. Host(h) \in accepted
    BY <1>3, <1>4, DiscoveryEvents
  <2> QED
    BY <1>3, <1>4, <2>1
<1>5. CASE h \in Addresses /\ Allowed(h) /\ h \in world.captured
  <2>1. PICK t \in world.targets : TRUE
    BY <1>0
  <2>2. importCaptureObservations(t) \subseteq accepted
    BY <1>1, DiscoveryEvents
  <2>3. Host(h) \in importCaptureObservations(t)
    BY <1>5 DEF importCaptureObservations
  <2> QED
    BY <1>5, <2>2, <2>3
<1>6. ASSUME h \in Addresses, Allowed(h), NEW n \in KnownNames, <<n, h>> \in world.resolves,
             On("dns") \/ h \in IPv6
      PROVE  Host(h) \in accepted
  <2>1. CASE On("dns")
    <3>1. Host(h) \in LookupHost(n)
      BY <1>6 DEF LookupHost, Image
    <3>2. LookupHost(n) \subseteq Discovery(Target(n)).events
      BY <1>3, <2>1, DiscoveryEvents
    <3> QED
      BY <1>3, <3>1, <3>2
  <2>2. CASE h \in IPv6
    <3>1. Host(h) \in IPv6Discovery(Target(n)).events
      BY <1>3, <1>6, <2>2, IPv6Events
    <3> QED
      BY <1>3, <3>1
  <2> QED
    BY <1>6, <2>1, <2>2
<1>7. ASSUME NEW n \in world.targets \cap Networks, h \in expandCIDR(n)
      PROVE  Host(h) \in accepted
  BY <1>1, <1>7, DiscoveryEvents
<1> QED
  BY <1>2, <1>4, <1>5, <1>6, <1>7 DEF DirectHosts

\* The scanners' events on an allowed host.
LEMMA ScanEvents ==
    ASSUME NEW e, Allowed(e.host), NEW p \in ScannedPorts(e.host)
    PROVE  {Open(e.host, p, "tcp")} \cup webEvents(e.host, p)
              \subseteq PortScan(e).events \cup RawTCPScanner(e).events
<1> DEFINE h == e.host
<1>1. p \in Image(world.tcp, h) /\ p \in TCPPorts /\ (On("tcp") \/ On("raw"))
  BY DEF ScannedPorts
<1>2. \A S : p \in S => {Open(h, p, "tcp")} \cup webEvents(h, p) \subseteq TCPEvents(h, S)
  BY DEF TCPEvents
<1>3. CASE On("tcp")
  <2>1. scanTCP(h) \subseteq PortScan(e).events
    BY <1>3 DEF PortScan, Nothing
  <2>2. {Open(h, p, "tcp")} \cup webEvents(h, p) \subseteq scanTCP(h)
    BY <1>1, <1>2 DEF scanTCP
  <2> QED
    BY <2>1, <2>2
<1>4. CASE On("raw")
  <2> DEFINE S == TCPPorts \cap (Image(world.tcp, h) \cup Image(world.filtered, h))
  <2>1. RawTCPScanner(e).events = TCPEvents(h, S)
    BY <1>4 DEF RawTCPScanner, Nothing
  <2>2. p \in S
    BY <1>1
  <2> QED
    BY <1>2, <2>1, <2>2
<1> QED
  BY <1>1, <1>3, <1>4

\* The ports and first pages of an accepted host.
LEMMA HostLeads ==
    ASSUME PipelineInv, Quiet, NEW h, Allowed(h), Host(h) \in accepted, NEW p \in ScannedPorts(h)
    PROVE  Open(h, p, "tcp") \in accepted /\ webEvents(h, p) \subseteq accepted
<1>1. Host(h).type = "host.discovered" /\ Host(h).host = h
  BY DEF Host, Ev
<1>2. PortScan(Host(h)).events \cup RawTCPScanner(Host(h)).events \subseteq accepted
  BY <1>1, QuietDone DEF Emitted
<1> QED
  BY <1>1, <1>2, ScanEvents

\* ... and so are those that certificates show.
LEMMA CertificatesAccepted ==
    ASSUME PipelineInv, Quiet, NEW S, \A h \in S : Allowed(h) /\ Host(h) \in accepted,
           NEW a \in CertificateHosts(S)
    PROVE  a \in Addresses /\ Allowed(a) /\ Host(a) \in accepted
<1>1. a \in IPv6 /\ Allowed(a)
  BY DEF CertificateHosts
<1>2. PICK h \in S, n \in Names : /\ <<h, n>> \in world.sans
                                  /\ ScannedPorts(h) \cap {443, 8443} # {}
                                  /\ Allowed(n)
                                  /\ <<n, a>> \in world.resolves
  BY DEF CertificateHosts
<1>3. PICK p \in ScannedPorts(h) : p \in {443, 8443}
  BY <1>2
<1> DEFINE e == Open(h, p, "tcp")
<1>4. e \in accepted
  BY <1>2, <1>3, HostLeads
<1>5. e.type = "port.open" /\ e.host = h /\ e.port = p
  BY DEF Open, Ev
<1>6. TLSFingerprinter(e).events \subseteq accepted
  BY <1>4, <1>5, QuietDone DEF Emitted
<1>7. n \in Image(world.sans, e.host)
  BY <1>2, <1>5 DEF Image
<1>8. Domain(n) \in TLSFingerprinter(e).events
  <2>1. TLSFingerprinter(e) = [Nothing EXCEPT
           !.contacts = {e.host},
           !.events = {Domain(m) : m \in {k \in Image(world.sans, e.host) : Allowed(k)}}]
    BY <1>2, <1>3, <1>5 DEF TLSFingerprinter
  <2>2. TLSFingerprinter(e).events = {Domain(m) : m \in {k \in Image(world.sans, e.host) : Allowed(k)}}
    BY <2>1 DEF Nothing
  <2> QED
    BY <1>2, <1>7, <2>2
<1>9. Domain(n) \in accepted /\ Domain(n).type = "domain.discovered" /\ Domain(n).host = n
  BY <1>6, <1>8 DEF Domain, Ev
<1>10. IPv6Discovery(Domain(n)).events \subseteq accepted
  BY <1>9, QuietDone DEF Emitted
<1>11. Host(a) \in IPv6Discovery(Domain(n)).events
  BY <1>1, <1>2, <1>9, IPv6Events
<1> QED
  BY <1>1, <1>10, <1>11 DEF Addresses

\* At the end every host of the reference has been scanned.
LEMMA PipelineCovers == PipelineInv => Covered
<1> SUFFICES ASSUME PipelineInv, Quiet, NEW h \in KnownHosts
             PROVE  /\ KeyOf(Host(h)) \in done
                    /\ \A p \in ScannedPorts(h) :
                          /\ KeyOf(Open(h, p, "tcp")) \in done
                          /\ webEvents(h, p) # {} =>
                                \/ [host |-> h, port |-> p, path |-> "/"] \in fetched
                                \/ pages[h] = MaxPagesPerHost
  BY DEF Covered
<1> DEFINE S == {g \in Hosts : Allowed(g) /\ Host(g) \in accepted}
<1>1. DirectHosts \subseteq S
  BY DirectAccepted, HostsTyped
<1>2. CertificateHosts(S) \subseteq S
  <2>1. \A g \in S : Allowed(g) /\ Host(g) \in accepted
    OBVIOUS
  <2> HIDE DEF S
  <2>2. \A a \in CertificateHosts(S) : a \in Addresses /\ Allowed(a) /\ Host(a) \in accepted
    BY <2>1, CertificatesAccepted
  <2> QED
    BY <2>2, HostsTyped DEF S
<1>3. S \in SUBSET Hosts
  OBVIOUS
<1>4. h \in S
  <2> HIDE DEF S
  <2> QED
    BY <1>1, <1>2, <1>3 DEF KnownHosts
<1>5. Allowed(h) /\ Host(h) \in accepted
  BY <1>4
<1>6. KeyOf(Host(h)) \in done
  BY <1>5, QuietDone
<1>7. ASSUME NEW p \in ScannedPorts(h)
      PROVE  /\ KeyOf(Open(h, p, "tcp")) \in done
             /\ webEvents(h, p) # {} =>
                   \/ [host |-> h, port |-> p, path |-> "/"] \in fetched
                   \/ pages[h] = MaxPagesPerHost
  <2>1. KeyOf(Open(h, p, "tcp")) \in done
    BY <1>5, HostLeads, QuietDone
  <2>2. ASSUME webEvents(h, p) # {}
        PROVE  \/ [host |-> h, port |-> p, path |-> "/"] \in fetched
               \/ pages[h] = MaxPagesPerHost
    <3> DEFINE g == [host |-> h, port |-> p, path |-> "/"]
               f == URL(g, 0)
    <3>1. f \in webEvents(h, p)
      BY <2>2 DEF webEvents
    <3>2. f \in accepted
      BY <1>5, <3>1, HostLeads
    <3>3. KeyOf(f) \in done
      BY <3>2, QuietDone
    <3>4. f.type = "http.url" /\ f.host = h /\ PageOf(f) = g
      BY DEF URL, Ev, PageOf
    <3> HIDE DEF f
    <3> QED
      BY <1>5, <3>2, <3>3, <3>4 DEF PipelineInv, PageSettled
  <2> QED
    BY <2>1, <2>2
<1> QED
  BY <1>6, <1>7

\* Discovery visits what the network says, no page further than the configured
\* depth and no host in scope less, for every network, scope, set of features,
\* number of workers and order in which they run.
THEOREM DiscoveryTheorem == Spec => []DiscoveryExact
<1>1. PipelineInv => DiscoveryExact
  BY PipelineCovers DEF PipelineInv, DiscoveryExact
<1> QED
  BY <1>1, PipelineInit, PipelineStep, PTL DEF Spec

=============================================================================
