-------------------------- MODULE MCModulePipeline --------------------------
(***************************************************************************)
(* Instances of ModulePipeline for TLC.  The scope is the domain           *)
(* "example", the lower half of an IPv4 block, one more address of it and  *)
(* one of the two addresses of an IPv6 block.  Each world is one scan.     *)
(***************************************************************************)
EXTENDS ModulePipeline

MCNames == {"example", "app.example", "other"}
MCIPv4 == {"v0", "v1", "v2", "v3"}
MCIPv6 == {"s1", "s2"}
MCNetworks == {"net4", "half", "net6"}
MCAddressesOf == [net4 |-> <<"v0", "v1", "v2", "v3">>,
                  half |-> <<"v0", "v1">>,
                  net6 |-> <<"s1", "s2">>]
MCSubdomainOf == {<<"app.example", "example">>}
MCAllowedTargets == {"example", "half", "v2", "s1"}
MCPorts == {53, 80, 443, 9200}
MCPaths == {"/", "/a", "/b", "/c"}
MCFeatures == {"dns", "live_probes", "live_capture", "historical", "tcp", "udp", "raw",
               "grpc", "crawler", "screenshots", "directory", "cloud", "database",
               "container"}
MCStorageHost == [t \in MCNames \cup MCIPv4 \cup MCIPv6 \cup MCNetworks |->
                     IF t \in MCNames THEN {"storage"} ELSE {}]

Page(h, p, path) == [host |-> h, port |-> p, path |-> path]

Empty == [targets |-> {}, redirect |-> {}, resolves |-> {}, tcp |-> {}, udp |-> {},
          filtered |-> {}, named |-> {}, sans |-> {}, vhosts |-> {},
          links |-> {}, robots |-> {}, passive |-> {}, captured |-> {}, wire |-> {},
          traits |-> {}, historical |-> {}, neighbours |-> {}]

\* A web site with links in a circle, a page far from the first one, an old
\* URL, a link and a redirect out of scope.
Site ==
    [Empty EXCEPT
       !.targets = {"example"},
       !.tcp = {<<"example", 80>>, <<"example", 443>>},
       !.redirect = {<<"example", "app.example">>, <<"app.example", "other">>,
                     <<"other", "example">>},
       !.links = {<<Page("example", 80, "/"), Page("example", 80, "/a")>>,
                  <<Page("example", 80, "/a"), Page("example", 80, "/b")>>,
                  <<Page("example", 80, "/b"), Page("example", 80, "/c")>>,
                  <<Page("example", 80, "/a"), Page("example", 80, "/")>>,
                  <<Page("example", 443, "/"), Page("example", 443, "/a")>>,
                  <<Page("example", 80, "/a"), Page("other", 80, "/")>>},
       !.robots = {<<"example", Page("example", 80, "/a")>>,
                   <<"example", Page("other", 80, "/a")>>},
       !.historical = {Page("app.example", 80, "/a"), Page("other", 80, "/a")},
       !.passive = {"example", "other"}]

\* An IPv4 block half in scope; a certificate names a host that has an
\* address in scope and one out of it.
Block ==
    [Empty EXCEPT
       !.targets = {"net4"},
       !.tcp = {<<"v1", 443>>, <<"v3", 80>>, <<"s1", 443>>, <<"s1", 9200>>},
       !.sans = {<<"v1", "app.example">>, <<"v1", "other">>, <<"s1", "app.example">>},
       !.resolves = {<<"app.example", "s1">>, <<"app.example", "s2">>, <<"other", "v3">>},
       !.named = {<<443, "elasticsearch">>, <<9200, "http">>}]

\* An IPv6 block half in scope.
Block6 ==
    [Empty EXCEPT
       !.targets = {"net6"},
       !.tcp = {<<"s1", 80>>, <<"s2", 80>>},
       !.redirect = {<<"s1", "s2">>},
       !.vhosts = {<<"s1", "app.example">>},
       !.links = {<<Page("s1", 80, "/"), Page("s1", 443, "/a")>>}]

\* Names that lead to each other and to addresses, one of them out of scope.
Zone ==
    [Empty EXCEPT
       !.targets = {"example"},
       !.passive = {"app.example", "other"},
       !.captured = {"app.example", "other"},
       !.resolves = {<<"example", "v1">>, <<"example", "v3">>, <<"app.example", "s1">>,
                     <<"app.example", "v1">>},
       !.tcp = {<<"v1", 443>>, <<"s1", 53>>},
       !.redirect = {<<"v1", "other">>},
       !.sans = {<<"v1", "app.example">>, <<"v1", "example">>}]

\* Captured traffic; one port open for both protocols; one port filtered.
Tap ==
    [Empty EXCEPT
       !.targets = {"v1"},
       !.captured = {"v2", "v3", "app.example"},
       !.wire = {"v1", "v3"},
       !.traits = {"v2", "v3"},
       !.neighbours = {"v1", "v2"},
       !.tcp = {<<"v2", 53>>}, !.udp = {<<"v2", 53>>},
       !.filtered = {<<"v2", 80>>},
       !.vhosts = {<<"v2", "app.example">>},
       !.redirect = {<<"v2", "other">>},
       !.named = {<<53, "dns">>}]

MCWorlds == {Site, Block, Block6, Zone, Tap}
=============================================================================
