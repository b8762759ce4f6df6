------------------------------ MODULE MCRouter ------------------------------
(***************************************************************************)
(* Small instances of Router for TLC: a handful of routes to one or two    *)
(* prefixes, two or three configurations, short channels.                  *)
(***************************************************************************)
EXTENDS Router

R(table, prefix, protocol, source, preference, metric) ==
    [table |-> table, prefix |-> prefix, protocol |-> protocol, source |-> source,
     preference |-> preference, metric |-> metric, nh |-> 0]

Of(protocol, table, prefix, metric) ==
    R(table, prefix, protocol, 0, default_preference[protocol], metric)

Main == 254

Static1 == Of("static", Main, "p1", 0)
Float1  == [Static1 EXCEPT !.preference = 100, !.nh = 1]  \* a floating static, distance 155: as good as BGP
Ospf1   == Of("ospf", Main, "p1", 10)
Ospf1b  == Of("ospf", Main, "p1", 20)
Bgp1    == Of("bgp", Main, "p1", 0)
Static2 == Of("static", Main, "p2", 0)
Conn1   == Of("connected", Main, "p1", 0)

Accept == [r \in Routes |-> r]
Rejecting(protocol) == [r \in Routes |-> IF r.protocol = protocol THEN NoRoute ELSE r]

Config(statics, import, export) ==
    [statics |-> statics, vrf_imports |-> Accept, vrf_exports |-> Accept,
     imports |-> import, fib_export |-> export]

\* Two prefixes; the second configuration replaces the floating static of p1,
\* adds a static to p2 and brings an import and an export filter.
FibRoutes  == {Static1, Float1, Static2, Ospf1, Bgp1}
FibEngines == {Ospf1, Bgp1}
FibConfigs == {Config(<<Float1>>, Accept, Accept),
               Config(<<Static1, Static2>>, Rejecting("bgp"), Rejecting("ospf"))}

\* The router's two outputs besides the forwarding plane.  Two prefixes, so that
\* a snapshot has several routes; a static that reloads leave alone and a
\* kernel-export filter that they turn on and off; two redistribution targets,
\* BGP through a filter that rewrites one route and rejects another.
OutRoutes  == {Static2, Ospf1, Ospf1b, Conn1}
OutEngines == OutRoutes \ {Static2}
OutConfigs == {Config(<<Static2>>, Accept, Accept),
               Config(<<Static2>>, Accept, Rejecting("ospf"))}
OutSources == [bgp |-> {"static", "ospf"}, ospf |-> {"connected", "static"}]
OutFilters == [bgp |-> [Rejecting("static") EXCEPT ![Ospf1] = Ospf1b], ospf |-> Accept]

NoSources == [t \in {} |-> {}]
NoFilters == [t \in {} |-> Accept]

(***************************************************************************)
(* RibEntry::best scans the candidates once and keeps the first of the     *)
(* most preferred; Router's Best is the candidate no other beats.  The two *)
(* are the same in every candidate list that updates, withdrawals and      *)
(* reloads can leave behind, whatever the order of replacement.            *)
(***************************************************************************)
ScanFindsBest == \A k \in Keys : BestByScan(rib[k]) = Best(rib[k])
============================================================================
