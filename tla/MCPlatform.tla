----------------------------- MODULE MCPlatform -----------------------------
(***************************************************************************)
(* What surrounds the protocols, for TLC.  A behaviour is one of three:    *)
(* the daemon from start-up over reloads to its end ("daemon"), the kernel *)
(* backend and the kernel ("netlink"), or the multicast engines            *)
(* ("multicast").  The other two are at rest.                              *)
(***************************************************************************)
EXTENDS MCDaemon

CONSTANTS Star, RP, Local

VARIABLES part,
          kernel, addrs, ifs, call, told, stale, stage, hist, budget,
          table, querier, adv, feed, proxy, subscribed, tib, rpf, nbrs, installed, mfc, held,
          other, peerGen, up, ghost

-----------------------------------------------------------------------------
(* The kernel backend.                                                     *)
P4 == [family |-> 4, net |-> 1, len |-> 24]
P0 == [family |-> 4, net |-> 0, len |-> 0]
G4 == [family |-> 4, id |-> 1]
G6 == [family |-> 6, id |-> 1]
Hop(g, i, w) == [gateway |-> g, iface |-> i, weight |-> w]
Rt(t, p, hops, proto, metric) ==
  [table |-> t, prefix |-> p, nexthops |-> hops, protocol |-> proto, metric |-> metric]

\* Table 510 has the octet of table 254; the default route has no RTA_DST.
MCRoutes ==
  {Rt(254, P4, <<Hop({G4}, {"e0"}, 1)>>, "bgp", 0),
   Rt(254, P4, <<Hop({G4}, {}, 300), Hop({G6}, {"e0"}, 0)>>, "ospf", 0),
   Rt(510, P4, <<Hop({G6}, {"e0"}, 1)>>, "bgp", 20),
   Rt(510, P4, <<Hop({}, {"e0"}, 1)>>, "ospf", 10),
   Rt(510, P0, <<>>, "static", 0)}

\* Somebody else's routes: one at a place of its own, one between the two metrics the
\* daemon uses for the same prefix.
Theirs(t, p, metric) ==
  [table |-> t, prefix |-> p, priority |-> metric, proto |-> "dhcp", scope |-> "universe",
   rtype |-> "unicast", hop |-> [attrs |-> [gateway |-> {G4}, via |-> {}], oif |-> {}],
   mp |-> <<>>]

MCForeign == {Theirs(254, P0, 0), Theirs(510, P4, 15)}

MCVips == {[ifname |-> "e0", addr |-> 9]}

Kernel == INSTANCE Netlink WITH
    Routes <- MCRoutes, Foreign <- MCForeign, Vips <- MCVips, IfNames <- {"e0"},
    MAX_CALLS <- 3, MAX_LOST <- 4, MAX_LINKS <- 1

-----------------------------------------------------------------------------
(* Multicast: one router with two IPv4 LANs and an IPv6 one, all of them   *)
(* downstream of the proxy, and one uplink.  A behaviour has one scenario,   *)
(* so that each part meets its hard cases without multiplying the others'. *)
MCFamily == [l \in {1, 2, 6} |-> IF l = 6 THEN 6 ELSE 4]

Inputs(report, mld, join, tick, query, move, flow, hello) ==
    [report |-> report, mld |-> mld, join |-> join, tick |-> tick, query |-> query,
     move |-> move, flow |-> flow, hello |-> hello]

Rpf(rp, s, t) == [x \in {"s", "t", RP} |-> IF x = RP THEN rp ELSE IF x = "s" THEN s ELSE t]

Scenario(r, contested, b) == [rpf |-> r, contested |-> contested, budget |-> b]

MCScenarios ==
    {Scenario(Rpf(3, 3, 3), {}, Inputs(2, 0, 0, 4, 0, 0, 1, 0)),       \* members age out
     Scenario(Rpf(Local, 3, 3), {}, Inputs(1, 0, 2, 2, 0, 0, 0, 0)),   \* downstream routers, at the RP
     Scenario(Rpf(Local, 3, 3), {}, Inputs(0, 0, 2, 2, 0, 0, 1, 0)),
     Scenario(Rpf(3, Local, 3), {}, Inputs(1, 0, 1, 2, 0, 0, 0, 2)),   \* and with one upstream
     Scenario(Rpf(3, Local, 3), {}, Inputs(0, 0, 1, 2, 0, 0, 1, 2)),
     Scenario(Rpf(3, 3, 3), {}, Inputs(1, 0, 0, 1, 0, 2, 1, 0)),       \* routes that move
     Scenario(Rpf(3, 3, 3), {}, Inputs(0, 0, 1, 1, 0, 2, 1, 0)),
     Scenario(Rpf(3, 3, 3), {}, Inputs(1, 3, 0, 4, 0, 0, 0, 0)),       \* the two queriers' proxies
     Scenario(Rpf(3, 3, 3), {1, 6}, Inputs(0, 0, 0, 8, 5, 0, 0, 0))}   \* the election

Record(g, rtype, sources) == [group |-> g, rtype |-> rtype, sources |-> sources]
V3(records) == [kind |-> "v3report", records |-> records]
Mld2(records) == [kind |-> "v2mldreport", records |-> records]

MCReports(l) ==
    IF l = 6
    THEN {Mld2(<<Record("g6", "exclude", {})>>), [kind |-> "v1mldreport", group |-> "g6"],
          [kind |-> "done", group |-> "g6"]}
    ELSE {V3(<<Record("g", "include", {"s"})>>), V3(<<Record("g", "include", {"t"})>>),
          V3(<<Record("g", "allow", {"t"})>>), V3(<<Record("g", "block", {"t"})>>),
          V3(<<Record("g", "include", {}), Record("c", "exclude", {}), Record("g", "unknown", {})>>),
          V3(<<Record("g", "include", {"s"}), Record("g", "allow", {"t"})>>),
          V3(<<Record("g", "allow", {"t"}), Record("g", "block", {"t"})>>),
          [kind |-> "v2report", group |-> "g"], [kind |-> "leave", group |-> "g"]}

Mc == INSTANCE Multicast WITH
    ROBUSTNESS <- 2, QUERY_INTERVAL <- 1, RESPONSE_INTERVAL <- 2, LAST_MEMBER_INTERVAL <- 1,
    JOIN_HOLDTIME <- 2, HELLO_HOLDTIME <- 2, INFINITE <- 9, FEED_QUEUE <- 3,
    Lans <- {1, 2, 6}, Downstream <- {1, 2, 6}, Uplinks <- {3}, Sources <- {"s", "t"},
    Groups <- {"g", "g6", "c"}, PimGroups <- {"g"}, ControlGroups <- {"c"},
    Family <- MCFamily, Reports <- MCReports, Scenarios <- MCScenarios

-----------------------------------------------------------------------------

onlyKernel == <<kernel, addrs, ifs, call, told, stale, stage, hist>>
onlyMc     == <<table, querier, adv, feed, proxy, subscribed, tib, rpf, nbrs, installed, mfc, held,
                other, peerGen, up, ghost>>

\* A part that is not this behaviour's rests: the daemon before its first engine.
NoDaemon == Init /\ file = Base /\ left = Budget(1, 1, 0, 1)
NoKernel == /\ kernel = 0 /\ addrs = 0 /\ ifs = 0 /\ call = 0 /\ told = 0 /\ stale = 0
            /\ stage = 0 /\ hist = 0
NoMc     == /\ table = 0 /\ querier = 0 /\ adv = 0 /\ feed = 0 /\ proxy = 0 /\ subscribed = 0
            /\ tib = 0 /\ rpf = 0 /\ nbrs = 0 /\ installed = 0 /\ mfc = 0 /\ held = 0 /\ other = 0
            /\ peerGen = 0 /\ up = 0 /\ ghost = 0

PlatformInit ==
    \/ part = "daemon" /\ Init /\ NoKernel /\ budget = 0 /\ NoMc
    \/ part = "netlink" /\ NoDaemon /\ Kernel!Init /\ NoMc
    \/ part = "multicast" /\ NoDaemon /\ NoKernel /\ Mc!Init

StepDaemon    == part = "daemon" /\ Next /\ UNCHANGED <<part, onlyKernel, budget, onlyMc>>
StepNetlink   == part = "netlink" /\ Kernel!Next /\ UNCHANGED <<part, vars, onlyMc>>
StepMulticast == part = "multicast" /\ Mc!Next /\ UNCHANGED <<part, vars, onlyKernel>>
PlatformNext  == StepDaemon \/ StepNetlink \/ StepMulticast
PlatformSpec  == PlatformInit /\ [][PlatformNext]_<<part, vars, onlyKernel, budget, onlyMc>>

-----------------------------------------------------------------------------
\* What the backend reports of an install and a removal is what the kernel holds, with
\* several metrics, discard and foreign routes at a prefix too; it touches no other place;
\* and after a restart it reads back and clears the unicast routes it had installed.
NetlinkInv == part = "netlink" => Kernel!NetlinkInv

\* A member is served by the trees it asks for, and a LAN is on no tree that no member
\* there asked for; the kernel forwards to the interfaces of the trees and upstream
\* routers hold their Joins, up to expiries not yet reprogrammed and losses not yet
\* refreshed; the proxy's groups are the members'; next to a lower querier we are silent.
McInv ==
    part = "multicast" => /\ Mc!McTypeOK /\ Mc!MembersServed /\ Mc!NoLeakedTree
                          /\ Mc!KernelForwards /\ Mc!UpstreamTold /\ Mc!ProxyAggregates
                          /\ Mc!OneQuerier
=============================================================================
