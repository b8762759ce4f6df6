------------------------------- MODULE MCBgp -------------------------------
(***************************************************************************)
(* The parts of BGP behind the session, for TLC.  A behaviour is one of    *)
(* four: the central task between its peers, the router and the RTR feed   *)
(* ("central"); the tables of EVPN, flow specification, SR policies and    *)
(* link state ("services"); the decoder of one message ("update"); the RTR *)
(* client and its cache ("rtr").  Parts that have a variable of the same   *)
(* name share it.                                                          *)
(***************************************************************************)
EXTENDS BgpUpdate

CONSTANTS None, r1, r2

VARIABLES part,
          up, offered, rx, neighbors, sessions, gr_helper, stale, damped, adj, fed, ids, next,
          originated, roa, budget, haunted,
          entries, best, view, evpn_nh, sub, steps,
          log, oldest, cacheSession, truth, toCache, toRouter, connected, roas, session_id,
          serial, crossed

(* The central task: a speaker of AS 65 between eBGP neighbours and an iBGP *)
(* client:                                                                  *)
(*   1  AS 10, our provider, helped through restarts;                       *)
(*   2  AS 10, limited to one prefix;                                       *)
(*   3  AS 65, reflector client, ADD-PATH;                                  *)
(*   4  AS 20; its router id lies between those of 1 and 2, whose MEDs are  *)
(*      in the opposite order, so the three paths compare in a circle.      *)
(* Prefixes 1 and 2 are learned, 3 is redistributed into aggregate 4, and 0 *)
(* is the default route.                                                    *)
Neighbor(as, role, client, gr, limit, ap, dflt, id) ==
    [as |-> as, local_as |-> None, role |-> role, client |-> client, gr |-> gr, max_prefix |-> limit,
     add_path |-> ap, default_originate |-> dflt, id |-> id, ipv6 |-> TRUE, require_policy |-> TRUE]

Neighbors == << Neighbor(10, "customer", FALSE, TRUE, None, FALSE, FALSE, 6),
                Neighbor(10, "none", FALSE, FALSE, 1, FALSE, TRUE, 9),
                Neighbor(65, "none", TRUE, FALSE, None, TRUE, FALSE, 8),
                Neighbor(20, "none", FALSE, FALSE, None, FALSE, FALSE, 7) >>

Self == [as |-> 65, confed |-> None, members |-> {}, id |-> 50, cluster |-> 50, next_hop6 |-> TRUE]

Filter(deny, pref, tags) == [deny |-> deny, pref |-> pref, tags |-> tags]
Imports == [p \in {1, 2, 4} |-> Filter(IF p = 2 THEN {2} ELSE {}, None, {})]
Exports == [p \in {1, 2, 4} |-> Filter({}, None, {})]

Families == [x \in 0..4 |-> IF x = 2 THEN "v6" ELSE "v4"]

Attrs(asns, med, lp, nh, otc) ==
    [origin |-> "igp", as_path |-> IF asns = <<>> THEN <<>> ELSE <<[kind |-> "sequence", asns |-> asns]>>,
     next_hop |-> [family |-> "v4", of |-> nh], local_pref |-> lp, med |-> med, originator_id |-> None,
     cluster_list |-> <<>>, communities |-> {}, otc |-> otc]

Offer(keys, attrs) == [keys |-> keys, attrs |-> attrs, over6 |-> FALSE]

Offers == << { Offer({<<1, 0>>, <<2, 0>>}, Attrs(<<10>>, 5, None, 1, None)),
               Offer({<<1, 0>>}, Attrs(<<10, 65>>, None, None, 1, None)) },
             { Offer({<<1, 0>>, <<2, 0>>}, Attrs(<<10>>, None, None, 2, 10)) },
             { Offer({<<1, 1>>}, Attrs(<<20>>, None, 100, 3, None)),
               Offer({<<1, 2>>}, Attrs(<<20>>, 7, 100, 4, None)) },
             { Offer({<<1, 0>>}, Attrs(<<20>>, None, None, 5, None)) } >>

B(w, u, l, s, e, f, d, t, b, r, a) ==
    [who |-> w, up |-> u, lost |-> l, send |-> s, eor |-> e, refresh |-> f, redist |-> d, rtr |-> t,
     bfd |-> b, remove |-> r, add |-> a]

\*                          up lost send eor refresh redist rtr bfd remove add
Budgets == { B({1, 2, 4},   3, 0,   3,   0,  0,      0,     0,  0,  0,     0),
             B({1, 2, 3},   3, 0,   3,   0,  0,      0,     0,  0,  0,     0),
             B({1},         2, 1,   4,   1,  0,      0,     0,  1,  0,     0),
             B({1, 3},      3, 1,   2,   1,  0,      0,     0,  0,  0,     0),
             B({1, 2},      2, 0,   2,   0,  1,      2,     1,  0,  0,     0),
             B({1, 2},      3, 0,   3,   0,  0,      0,     0,  0,  1,     1),
             B({1, 2},      3, 0,   3,   0,  0,      0,     0,  1,  0,     0) }
Feeds == {{}, {[prefix |-> 2, max |-> {2}, as |-> 11]}}
VrpCovers == {<<2, 2>>}
Covers == {<<4, 3>>}
Networks == [x \in {} |-> {}]
Redists == {<<3, {}>>, <<3, None>>}
Aggregates == {[prefix |-> 4, summary_only |-> TRUE]}

Central == INSTANCE Bgp WITH
    PEER <- Neighbors, SELF <- Self, IMPORT <- Imports, EXPORT <- Exports, FAMILY <- Families,
    COVERS <- Covers, VRP_COVERS <- VrpCovers, MAX_PATHS <- 2, OFFERS <- Offers,
    NETWORKS <- Networks, REDIST <- Redists, AGGREGATES <- Aggregates, DEFAULT <- 0,
    STATIC_ROAS <- {}, FEEDS <- Feeds, REJECT_INVALID <- TRUE, RX <- 2,
    BUDGETS <- Budgets

-----------------------------------------------------------------------------
(* The services.  Three neighbours: 1 is eBGP, 2 a route-reflector client, *)
(* 3 a plain iBGP peer.  NLRI 1 and 2 are one MAC under two route          *)
(* distinguishers.                                                         *)
ServiceFam == <<"mac", "mac", "imet", "prefix", "local", "flow", "sr", "sr", "sr", "ls">>
ServiceKey == <<"A", "A", "F", "X", "L", "R", 1, 1, 2, "T">>
ServiceOffers == <<{1, 2}, {2}, {1}, {3}, {}, {1, 2}, {1}, {2}, {1}, {3}>>
ServiceReflects(p, q) == q # p /\ (p # 3 \/ q # 3)

Mac(lp, v, rt, mob) == [lp |-> lp, vtep |-> v, rt |-> rt, mob |-> mob]
Mob(n, sticky) == [seq |-> n, sticky |-> sticky]
ServicePaths == <<{Mac(1, 1, TRUE, None), Mac(1, 1, TRUE, Mob(1, FALSE)), Mac(1, 1, FALSE, None)},
             {Mac(1, 2, TRUE, None), Mac(1, 2, TRUE, Mob(1, TRUE))},
             {Mac(1, 1, TRUE, None), Mac(1, 1, FALSE, None)},
             {Mac(1, 3, TRUE, None), Mac(1, 2, TRUE, None)},
             {},
             {[lp |-> 1, act |-> "drop"], [lp |-> 2, act |-> "rate"]},
             {[lp |-> 1, pref |-> 1]}, {[lp |-> 1, pref |-> 1], [lp |-> 1, pref |-> 2]},
             {[lp |-> 1, pref |-> 1]},
             {[lp |-> 1]}>>

Services == INSTANCE BgpServices WITH
    Peer <- {1, 2, 3}, NLRI <- 1 .. 10, EVPN <- {1, 2, 3}, FAM <- ServiceFam, KEY <- ServiceKey,
    OFFERS <- ServiceOffers, PATHS <- ServicePaths, REFLECTS <- ServiceReflects, CAP <- 1,
    MAX_STEPS <- 6

Rtr == INSTANCE Rtr WITH
    Roas <- {r1, r2}, MAX_ROAS <- 2, MAX_CHANGES <- 2, MAX_FAULTS <- 2, MAX_TIMERS <- 1

-----------------------------------------------------------------------------
(* The messages.                                                           *)
Attr(t, flags, len, good, cut) == [type |-> t, flags |-> flags, len |-> len, good |-> good, cut |-> cut]
Mp(t, family, n, routes, good) ==
  [type |-> t, flags |-> {"optional"}, len |-> 9, good |-> good, cut |-> FALSE,
   family |-> family, nh_len |-> n, routes |-> routes]

Well(t, len) == Attr(t, CanonicalFlags(t), len, TRUE, FALSE)
V6 == <<2, "unicast">>

\* Every type well formed, and with each thing that can be wrong with it.
Simple ==
  UNION {{Attr(t, f, n, g, c) : f \in {CanonicalFlags(t), {"transitive", "partial"}, Defining,
                                       {"optional"}, Defining \cup {"partial"}},
                                n \in {0, 4, 6, 8}, g \in BOOLEAN, c \in BOOLEAN} :
         t \in {"origin", "as_path", "next_hop", "atomic_aggregate", "aggregator", "communities",
                "med", "prefix_sid", "unknown"}}

Multi ==
  {Mp(t, f, n, r, g) : t \in {"mp_reach", "mp_unreach"},
                       f \in {Ipv4, V6, <<1234, "unicast">>, <<1, "flowspec">>, <<1, "sr_policy">>},
                       n \in {0, 4, 16}, r \in {{}, {1}}, g \in BOOLEAN}

Basic == <<Well("origin", 1), Well("as_path", 6), Well("next_hop", 4)>>
Without(i) == SubSeq(Basic, 1, i - 1) \o SubSeq(Basic, i + 1, 3)

AttrLists ==
  {<<>>, Basic} \cup {Without(i) : i \in 1..3}
  \cup {Append(Basic, a) : a \in Simple \cup Multi}
  \cup {<<a>> : a \in Simple \cup Multi}
  \cup {Without(i) \o <<a>> : i \in 1..3, a \in Multi}
  \cup {Basic \o <<Well("aggregator", n), a>> : n \in {6, 8}, a \in Multi \cup {Well("aggregator", 8)}}

Msg(type, body, four) ==
  [marker |-> TRUE, stated |-> 60, actual |-> 60, type |-> type, body |-> body, four_octet |-> four]

Update(attrs, w, n, ok) == [framed |-> ok, attrs |-> attrs, withdrawn |-> w, nlri |-> n]

Cap(code, len, cut) == [code |-> code, len |-> len, cut |-> cut]

MCMessages ==
  {Msg("update", Update(l, w, n, TRUE), four) :
     l \in AttrLists, w \in {{}, {2}}, n \in {{}, {1}}, four \in BOOLEAN}
  \cup {Msg("update", Update(Basic, {}, {1}, FALSE), TRUE)}
  \cup {[Msg("update", Update(Basic, {}, {1}, TRUE), TRUE) EXCEPT !.stated = n, !.actual = n] :
          n \in {18, 19, 4096, 4097}}
  \cup {Msg("open", [version |-> v, my_as |-> a, identifier |-> i,
                     caps |-> <<Cap("add_path", 4, FALSE), Cap("four_octet_as", n, c),
                                Cap("route_refresh", 0, FALSE)>>], TRUE) :
          v \in {3, 4}, a \in {0, 1, AS_TRANS}, i \in {0, 1}, n \in {2, 4}, c \in BOOLEAN}
  \cup {Msg("keepalive", b, TRUE) : b \in {{}, {1}}}

Seg(k, asns) == [kind |-> k, asns |-> asns]
MCPaths ==
  {<<>>, <<Seg("sequence", <<70000>>)>>, <<Seg("sequence", <<1, 70000, 3>>)>>,
   <<Seg("sequence", <<1>>), Seg("set", <<70000, 2>>), Seg("sequence", <<80000>>)>>,
   <<Seg("confed_sequence", <<9>>), Seg("sequence", <<70000>>)>>,
   <<Seg("set", <<70000>>)>>}

-----------------------------------------------------------------------------
onlyCentral  == <<up, offered, rx, neighbors, gr_helper, stale, damped, adj, ids, next, roa, haunted>>
onlyServices == <<entries, best, view, evpn_nh, sub, steps>>
onlyRtr      == <<log, oldest, cacheSession, truth, toCache, toRouter, connected, roas,
                  session_id, serial, crossed>>
bgpVars      == <<part, onlyCentral, onlyServices, onlyRtr, sessions, originated, fed, budget, vars>>

NoCentral  == /\ up = 0 /\ offered = 0 /\ rx = 0 /\ neighbors = 0 /\ gr_helper = 0 /\ stale = 0
              /\ damped = 0 /\ adj = 0 /\ ids = 0 /\ next = 0 /\ roa = 0 /\ haunted = 0
NoServices == entries = 0 /\ best = 0 /\ view = 0 /\ evpn_nh = 0 /\ sub = 0 /\ steps = 0
NoRtr      == /\ log = 0 /\ oldest = 0 /\ cacheSession = 0 /\ truth = 0 /\ toCache = 0
              /\ toRouter = 0 /\ connected = 0 /\ roas = 0 /\ session_id = 0 /\ serial = 0
              /\ crossed = 0

BgpInit ==
    \/ /\ part = "central" /\ Central!BgpInit /\ NoServices /\ NoRtr /\ inbox = 0 /\ out = 0
    \/ /\ part = "services" /\ NoCentral /\ Services!Init /\ NoRtr
       /\ held = 0 /\ inbox = 0 /\ fed = 0 /\ budget = 0
    \/ /\ part = "update" /\ NoCentral /\ NoServices /\ NoRtr /\ Init
       /\ sessions = 0 /\ originated = 0 /\ fed = 0 /\ budget = 0
    \/ /\ part = "rtr" /\ NoCentral /\ NoServices /\ Rtr!Init
       /\ sessions = 0 /\ originated = 0 /\ held = 0 /\ inbox = 0 /\ out = 0

StepCentral  == /\ part = "central" /\ Central!BgpNext
                /\ UNCHANGED <<part, onlyServices, onlyRtr, inbox, out>>
StepServices == /\ part = "services" /\ Services!Next
                /\ UNCHANGED <<part, onlyCentral, onlyRtr, held, inbox, fed, budget>>
StepUpdate   == /\ part = "update" /\ Next
                /\ UNCHANGED <<part, onlyCentral, onlyServices, onlyRtr, sessions, originated, fed,
                              budget>>
StepRtr      == /\ part = "rtr" /\ Rtr!Next
                /\ UNCHANGED <<part, onlyCentral, onlyServices, sessions, originated, vars>>
BgpNext == StepCentral \/ StepServices \/ StepUpdate \/ StepRtr
BgpSpec == BgpInit /\ [][BgpNext]_bgpVars

-----------------------------------------------------------------------------
\* The Adj-RIB-In follows what the peers last said, the peers and the router
\* follow the selection, and the selection does not depend on arrival order.
BgpInv ==
    part = "central" => /\ Central!BgpTypeOK /\ Central!RoutesOwned /\ Central!AdjRibInCurrent
                        /\ Central!PeersFollowBest /\ Central!RouterFollowsBest
                        /\ Central!AddPathFresh
                        /\ Central!SelectionOrderFree

\* The services' views, reflections and monitors follow the routes behind them.
ServicesInv ==
    part = "services" => /\ Services!ServicesTypeOK /\ Services!ViewBacked
                         /\ Services!MonitorMirrors /\ Services!SoleOfferReflected
                         /\ Services!PolicyPreferred

\* A broken UPDATE withdraws what it names, and only harmless faults are ignored.
UpdatesSound == part = "update" => UpdateInv

\* What the RTR client feeds to BGP is a set the cache has held, and the current
\* one when nothing is under way.
RtrInv == part = "rtr" => Rtr!RtrInv
=============================================================================
