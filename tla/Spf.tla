-------------------------------- MODULE Spf ---------------------------------
(***************************************************************************)
(* The shortest-path computations of wren-ospf, wren-ospfv3 and wren-isis: *)
(* Dijkstra over a link-state database with the two-way check, next hops   *)
(* inherited along the tree, and the intra-area, inter-area and external   *)
(* routes read off it.  One behaviour is one run over one database: each   *)
(* step relaxes the edges of the vertex settled last and settles the next. *)
(*                                                                         *)
(* A vertex is a number: 10 * r is router r, 10 * d + i the network (or    *)
(* pseudonode) i that router d is DR of.  Next hops are sets of <<router,  *)
(* link>>: an interface address of a neighbour, link 0 a point-to-point.   *)
(***************************************************************************)
EXTENDS Integers, FiniteSets, FiniteSetsExt, TLC

CONSTANTS
    DATABASES,          \* the databases checked (a set of records, see below)
    Root,               \* the router that computes
    LS_INFINITY         \* also the drained metric of IS-IS

VARIABLES
    g,          \* the database: [proto, p2p, att, lists, gone, dark, over,
                \* attached, nu, summaries, externals]
    tree,       \* settled vertex -> [dist, gw]
    cand,       \* candidate vertex -> [dist, gw]
    current     \* the vertex settled last; 0 when the candidates are used up

spfVars == <<g, tree, cand, current>>

(* g.p2p[<<a, b>>] is the metric of a's point-to-point link to b, g.att[<<a, n>>] that of *)
(* its link onto network n, g.lists[n] the routers n's LSA lists; g.gone holds the       *)
(* vertices whose LSA is absent or MaxAge, g.dark the routers whose interface address    *)
(* (v2), Link-LSA (v3) or address TLV (IS-IS) is missing, g.over the overloaded routers, *)
(* g.attached those with the attached bit in a level 1 LSP, g.nu those that mark their  *)
(* prefixes NU.                                                                          *)

-----------------------------------------------------------------------------
(* Database lookups.                                                        *)

RouterVertex(r) == 10 * r
IsNetwork(v) == v % 10 # 0
Id(v) == v \div 10

Alive(v) == v \notin g.gone

\* router_lsa: the root's own LSA is read whatever its age, the others are alive.
RouterLsa(v) ==
    {<<RouterVertex(p[2]), g.p2p[p]>> : p \in {x \in DOMAIN g.p2p : x[1] = Id(v)}}
    \cup {<<p[2], g.att[p]>> : p \in {x \in DOMAIN g.att : x[1] = Id(v)}}

\* network_lsa
NetworkLsa(n) == IF Alive(n) THEN g.lists[n] ELSE {}

RouterLinksToRouter(w, v) == <<Id(w), Id(v)>> \in DOMAIN g.p2p
RouterLinksToNetwork(w, n) == <<Id(w), n>> \in DOMAIN g.att
NetworkListsRouter(n, w) == Id(w) \in NetworkLsa(n)

\* The check for a link back is left out.
V2NeighborsOneWay(v) ==
    IF IsNetwork(v) THEN {<<RouterVertex(w), 0>> : w \in {x \in NetworkLsa(v) : Alive(RouterVertex(x))}}
    ELSE {e \in RouterLsa(v) : Alive(e[1])}

\* OSPFv2 neighbors: the target is alive and links back.
V2Neighbors(v) ==
    IF IsNetwork(v)
    THEN {<<RouterVertex(w), 0>> : w \in {x \in NetworkLsa(v) :
                                    Alive(RouterVertex(x)) /\ RouterLinksToNetwork(RouterVertex(x), v)}}
    ELSE {e \in RouterLsa(v) :
            /\ Alive(e[1])
            /\ IF IsNetwork(e[1]) THEN NetworkListsRouter(e[1], v) ELSE RouterLinksToRouter(e[1], v)}

\* OSPFv3 neighbors: router_links reads no MaxAge Router-LSA, not even the root's.
V3Neighbors(v) == IF ~IsNetwork(v) /\ ~Alive(v) THEN {} ELSE V2Neighbors(v)

\* IS-IS: is_reach of a pseudonode is its members at metric 0.
IsReach(v) ==
    IF ~Alive(v) THEN {}
    ELSE IF IsNetwork(v) THEN {<<RouterVertex(w), 0>> : w \in g.lists[v]} ELSE RouterLsa(v)

HasReachTo(w, v) == \E e \in IsReach(w) : e[1] = v

Overloaded(v) == Id(v) \in g.over /\ ~IsNetwork(v)

IsisNeighbors(v) ==
    IF v # RouterVertex(Root) /\ Overloaded(v) THEN {}
    ELSE {e \in IsReach(v) : e[2] # LS_INFINITY /\ Alive(e[1]) /\ HasReachTo(e[1], v)}

Neighbors(v) ==
    CASE g.proto = "v2" -> V2Neighbors(v)
      [] g.proto = "v3" -> V3Neighbors(v)
      [] g.proto = "isis" -> IsisNeighbors(v)

-----------------------------------------------------------------------------
(* Next hops.                                                               *)

\* reverse_p2p_address, router_iface_on_network: none on an unnumbered interface.
AddressOf(w, link) == IF Id(w) \in g.dark THEN {} ELSE {<<Id(w), link>>}

V2InitialGateways(v, gw, w) ==
    IF gw # {} THEN gw
    ELSE IF v = RouterVertex(Root) /\ ~IsNetwork(w) THEN AddressOf(w, 0)
    ELSE IF IsNetwork(v) /\ ~IsNetwork(w) THEN AddressOf(w, v)
    ELSE {}

\* OSPFv3: the neighbour's Link-LSA over the root's own interface on that link.
V3InitialGateways(v, gw, w) ==
    IF gw = {} /\ IsNetwork(v) /\ <<Root, v>> \notin DOMAIN g.att THEN {}
    ELSE V2InitialGateways(v, gw, w)

\* IS-IS: a router takes every interface address it advertises.
IsisInitialNexthops(gw, w) ==
    IF gw # {} THEN gw
    ELSE IF IsNetwork(w) THEN {}
    ELSE UNION {AddressOf(w, l) : l \in {0} \cup {p[2] : p \in {x \in DOMAIN g.att : x[1] = Id(w)}}}

InitialGateways(v, gw, w) ==
    CASE g.proto = "v2" -> V2InitialGateways(v, gw, w)
      [] g.proto = "v3" -> V3InitialGateways(v, gw, w)
      [] g.proto = "isis" -> IsisInitialNexthops(gw, w)

-----------------------------------------------------------------------------
(* The tree.                                                                *)

\* A longer path adds its next hops.
RelaxLonger(old, v, w, cost) ==
    LET new == [dist |-> tree[v].dist + cost, gw |-> InitialGateways(v, tree[v].gw, w)]
    IN IF w \notin DOMAIN old \/ new.dist < old[w].dist THEN new
       ELSE [old[w] EXCEPT !.gw = @ \cup new.gw]

\* One edge: a shorter path replaces the candidate, an equal one merges its next hops.
Relax(old, v, w, cost) ==
    LET new == [dist |-> tree[v].dist + cost, gw |-> InitialGateways(v, tree[v].gw, w)]
    IN IF w \notin DOMAIN old \/ new.dist < old[w].dist THEN new
       ELSE IF new.dist = old[w].dist THEN [new EXCEPT !.gw = @ \cup old[w].gw]
       ELSE old[w]

RelaxAll(v) ==
    LET edges == {e \in Neighbors(v) : e[1] \notin DOMAIN tree}
    IN FoldSet(LAMBDA e, c : (e[1] :> Relax(c, v, e[1], e[2])) @@ c, cand, edges)

\* The order of settling ties: v2 puts networks first (settle_rank), v3 routers
\* (Router < Network), IS-IS goes by node ID.
SettleRankRouters(v) == IF IsNetwork(v) THEN 1 ELSE 0

SettleRank(v) ==
    CASE g.proto = "v2" -> (IF IsNetwork(v) THEN 0 ELSE 1)
      [] g.proto = "v3" -> (IF IsNetwork(v) THEN 1 ELSE 0)
      [] g.proto = "isis" -> 0

Nearest(c) ==
    CHOOSE v \in DOMAIN c : \A w \in DOMAIN c :
        \/ c[v].dist < c[w].dist
        \/ /\ c[v].dist = c[w].dist
           /\ \/ SettleRank(v) < SettleRank(w)
              \/ SettleRank(v) = SettleRank(w) /\ v <= w

SpfInit ==
    /\ g \in DATABASES
    /\ tree = (RouterVertex(Root) :> [dist |-> 0, gw |-> {}])
    /\ cand = [v \in {} |-> 0]
    /\ current = RouterVertex(Root)

\* run: one turn of the loop.
Settle ==
    /\ current # 0
    /\ LET c == RelaxAll(current)
       IN IF DOMAIN c = {} THEN current' = 0 /\ UNCHANGED <<tree, cand>>
          ELSE LET v == Nearest(c)
               IN /\ current' = v
                  /\ tree' = (v :> c[v]) @@ tree
                  /\ cand' = [w \in DOMAIN c \ {v} |-> c[w]]
    /\ UNCHANGED g

Finished == current = 0 /\ UNCHANGED spfVars

SpfNext == Settle \/ Finished

SpfSpec == SpfInit /\ [][SpfNext]_spfVars

-----------------------------------------------------------------------------
(* Routes.  A route is [cost, gw]; prefixes are strings.                    *)

NoRoutes == [p \in {} |-> 0]

\* The first of two equally cheap advertisers is kept.
AddRouteFirst(map, p, cost, gw) ==
    IF p \notin DOMAIN map \/ cost < map[p].cost THEN (p :> [cost |-> cost, gw |-> gw]) @@ map
    ELSE map

AddRoute(map, p, cost, gw) ==
    IF p \notin DOMAIN map \/ cost < map[p].cost THEN (p :> [cost |-> cost, gw |-> gw]) @@ map
    ELSE IF cost = map[p].cost THEN [map EXCEPT ![p].gw = @ \cup gw]
    ELSE map

\* What harvest reads off a vertex, as <<prefix, its number, metric>>: stub links and the
\* network of a Network-LSA (v2), ...
V2Prefixes(v) ==
    IF IsNetwork(v) THEN {<<"net", v, 0>>} ELSE {<<"stub", Id(v), 1>>, <<"any", 0, Id(v)>>}

\* ... the Intra-Area-Prefix-LSAs that refer to the vertex (v3), ...
V3Prefixes(v) ==
    IF IsNetwork(v) THEN {<<"net", v, 0>>}
    ELSE {<<"stub", Id(v), 1>>} \cup {<<"any", 0, Id(v)>> : r \in {Id(v)} \ g.nu}

\* ... the IP reachability of a router and the attached-bit default of level 1 (IS-IS).
IsisPrefixes(v) ==
    IF IsNetwork(v) THEN {}
    ELSE {<<"stub", Id(v), 1>>, <<"any", 0, Id(v)>>}
         \cup {<<"default", 0, 0>> : r \in g.attached \cap ({Id(v)} \ {Root})}

Prefixes(v) ==
    CASE g.proto = "v2" -> V2Prefixes(v)
      [] g.proto = "v3" -> V3Prefixes(v)
      [] g.proto = "isis" -> IsisPrefixes(v)

Harvest ==
    FoldSet(LAMBDA v, map :
                FoldSet(LAMBDA x, mm : AddRoute(mm, <<x[1], x[2]>>, tree[v].dist + x[3], tree[v].gw),
                        map, Prefixes(v)),
            NoRoutes, DOMAIN tree)

\* inter_area_routes: an ABR's summary, at the cost of reaching the ABR.
V2Summaries ==
    {s \in g.summaries : /\ s.from # Root /\ s.metric < LS_INFINITY /\ ~s.max
                         /\ RouterVertex(s.from) \in DOMAIN tree}

\* OSPFv3 also passes over prefixes marked NU.
V3Summaries == {s \in V2Summaries : s.from \notin g.nu}

InterAreaRoutes ==
    FoldSet(LAMBDA s, map : AddRoute(map, s.prefix, tree[RouterVertex(s.from)].dist + s.metric,
                                     tree[RouterVertex(s.from)].gw),
            NoRoutes, IF g.proto = "v3" THEN V3Summaries ELSE V2Summaries)

UsableExternals ==
    {e \in g.externals :
        /\ e.from # Root /\ e.metric < LS_INFINITY /\ ~e.max /\ ~e.fwd
        /\ g.proto = "v3" => e.from \notin g.nu
        /\ RouterVertex(e.from) \in DOMAIN tree}

ExternalCost(e) == IF e.e2 THEN e.metric ELSE tree[RouterVertex(e.from)].dist + e.metric

External(S) ==
    FoldSet(LAMBDA e, map : AddRoute(map, e.prefix, ExternalCost(e), tree[RouterVertex(e.from)].gw),
            NoRoutes, S)

\* external_routes (v3): both types compete by cost.
V3ExternalRoutes == External(UsableExternals)

\* external_routes_of_type (v2): type 1 wins outright, type 2 fills in.
ExternalRoutesOfType ==
    External({e \in UsableExternals : ~e.e2}) @@ External({e \in UsableExternals : e.e2})

ExternalRoutes == IF g.proto = "v3" THEN V3ExternalRoutes ELSE ExternalRoutesOfType

-----------------------------------------------------------------------------
(* Properties: what the run leaves, against definitions on the graph alone. *)

Vertices == {RouterVertex(a) : a \in {p[1] : p \in DOMAIN g.p2p \cup DOMAIN g.att}}
            \cup DOMAIN g.lists \cup {RouterVertex(Root)}

\* The graph, from the databases: an edge needs both ends to advertise each other.
Usable(v, w) ==
    LET Says(a, b) ==
            IF IsNetwork(a) THEN Id(b) \in g.lists[a]
            ELSE IF IsNetwork(b) THEN <<Id(a), b>> \in DOMAIN g.att
            ELSE <<Id(a), Id(b)>> \in DOMAIN g.p2p
    IN /\ Says(v, w) /\ Says(w, v) /\ {v, w} \cap g.gone = {}
       /\ ~(IsNetwork(v) /\ IsNetwork(w))
       /\ g.proto = "isis" => v = RouterVertex(Root) \/ Id(v) \notin g.over \/ IsNetwork(v)

Cost(v, w) ==
    IF IsNetwork(v) THEN 0
    ELSE IF IsNetwork(w) THEN g.att[<<Id(v), w>>] ELSE g.p2p[<<Id(v), Id(w)>>]

Edges == {e \in Vertices \X Vertices : e[1] # e[2] /\ Usable(e[1], e[2])
            /\ (g.proto = "isis" => Cost(e[1], e[2]) # LS_INFINITY)}

\* The shortest distance between any two vertices, by walks of at most k edges
\* (Bellman-Ford); Far is no walk.
Far == 2 * LS_INFINITY
Table(F(_)) == FoldSet(LAMBDA w, acc : (w :> F(w)) @@ acc, NoRoutes, Vertices)
Distances ==
    LET into == Table(LAMBDA w : {e[1] : e \in {x \in Edges : x[2] = w}})
        From(v) ==
            LET D[k \in 0 .. Cardinality(Vertices) - 1] ==
                    IF k = 0 THEN Table(LAMBDA w : IF w = v THEN 0 ELSE Far)
                    ELSE LET last == D[k - 1]
                         IN Table(LAMBDA w : Min({last[w]} \cup
                                                 {last[u] + Cost(u, w) : u \in into[w]}))
            IN D[Cardinality(Vertices) - 1]
    IN Table(From)

Done == current = 0

\* The tree is the set of reachable vertices, each at its shortest distance: Dijkstra
\* settles nothing too early, whatever the ties and zero metrics.
ShortestPaths(d) ==
    LET root == RouterVertex(Root)
    IN /\ DOMAIN tree = {v \in Vertices : d[root][v] < Far}
       /\ \A v \in DOMAIN tree : tree[v].dist = d[root][v]

\* The first hops towards v: routers next to the root, directly or across a network,
\* from which the rest of the way is shortest.  d holds all distances.
FirstHops(v, d, edges) ==
    LET root == RouterVertex(Root)
        Onward(w) == d[root][w] + d[w][v] = d[root][v]
    IN {<<Id(e[2]), 0>> : e \in {x \in edges :
            x[1] = root /\ ~IsNetwork(x[2]) /\ d[root][x[2]] = Cost(root, x[2]) /\ Onward(x[2])}}
       \cup {<<Id(e[2]), e[1]>> : e \in {x \in edges :
            /\ IsNetwork(x[1]) /\ <<root, x[1]>> \in edges /\ x[2] # root
            /\ d[root][x[2]] = Cost(root, x[1]) /\ Onward(x[2])}}

Routers(hops) == {h[1] : h \in hops}

\* Every next hop leads to a neighbour on a shortest path, over a link to it (IS-IS: a
\* neighbour on a shortest path).  In OSPFv2 and IS-IS a neighbour without an address
\* hands its place to the router behind it; OSPFv3 looks for its own interface first.
NextHopsSound(d, edges) ==
    (g.proto = "v3" \/ g.dark = {}) =>
        \A v \in DOMAIN tree :
            IF g.proto # "isis" THEN tree[v].gw \subseteq FirstHops(v, d, edges)
            ELSE Routers(tree[v].gw) \subseteq Routers(FirstHops(v, d, edges))

\* Every equal-cost first hop is kept ("an equal cost merges next hops"), for each
\* destination but those behind one of these (IS-IS: every first router):
\* - a network both attached to the root and as near through a router, which inherits
\*   the router's next hops and forgets that it is attached;
\* - in OSPFv3 and IS-IS, a router with several nearest predecessors, one a network:
\*   it may be settled before the network that is as near, which OSPFv2's settle_rank
\*   prevents.
EcmpComplete(d, edges) ==
    g.dark = {} =>
        LET root == RouterVertex(Root)
            Mixed(n) == /\ IsNetwork(n) /\ <<root, n>> \in edges /\ d[root][n] = Cost(root, n)
                        /\ FirstHops(n, d, edges) # {}
            Last(w) == {e[1] : e \in {x \in edges :
                                x[2] = w /\ d[root][x[1]] + Cost(x[1], w) = d[root][w]}}
            Tied(w) == /\ ~IsNetwork(w) /\ Cardinality(Last(w)) > 1
                       /\ \E u \in Last(w) : IsNetwork(u)
            Blurred == {x \in DOMAIN tree : Mixed(x) \/ (g.proto # "v2" /\ Tied(x))}
        IN \A v \in DOMAIN tree \ {root} :
            \/ \E x \in Blurred : d[root][x] + d[x][v] = d[root][v]
            \/ IF g.proto # "isis" THEN tree[v].gw = FirstHops(v, d, edges)
               ELSE Routers(tree[v].gw) = Routers(FirstHops(v, d, edges))

\* When the loop ends, the tree is right in all three respects.
TreeCorrect ==
    Done => LET d == Distances
                edges == Edges
            IN ShortestPaths(d) /\ NextHopsSound(d, edges) /\ EcmpComplete(d, edges)

\* What the routing table must contain for each destination: the advertiser that is
\* cheapest to reach, every equally cheap one sharing the load.
RoutesBest ==
    Done =>
        /\ \A v \in DOMAIN tree : \A x \in Prefixes(v) :
            LET p == <<x[1], x[2]>>
                all == UNION {{<<w, y[3]>> : y \in {z \in Prefixes(w) : <<z[1], z[2]>> = p}} :
                                w \in DOMAIN tree}
                best == Min({tree[a[1]].dist + a[2] : a \in all})
            IN Harvest[p] = [cost |-> best,
                             gw |-> UNION {tree[a[1]].gw : a \in
                                        {b \in all : tree[b[1]].dist + b[2] = best}}]
        /\ \A s \in (IF g.proto = "v3" THEN V3Summaries ELSE V2Summaries) :
            /\ InterAreaRoutes[s.prefix].cost <= tree[RouterVertex(s.from)].dist + s.metric
            /\ InterAreaRoutes[s.prefix].cost = tree[RouterVertex(s.from)].dist + s.metric =>
                    tree[RouterVertex(s.from)].gw \subseteq InterAreaRoutes[s.prefix].gw

\* In OSPFv2 a type 1 external route is preferred to every type 2 route ("Type-1 route always
\* preferred over a Type-2 for the same prefix regardless of cost", wren-ospf spf.rs).
Type1First ==
    Done /\ g.proto = "v2" => \A e \in UsableExternals :
        ~e.e2 => ExternalRoutes[e.prefix].cost =
                    Min({ExternalCost(x) : x \in {y \in UsableExternals : y.prefix = e.prefix /\ ~y.e2}})
=============================================================================
