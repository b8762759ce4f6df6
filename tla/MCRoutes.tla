------------------------------ MODULE MCRoutes ------------------------------
(***************************************************************************)
(* How routes are computed, for TLC.  A behaviour is one of: three RIP     *)
(* routers in a line; three Babel routers in a line with two failures, or  *)
(* with one failure or reload, or in a ring with one failure; and one      *)
(* shortest-path computation of OSPFv2, OSPFv3 or IS-IS over a small       *)
(* database.  The state of RIP rests in the others.                        *)
(***************************************************************************)
EXTENDS Rip

VARIABLES part,
          nbr, fds, routes, selected, relayed, redist, retractions, rib, timer, todo, air,
          working, restarted, faults,
          g, tree, cand, current

Nodes    == {"a", "b", "c"}
RipLine  == {{"a", "b"}, {"b", "c"}}
Weak     == {{"a", "b"}}
Nets     == {"p"}
Owned    == [r \in Router |-> IF r = "a" THEN {"p"} ELSE {}]

Line       == {{"a", "b"}, {"a", "c"}}
BabelOwned == [r \in Router |-> IF r = "b" THEN {"p"} ELSE {}]
Rank       == [r \in Router |-> CASE r = "a" -> 1 [] r = "b" -> 2 [] OTHER -> 3]
Knar       == [r \in Router |-> 4 - Rank[r]]

B == INSTANCE Babel WITH
    Link <- Line, OWN <- BabelOwned, REDISTRIBUTES <- {"c"}, MORTAL <- {}, LESS <- Rank,
    REDIST <- 0, COST <- 1, INF <- 5, HELLO_TIMEOUT <- 2, IHU_TIMEOUT <- 1, FAULTS <- 2

R == INSTANCE Babel WITH
    Link <- Line, OWN <- BabelOwned, REDISTRIBUTES <- {"c"}, MORTAL <- {"a", "b"}, LESS <- Knar,
    REDIST <- 0, COST <- 1, INF <- 5, HELLO_TIMEOUT <- 2, IHU_TIMEOUT <- 1, FAULTS <- 1

T == INSTANCE Babel WITH
    Link <- Line \cup {{"b", "c"}}, OWN <- BabelOwned, REDISTRIBUTES <- {}, MORTAL <- {}, LESS <- Rank,
    REDIST <- 0, COST <- 1, INF <- 5, HELLO_TIMEOUT <- 2, IHU_TIMEOUT <- 1, FAULTS <- 1

-----------------------------------------------------------------------------
\* Three routers; network 21 has DR 2 and network 32 has DR 3.  A database is a choice
\* of point-to-point links and attachments with at most one thing wrong.
Pairs == {<<1, 2>>, <<1, 3>>, <<2, 3>>}
DrNets == {21, 32}
P2p == {f \in [Pairs -> 0 .. 2] : \E p \in Pairs : f[p] # 0}
OnNets == [DrNets -> {{}, {1, 2}, {1, 3}, {2, 3}, {1, 2, 3}}]
Swap(p) == <<p[2], p[1]>>

Faults(proto) ==
    {<<"none">>, <<"one way">>, <<"gone", 20>>, <<"gone", 21>>}
    \cup [v2 |-> {}, v3 |-> {<<"dark">>}, isis |-> {<<"over">>, <<"drained">>}][proto]

Database(proto, f, a, x) ==
    LET works == {p \in Pairs : f[p] # 0}
        both == works \cup {Swap(p) : p \in works \ IF x[1] = "one way" THEN {<<1, 2>>} ELSE {}}
        Metric(p) == IF x[1] = "drained" /\ p = <<1, 2>> THEN 100
                     ELSE IF p \in Pairs THEN f[p] ELSE f[Swap(p)]
        at == UNION {{<<r, n>> : r \in a[n]} : n \in DrNets}
    IN [proto |-> proto,
        p2p |-> [p \in both |-> Metric(p)],
        att |-> [p \in at |-> IF p = <<1, 32>> THEN 2 ELSE 1],
        lists |-> [n \in DrNets |-> a[n] \ IF x[1] = "one way" THEN {3} ELSE {}],
        gone |-> IF x[1] = "gone" THEN {x[2]} ELSE {},
        dark |-> IF x[1] = "dark" THEN {2} ELSE {},
        attached |-> IF proto = "isis" THEN {2, 3} ELSE {},
        nu |-> IF x[1] = "dark" THEN {3} ELSE {},
        over |-> IF x[1] = "over" THEN {2} ELSE {},
        summaries |-> {[from |-> r, prefix |-> "q", metric |-> 1, max |-> FALSE] : r \in {2, 3}},
        externals |-> {[from |-> r, prefix |-> "x", metric |-> r, max |-> FALSE, fwd |-> FALSE,
                        e2 |-> r = 2] : r \in {2, 3}}]

MCDatabases ==
    UNION {{Database(proto, f, a, x) : f \in P2p, a \in OnNets, x \in Faults(proto)} :
           proto \in {"v2", "v3", "isis"}}

S == INSTANCE Spf WITH Root <- 1, LS_INFINITY <- 100, DATABASES <- MCDatabases

-----------------------------------------------------------------------------
ripVars   == vars
babelVars == <<nbr, fds, routes, selected, relayed, redist, retractions, rib, timer, todo, air,
               working, restarted, faults>>
spfVars   == <<g, tree, cand, current>>
routesVars == <<part, ripVars, babelVars, spfVars>>

NoBabel == /\ nbr = 0 /\ fds = 0 /\ routes = 0 /\ selected = 0 /\ relayed = 0 /\ redist = 0
           /\ retractions = 0 /\ rib = 0 /\ timer = 0 /\ todo = 0 /\ air = 0 /\ working = {}
           /\ restarted = 0 /\ faults = 0
NoSpf   == g = 0 /\ tree = 0 /\ cand = 0 /\ current = 0

RoutesInit ==
    /\ Init
    /\ \/ part = "rip" /\ NoBabel /\ NoSpf
       \/ part = "babel" /\ B!Init /\ NoSpf
       \/ part = "reload" /\ R!Init /\ NoSpf
       \/ part = "ring" /\ T!Init /\ NoSpf
       \/ part = "spf" /\ NoBabel /\ S!SpfInit

StepRip   == part = "rip" /\ Next /\ UNCHANGED <<part, babelVars, spfVars>>
StepBabel == part = "babel" /\ B!Next /\ UNCHANGED <<part, ripVars, spfVars>>
StepReload == part = "reload" /\ R!Next /\ UNCHANGED <<part, ripVars, spfVars>>
StepRing  == part = "ring" /\ T!Next /\ UNCHANGED <<part, ripVars, spfVars>>
StepSpf   == part = "spf" /\ S!SpfNext /\ UNCHANGED <<part, ripVars, babelVars>>
RoutesNext == StepRip \/ StepBabel \/ StepReload \/ StepRing \/ StepSpf

\* RipFair and BabelFair.
TimePasses == \/ part = "rip" /\ Tick
              \/ part = "babel" /\ B!Tick
              \/ part = "reload" /\ R!Tick
              \/ part = "ring" /\ T!Tick
RoutesSpec ==
    /\ RoutesInit /\ [][RoutesNext]_routesVars
    /\ part # "spf" => []<><<TimePasses>>_routesVars

-----------------------------------------------------------------------------
\* Rip!DistancesFound: undisturbed, every table comes to hold the distances of the
\* network as it is.
RipDistancesFound ==
    <>[][~(part = "rip" /\ Disturbance)]_routesVars => <>[](part = "rip" => AtDistance)

\* The router task has exactly the routes Babel selected, and no two routers that were
\* not restarted forward to each other for what a third originates.
BabelInv ==
    /\ part = "babel" => B!BabelTypeOK /\ B!SelectionTold /\ B!NoLoop
    /\ part = "ring" => T!BabelTypeOK /\ T!SelectionTold /\ T!NoLoop
    /\ part = "reload" => R!BabelTypeOK /\ R!SelectionTold /\ R!NoLoop

\* Babel!SilentNeighbourDropped: nothing stays selected through a link that is
\* down for good.
BabelSilentDropped ==
    \A l \in FRAGILE : <>[](l \notin working) => <>[](part \in {"babel", "reload", "ring"} => B!Unused(l))

\* The computations of OSPFv2, OSPFv3 and IS-IS: the tree is of shortest paths, every
\* next hop is on one, and the routes made of the tree are the best there are.  Every
\* equal next hop is kept but for the destinations EcmpComplete names, fewer in OSPFv2
\* than in the others, and OSPFv2 (not OSPFv3) puts type 1 externals before type 2.
SpfInv ==
    part = "spf" => S!TreeCorrect /\ S!RoutesBest /\ S!Type1First
=============================================================================
