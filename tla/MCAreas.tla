------------------------------ MODULE MCAreas -------------------------------
(***************************************************************************)
(* IS-IS, and the hierarchies of IS-IS and OSPF, for TLC.  A behaviour is  *)
(* one of four: two IS-IS routers on a link that elect a DIS and keep     *)
(* their databases ("lsdb"); four IS-IS routers in two areas that leak and *)
(* summarise between the levels ("levels"); five OSPF routers in three     *)
(* areas that summarise and translate between them ("areas"), the area     *)
(* with one border router or the one with two not-so-stubby ("nssa").      *)
(***************************************************************************)
EXTENDS Isis

VARIABLES part, alive, dirty, announced, changes,
          leakers, native, lsp, att, leaked,
          ver, attached, externals, sums, sevens, fives, translated

MCRouters == {1, 2}
Link(t, m) == [type |-> t, members |-> m]
MCTopologies == {[l \in {1} |-> Link("lan", {1, 2})], [l \in {1} |-> Link("p2p", {1, 2})]}
MCPriorities == [lan |-> <<{64, 65}, {64}>>, p2p |-> <<{64}, {64}>>]
MCChecksum(nodes, ext) ==
    FoldSet(LAMBDA n, sum : n + 1 + sum, IF ext THEN 1000 ELSE 0, nodes)
Events(l, s, c, b) == [loss |-> l, stop |-> s, change |-> c, bfd |-> b]
MCBudgets ==
    [p2p |-> {Events(0, 1, 0, 0), Events(1, 0, 1, 0), Events(1, 0, 0, 1)},
     lan |-> {Events(0, 1, 0, 0), Events(1, 0, 0, 0), Events(0, 0, 1, 0), Events(0, 0, 0, 1)}]

\* Routers 1 and 2 join level 1 of area 1 to level 2, 3 is inside area 1, 4 is
\* area 2.
MCAreaOf   == <<1, 1, 1, 2>>
MCLevelsOf == <<{1, 2}, {1, 2}, {1}, {1, 2}>>
MCNative   == {<<3, "p">>, <<1, "p">>, <<2, "q">>, <<4, "r">>}

Levels == INSTANCE IsisLevels WITH
    Routers <- 1 .. 4, AreaOf <- MCAreaOf, LevelsOf <- MCLevelsOf, LeakerSets <- {{}, {1, 2}},
    Native <- MCNative, Default <- "default", MAX_CHANGES <- 2

\* Five routers: 1 and 2 border routers between the backbone and area 1, 3 inside
\* area 1, 4 a border router of area 2 and 5 inside area 2.
MCAreasOf == <<{0, 1}, {0, 1}, {1}, {0, 2}, {2}>>
MCAttachments == {<<3, 1, "p", 5>>, <<1, 0, "p", 1>>, <<2, 0, "q", 1>>, <<5, 2, "r", 1>>}
MCExternals == {<<5, "x">>, <<1, "y">>}
MCPrefixes == {"p", "q", "r", "x", "y", "default"}

\* Area 2, with one border router, is not-so-stubby; area 1 is totally stubby.
Areas == INSTANCE OspfAreas WITH
    Routers <- 1 .. 5, Prefixes <- MCPrefixes, AreasOf <- MCAreasOf,
    Stub <- {}, Nssa <- {2}, TotallyStubby <- {1}, TotallyNssa <- {}, NssaDefault <- {2},
    Default <- "default", DEFAULT_COST <- 1, Attachments <- MCAttachments,
    Externals <- MCExternals, MAX_CHANGES <- 2

\* The other way round: two border routers translate out of area 1.
Nssas == INSTANCE OspfAreas WITH
    Routers <- 1 .. 5, Prefixes <- MCPrefixes, AreasOf <- MCAreasOf,
    Stub <- {2}, Nssa <- {1}, TotallyStubby <- {}, TotallyNssa <- {}, NssaDefault <- {1},
    Default <- "default", DEFAULT_COST <- 1, Attachments <- {<<3, 1, "p", 5>>, <<1, 0, "p", 1>>},
    Externals <- {<<3, "x">>, <<1, "y">>}, MAX_CHANGES <- 2

-----------------------------------------------------------------------------
shared    == <<alive, dirty, announced, changes>>
levelVars == <<leakers, native, lsp, att, leaked>>
areaVars  == <<ver, attached, externals, sums, sevens, fives, translated>>

NoIsis   == /\ net = <<>> /\ rt = [r \in Routers |-> Stopped(r, <<>>)] /\ left = 0
            /\ issued = [k \in Keys |-> None]
NoShared == alive = 0 /\ dirty = 0 /\ announced = 0 /\ changes = 0
NoLevels == leakers = 0 /\ native = 0 /\ lsp = 0 /\ att = 0 /\ leaked = 0
NoAreas  == /\ ver = 0 /\ attached = 0 /\ externals = 0 /\ sums = 0 /\ sevens = 0 /\ fives = 0
            /\ translated = 0

Init == \/ part = "lsdb" /\ IsisInit /\ NoShared /\ NoLevels /\ NoAreas
        \/ part = "levels" /\ NoIsis /\ Levels!Init /\ NoAreas
        \/ part = "areas" /\ NoIsis /\ NoLevels /\ Areas!Init
        \/ part = "nssa" /\ NoIsis /\ NoLevels /\ Nssas!Init /\ ver = 2

StepLsdb   == part = "lsdb" /\ IsisNext /\ UNCHANGED <<part, shared, levelVars, areaVars>>
StepLevels == part = "levels" /\ Levels!Next /\ UNCHANGED <<part, isisVars, areaVars>>
StepAreas  == part = "areas" /\ Areas!Next /\ UNCHANGED <<part, isisVars, levelVars>>
StepNssas  == part = "nssa" /\ Nssas!Next /\ UNCHANGED <<part, isisVars, levelVars>>
Next == StepLsdb \/ StepLevels \/ StepAreas \/ StepNssas
Spec == Init /\ [][Next]_<<part, isisVars, shared, levelVars, areaVars>>

-----------------------------------------------------------------------------
\* At rest the two levels of IS-IS and the areas of OSPF tell each other what their
\* routers can reach.  IS-IS: a prefix is announced while it lives, or is leaked down
\* to level 1 (which is never taken back); no two routers are each other's next hop; live
\* prefixes are known in their area and the backbone, and level 1 has a default.
\* OSPF: the same, but that the routers that translate one prefix out of one area may
\* point at each other; intra-area routes come first.
HierarchyInv ==
    /\ part = "levels" => Levels!LevelsInv
    /\ part = "areas" => /\ Areas!AreasTypeOK /\ Areas!LoopFree /\ Areas!NoGhostRoutes
                         /\ Areas!AreasReach /\ Areas!IntraFirst /\ Areas!TranslationFollows
    /\ part = "nssa" => /\ Nssas!AreasTypeOK /\ Nssas!LoopFree /\ Nssas!NoGhostRoutes
                        /\ Nssas!AreasReach /\ Nssas!IntraFirst /\ Nssas!TranslationFollows
=============================================================================
