------------------------------- MODULE MCOspf -------------------------------
(***************************************************************************)
(* Two OSPF routers on a link for TLC.  A behaviour is one of OSPFv2 or of *)
(* OSPFv3; the two engines keep the same kind of state, so their variables *)
(* are shared.                                                             *)
(***************************************************************************)
EXTENDS Ospf3

VARIABLE proto

MCRouters  == {1, 2}
MCLinks    == {"p2p", "broadcast"}
InOrder    == [r \in MCRouters |-> r]
Crossed    == [r \in MCRouters |-> 3 - r]
MCPriority == [r \in MCRouters |-> 1]
MCAsbrs    == [p2p |-> {1}, broadcast |-> {}]

Events(l, s, c, b) == [loss |-> l, stop |-> s, change |-> c, bfd |-> b]
V2Budgets ==
    [p2p |-> {Events(0, 1, 0, 0), Events(1, 0, 1, 0), Events(1, 0, 0, 1)},
     broadcast |-> {Events(1, 0, 0, 0), Events(0, 1, 0, 0), Events(0, 0, 1, 0), Events(0, 0, 0, 1)}]
CrossedBudgets == [broadcast |-> {Events(1, 0, 0, 0), Events(0, 1, 0, 0)}]

Events3(asbrs, l, s, x, c, b) ==
    [asbrs |-> asbrs, loss |-> l, stop |-> s, crash |-> x, refresh |-> c, bfd |-> b]
V3Budgets ==
    [p2p |-> {Events3({}, 0, 1, 0, 0, 0), Events3({1}, 0, 0, 1, 0, 0), Events3({1}, 1, 0, 0, 1, 0),
               Events3({1}, 0, 0, 0, 0, 1)},
     broadcast |-> {Events3({}, 1, 0, 0, 0, 0), Events3({}, 0, 0, 1, 0, 0), Events3({}, 0, 0, 0, 1, 0),
                    Events3({}, 0, 0, 0, 0, 1)}]

V2 == INSTANCE Ospf WITH
    ADDR <- InOrder, HELLO_LOSS <- FALSE, ASBRS <- MCAsbrs, BUDGETS <- V2Budgets

\* Interface addresses in another order than the Router IDs.
X2 == INSTANCE Ospf WITH
    ADDR <- Crossed, HELLO_LOSS <- FALSE, ASBRS <- MCAsbrs, BUDGETS <- CrossedBudgets,
    LINKS <- {"broadcast"}

Init == \/ proto = "v2" /\ V2!OspfInit
        \/ proto = "v2 crossed" /\ X2!OspfInit
        \/ proto = "v3" /\ Ospf3Init

StepV2 == proto = "v2" /\ V2!OspfNext /\ UNCHANGED proto
StepX2 == proto = "v2 crossed" /\ X2!OspfNext /\ UNCHANGED proto
StepV3 == proto = "v3" /\ Ospf3Next /\ UNCHANGED proto
Next   == StepV2 \/ StepX2 \/ StepV3

Spec == Init /\ [][Next]_<<proto, link, rt, left, issued, hurt>>

-----------------------------------------------------------------------------
\* OSPFv2: two neighbours past ExStart are, at rest, fully adjacent with one master unless
\* a DD of their exchange was lost; when Full, whatever was lost, their databases are equal
\* and, unless BFD parted them, so is their DR; an adjacency's lists die with it.
OspfInv ==
    /\ proto = "v2" =>
        V2!OspfTypeOK /\ V2!Adjacent /\ V2!OneMaster /\ V2!Synchronised /\ V2!DrAgreed
    /\ proto = "v2 crossed" =>
        X2!OspfTypeOK /\ X2!Adjacent /\ X2!OneMaster /\ X2!Synchronised /\ X2!DrAgreed

\* OSPFv3: fully adjacent at rest unless a DD was lost, and equal in area-scoped LSAs when
\* Full; the prefix of the link is advertised by its routers or by their DR, and externals
\* end with their configuration.
Ospf3Inv ==
    proto = "v3" => /\ Ospf3TypeOK /\ Adjacent /\ AreaSynchronised
                    /\ PrefixCovered /\ ExternalsOwned

\* Both engines implement LinkStateDb: a held LSA is replaced only by a more
\* recent one, and none is more recent than what its originator has made.
AllKeys == V2!Keys \cup Keys
Db == INSTANCE LinkStateDb WITH
    Routers <- MCRouters, Keys <- AllKeys, Owner <- LAMBDA k : k[2],
    Newer <- V2!MoreRecent, Lapsed <- LAMBDA i : [i EXCEPT !.max = TRUE],
    held <- [r \in MCRouters |-> [k \in AllKeys |->
                IF k \in DOMAIN rt[r].db THEN rt[r].db[k] ELSE None]],
    newest <- [k \in AllKeys |-> IF k \in DOMAIN issued THEN issued[k] ELSE None]
ImplementsDb == Db!DbSpec
=============================================================================
