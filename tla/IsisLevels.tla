----------------------------- MODULE IsisLevels -----------------------------
(* The two levels of IS-IS and what a router in both passes from one to    *)
(* the other: the leaked prefixes of its LSPs, the attached bit, and the   *)
(* routes every router tells the RIB about.                                *)
(*                                                                         *)
(* Isis.tla shows that the routers of a level come to hold one database;   *)
(* here a level is that database.  Inside an area, and in the backbone,    *)
(* every two live routers are one hop apart.                               *)
EXTENDS Integers, FiniteSets, FiniteSetsExt, TLC

CONSTANTS Routers,
          AreaOf, LevelsOf,      \* the area of a router, and the levels it runs
          LeakerSets,            \* the sets of routers that may have l2-to-l1-leaking
          Native,                \* the prefixes a router may originate: <<router, prefix>>
          Default,
          MAX_CHANGES

VARIABLES leakers, alive, native, lsp, att, leaked, dirty, announced, changes

vars == <<leakers, alive, native, lsp, att, leaked, dirty, announced, changes>>

Levels == {1, 2}

IsL1L2(r) == LevelsOf[r] = Levels

(* The routers r shares level l with.                                      *)
Members(r, l) ==
    {q \in alive : l \in LevelsOf[q] \cap LevelsOf[r] /\ (l = 1 => AreaOf[q] = AreaOf[r])}

HaveL2Adjacency(r) == Members(r, 2) \ {r} # {}

-----------------------------------------------------------------------------
Reach(p, cost, via) == [prefix |-> p, cost |-> cost, via |-> via]

(* add_route: the cheapest entries of a prefix, their gateways merged.     *)
AddRoutes(rs) ==
    {LET same == {x \in rs : x.prefix = p}
         low == Min({x.cost : x \in same})
     IN  Reach(p, low, UNION {x.via : x \in {y \in same : y.cost = low}}) : p \in {x.prefix : x \in rs}}

Dist(q, r) == IF q = r THEN 0 ELSE 1

Via(r, q) == IF q = r THEN {} ELSE {q}

(* spf::compute: what every reached router lists in its LSP, the root's    *)
(* own included, and in level 1 a default towards each attached router.    *)
Compute(r, l) ==
    AddRoutes(UNION {{Reach(e.prefix, Dist(r, q) + e.cost, Via(r, q)) : e \in lsp[q][l]} : q \in Members(r, l)}
              \cup {Reach(Default, Dist(r, q), {q}) :
                       q \in {x \in Members(r, l) \ {r} : l = 1 /\ att[x]}})

NativeOf(r, ns) == {n[2] : n \in {x \in ns : x[1] = r}}

Entry(p, cost) == [prefix |-> p, cost |-> cost]

(* build_our_lsp: the router's own prefixes, and the leaked ones.          *)
BuildOurLsp(r, l, ns, lk) == {Entry(p, 1) : p \in NativeOf(r, ns)} \cup lk[l]

(* leak_candidates looks neither at the up/down bit of an entry nor at     *)
(* where it comes from.                                                    *)
LeakCandidates(r, rs) ==
    {Entry(x.prefix, x.cost) : x \in {y \in rs : y.prefix \notin NativeOf(r, native)}}

(* Leaks that are never taken back.                                        *)
NewLeaksKept(r, up, down) ==
    IF ~IsL1L2(r) THEN leaked[r]
    ELSE <<leaked[r][1], leaked[r][2] \cup LeakCandidates(r, up)>>

(* update_leaks.                                                           *)
NewLeaks(r, up, down) ==
    IF ~IsL1L2(r) THEN leaked[r]
    ELSE <<IF r \in leakers THEN LeakCandidates(r, down) ELSE {}, LeakCandidates(r, up)>>

(* The routers whose next SPF sees r's new LSP of level l, r among them:   *)
(* every router runs one at each housekeeping tick.                        *)
Hearing(r, l) == Members(r, l)

(* A route needs a gateway; the lower metric wins across the levels, and   *)
(* level 1 on a tie.                                                       *)
Chosen(up, down) ==
    LET one == {x \in up : x.via # {}}
        two == {x \in down : x.via # {}}
    IN  {x \in one : \A y \in two : y.prefix = x.prefix => x.cost <= y.cost}
            \cup {y \in two : \A x \in one : x.prefix = y.prefix => y.cost < x.cost}

-----------------------------------------------------------------------------
Init ==
    /\ leakers \in LeakerSets
    /\ alive = Routers
    /\ native = {}
    /\ leaked = [r \in Routers |-> <<{}, {}>>]
    /\ lsp = [r \in Routers |-> <<{}, {}>>]
    /\ att = [r \in Routers |-> FALSE]
    /\ dirty = Routers
    /\ announced = [r \in Routers |-> {}]
    /\ changes = 0

Change == changes < MAX_CHANGES /\ changes' = changes + 1

(* run_spf_and_announce.                                                   *)
RunSpfAndAnnounce(r) ==
    LET up == IF 1 \in LevelsOf[r] THEN Compute(r, 1) ELSE {}
        down == IF 2 \in LevelsOf[r] THEN Compute(r, 2) ELSE {}
        lk == NewLeaks(r, up, down)
        redo == {l \in Levels : lk[l] # leaked[r][l]}
    IN  /\ r \in dirty
        /\ leaked' = [leaked EXCEPT ![r] = lk]
        /\ lsp' = [lsp EXCEPT ![r] =
                      [l \in Levels |-> IF l \in redo THEN BuildOurLsp(r, l, native, lk) ELSE @[l]]]
        /\ att' = [att EXCEPT ![r] = IF 1 \in redo THEN HaveL2Adjacency(r) ELSE @]
        /\ announced' = [announced EXCEPT ![r] = Chosen(up, down)]
        /\ dirty' = (dirty \ {r}) \cup UNION {Hearing(r, l) : l \in redo}
        /\ UNCHANGED <<leakers, alive, native, changes>>

(* Every LSP of r is written anew; the attached bit is looked at only then.*)
Reoriginate(r, ns) ==
    /\ lsp' = [lsp EXCEPT ![r] =
                  [l \in Levels |-> IF l \in LevelsOf[r] THEN BuildOurLsp(r, l, ns, leaked[r]) ELSE {}]]
    /\ att' = [att EXCEPT ![r] = IsL1L2(r) /\ HaveL2Adjacency(r)]
    /\ dirty' = dirty \cup UNION {Hearing(r, l) : l \in LevelsOf[r]}

(* A redistributed prefix of a router appears or goes.                     *)
ApplyRedistribution(n) ==
    /\ Change
    /\ n[1] \in alive
    /\ LET ns == IF n \in native THEN native \ {n} ELSE native \cup {n}
       IN  native' = ns /\ Reoriginate(n[1], ns)
    /\ UNCHANGED <<leakers, alive, leaked, announced>>

(* housekeeping, at a refresh: the same LSPs again, with the attached bit  *)
(* of now.                                                                 *)
Refresh(r) ==
    /\ r \in alive
    /\ IsL1L2(r)
    /\ att[r] # HaveL2Adjacency(r)
    /\ Reoriginate(r, native)
    /\ UNCHANGED <<leakers, alive, native, leaked, announced, changes>>

(* A router stops; the neighbours' holding time ends and each writes its   *)
(* LSP of the levels it shared with it anew.                               *)
Crash(r) ==
    /\ Change
    /\ r \in alive
    /\ alive' = alive \ {r}
    /\ LET near == UNION {Members(r, l) : l \in LevelsOf[r]} \ {r}
       IN  /\ att' = [q \in Routers |->
                         IF q \in near /\ q \in Members(r, 1)
                         THEN IsL1L2(q) /\ Members(q, 2) \ {q, r} # {}
                         ELSE att[q]]
           /\ dirty' = (dirty \cup near) \ {r}
    /\ announced' = [announced EXCEPT ![r] = {}]
    /\ UNCHANGED <<leakers, native, lsp, leaked>>

Next ==
    \/ \E r \in Routers : RunSpfAndAnnounce(r) \/ Refresh(r) \/ Crash(r)
    \/ \E n \in Native : ApplyRedistribution(n)

Spec == Init /\ [][Next]_vars

-----------------------------------------------------------------------------
AtRest == dirty = {}

RouteTo(r, p) == {x \in announced[r] : x.prefix = p}

Networks == {n[2] : n \in Native}

Originators(p) == {n[1] : n \in {x \in native : x[2] = p /\ x[1] \in alive}}

(* The prefixes a live router with l2-to-l1-leaking holds in its level-1   *)
(* LSP: it finds them there itself, leaks them up again, and so never      *)
(* takes them back.                                                        *)
LeakedDown == UNION {{e.prefix : e \in leaked[b][1]} : b \in alive}

(* Once every router has processed what it received, a prefix of the       *)
(* system is announced only while a live router originates it or has it    *)
(* leaked down, and no two routers are each other's next hop for it,       *)
(* leaked down or not.                                                     *)
LevelsSound ==
    AtRest => \A r \in alive : \A x \in announced[r] :
        x.prefix \in Networks =>
            /\ Originators(x.prefix) # {} \/ x.prefix \in LeakedDown
            /\ \A q \in x.via : q \in alive /\ \A y \in RouteTo(q, x.prefix) : r \notin y.via

(* Then every backbone router knows every live prefix of every area that   *)
(* still has a border router, and every router of an area those of its own *)
(* area.                                                                   *)
LevelsReach ==
    AtRest => \A r \in alive, p \in Networks : \A o \in Originators(p) :
        (/\ r # o
         /\ r \notin Originators(p)
         /\ \/ o \in Members(r, 1)
            \/ o \in Members(r, 2)
            \/ /\ 2 \in LevelsOf[r]
               /\ \E b \in Members(o, 1) : b \in Members(r, 2))
        => RouteTo(r, p) # {}

(* Then, when the attached bits are those of now, a router in level 1 only *)
(* has a default route exactly when a border router of its area has        *)
(* backbone reach, or some router has a default leaked down.               *)
DefaultFollows ==
    (AtRest /\ \A b \in alive : IsL1L2(b) => att[b] = HaveL2Adjacency(b)) =>
        \A r \in {q \in alive : LevelsOf[q] = {1}} :
            /\ (\E b \in Members(r, 1) : IsL1L2(b) /\ HaveL2Adjacency(b))
                   => RouteTo(r, Default) # {}
            /\ RouteTo(r, Default) # {}
                   => \/ \E b \in Members(r, 1) : IsL1L2(b) /\ HaveL2Adjacency(b)
                      \/ Default \in LeakedDown

LevelsInv == LevelsSound /\ LevelsReach /\ DefaultFollows
=============================================================================
