------------------------------ MODULE OspfAreas ------------------------------
(* Routing between OSPF areas: what an area border router writes into the  *)
(* areas it joins (Summary-LSAs, the defaults of stub areas, translated    *)
(* type-7 LSAs), and which routes every router then tells the RIB about.   *)
(* ver is 2 for ospf.rs and 3 for ospf3.rs, which knows no stub areas.     *)
(*                                                                         *)
(* Ospf.tla and Ospf3.tla show that the routers of an area come to hold    *)
(* one database; here an area is that database, and a router that has not  *)
(* yet processed a change of it is in dirty.  Inside an area every two     *)
(* live routers are one hop apart; a router that crashed is unreachable,   *)
(* and its LSAs stay.                                                      *)
EXTENDS Integers, FiniteSets, FiniteSetsExt, TLC

CONSTANTS Routers, Prefixes,
          AreasOf,               \* the areas of a router's interfaces
          Stub, Nssa, TotallyStubby, TotallyNssa, NssaDefault,
          Default,               \* the prefix 0.0.0.0/0
          DEFAULT_COST,
          Attachments,           \* the networks that may come and go: <<router, area, prefix, cost>>
          Externals,             \* what may be redistributed: <<router, prefix>>
          MAX_CHANGES

VARIABLES ver, alive, attached, externals, sums, sevens, fives, translated, dirty, announced, changes

vars == <<ver, alive, attached, externals, sums, sevens, fives, translated, dirty, announced, changes>>

Backbone == 0

IsAbr(r) == Cardinality(AreasOf[r]) > 1

NoSummary(a) == a \in TotallyStubby \cup TotallyNssa
IsStub(a) == a \in Stub \cup TotallyStubby
IsNssa(a) == a \in Nssa \cup TotallyNssa
WantsNssaDefault(a) == a \in TotallyNssa \cup NssaDefault
NoExternals(a) == IsStub(a) \/ IsNssa(a)

Members(a) == {r \in alive : a \in AreasOf[r]}

Dist(q, r) == IF q = r THEN 0 ELSE 1

(* The routers r reaches, in any of its areas.                             *)
Reachable(r) == UNION {Members(a) : a \in AreasOf[r]}

-----------------------------------------------------------------------------
(* Candidate routes; Best merges the cheapest ones of a set.               *)

Route(p, cost, via) == [prefix |-> p, cost |-> cost, via |-> via]

Best(rs) ==
    LET low == Min({x.cost : x \in rs})
        p == (CHOOSE x \in rs : TRUE).prefix
    IN  Route(p, low, UNION {x.via : x \in {y \in rs : y.cost = low}})

Table(rs) == {Best({x \in rs : x.prefix = p}) : p \in {x.prefix : x \in rs}}

Via(r, q) == IF q = r THEN {} ELSE {q}

(* Believing the Router-LSAs of routers that cannot be reached.            *)
IntraUnreachable(r, a) ==
    Table({Route(t[3], Dist(r, t[1]) + t[4], Via(r, t[1])) : t \in {x \in attached : x[2] = a}})

(* The shortest paths inside area a.  A network of the router itself has   *)
(* no gateway.                                                             *)
Intra(r, a) ==
    Table({Route(t[3], Dist(r, t[1]) + t[4], Via(r, t[1])) :
              t \in {x \in attached : x[2] = a /\ x[1] \in Members(a)}})

(* Summary-LSAs of other border routers that can be reached.               *)
InterArea(r, a) ==
    Table({Route(s.prefix, Dist(r, s.adv) + s.cost, {s.adv}) :
              s \in {x \in sums : x.area = a /\ x.adv # r /\ x.adv \in Members(a)}})

External(r) ==
    Table({Route(f.prefix, 10, {f.adv}) :
              f \in {x \in fives : x.adv # r /\ x.adv \in Reachable(r)}})

NssaRoutes(r, a) ==
    Table({Route(s.prefix, 10, {s.adv}) :
              s \in {x \in sevens : x.area = a /\ x.adv # r /\ x.adv \in Reachable(r)}})

-----------------------------------------------------------------------------
(* originate_summaries: into the backbone what the other areas of this     *)
(* router hold, into another area what the backbone holds, and only what   *)
(* is inside those areas.                                                  *)

SourcesFor(r, dest) ==
    IF dest = Backbone THEN AreasOf[r] \ {Backbone} ELSE AreasOf[r] \cap {Backbone}

Condensed(r, dest) == Table(UNION {Intra(r, a) : a \in SourcesFor(r, dest)})

(* Forgetting the default of a totally stubby area.                        *)
WantedPlainStub(r, dest) ==
    (IF NoSummary(dest) THEN {} ELSE {x \in Condensed(r, dest) : TRUE})
        \cup IF dest \in Stub THEN {Route(Default, DEFAULT_COST, {})} ELSE {}

Wanted(r, dest) ==
    {x \in Condensed(r, dest) : ~NoSummary(dest) /\ ~(IsStub(dest) /\ x.prefix = Default)}
        \cup IF IsStub(dest) THEN {Route(Default, DEFAULT_COST, {})} ELSE {}

V3Wanted(r, dest) == Condensed(r, dest)

Summary(r, dest, x) == [adv |-> r, area |-> dest, prefix |-> x.prefix, cost |-> x.cost]

(* Writing a summary again without replacing the earlier copy.             *)
OriginateSummariesAppends(r) ==
    IF ~IsAbr(r) THEN sums
    ELSE sums \cup UNION {{Summary(r, dest, x) :
                            x \in IF ver = 2 THEN Wanted(r, dest) ELSE V3Wanted(r, dest)} :
                        dest \in AreasOf[r]}

(* The summaries after r has written its own and flushed the ones it no    *)
(* longer wants.                                                           *)
OriginateSummaries(r) ==
    IF ~IsAbr(r) THEN sums
    ELSE {s \in sums : s.adv # r}
            \cup UNION {{Summary(r, dest, x) :
                            x \in IF ver = 2 THEN Wanted(r, dest) ELSE V3Wanted(r, dest)} :
                        dest \in AreasOf[r]}

(* The type-7 default, its P-bit clear, goes into the areas that want one. *)
OriginateNssaDefault(r) ==
    sevens \cup (IF ver = 2 /\ IsAbr(r)
                 THEN {[adv |-> r, area |-> a, prefix |-> Default, p |-> FALSE] :
                          a \in {x \in AreasOf[r] : WantsNssaDefault(x)}}
                 ELSE {})

Five(r, p) == [adv |-> r, prefix |-> p]

(* What r translates: every type-7 LSA of another router, whatever its     *)
(* P-bit says and whether or not its originator can be reached.            *)
Translations(r, ss) ==
    {s.prefix : s \in {x \in ss : /\ ver = 2 /\ IsAbr(r)
                                 /\ x.area \in AreasOf[r] /\ IsNssa(x.area)
                                 /\ x.adv # r}}

(* Translating and never flushing.                                         *)
TranslateNssaKeeps(r, want) == fives \cup {Five(r, p) : p \in want}

(* A translation whose type-7 LSA is gone is flushed; it shares its key    *)
(* with a type-5 LSA of the router's own for the same prefix.              *)
TranslateNssa(r, want) ==
    (fives \ {Five(r, p) : p \in translated[r]}) \cup {Five(r, p) : p \in want}

-----------------------------------------------------------------------------
(* run_spf_and_announce.                                                   *)

(* Across areas the cheaper route wins, and among equals the one of the    *)
(* area looked at first.                                                   *)
IntraChosen(r) ==
    LET all == UNION {{<<a, x>> : x \in Intra(r, a)} : a \in AreasOf[r]}
    IN  {y[2] : y \in {c \in all :
            \A d \in all : d[2].prefix = c[2].prefix =>
               \/ c[2].cost < d[2].cost
               \/ c[2].cost = d[2].cost /\ c[1] <= d[1]}}

(* A border router looks at the backbone's summaries only.                 *)
InterAreas(r) ==
    IF IsAbr(r) THEN AreasOf[r] \cap {Backbone} ELSE {Min(AreasOf[r])}

PrefixesOf(rs) == {x.prefix : x \in rs}

(* Adding the worse routes whatever is there.                              *)
OverBoth(better, worse) == better \cup worse

Over(better, worse) == better \cup {x \in worse : x.prefix \notin PrefixesOf(better)}

(* Preferring the cheaper route whatever its kind.                         *)
InternalChosenByCost(r) ==
    Table(IntraChosen(r) \cup UNION {InterArea(r, a) : a \in InterAreas(r)})

InternalChosen(r) ==
    Over(IntraChosen(r), UNION {InterArea(r, a) : a \in InterAreas(r)})

(* A router only in stub or not-so-stubby areas neither hears a type-5 LSA *)
(* nor is heard with one.                                                  *)
Sees(r) == \E a \in AreasOf[r] : ver = 3 \/ ~NoExternals(a)

Chosen(r) ==
    LET ext == IF Sees(r) THEN Over(InternalChosen(r), External(r)) ELSE InternalChosen(r)
        nssa == UNION {NssaRoutes(r, a) : a \in {x \in AreasOf[r] : IsNssa(x)}}
    IN  IF ver = 2 THEN Over(ext, nssa) ELSE ext

(* Only routes with a gateway are for the RIB; OSPFv3 has no such filter.  *)
RunSpfAndAnnounce(r) == {x \in Chosen(r) : x.via # {}}

V3RunSpfAndAnnounce(r) == Chosen(r)

-----------------------------------------------------------------------------

Init ==
    /\ ver \in {2, 3}
    /\ alive = Routers
    /\ attached = {}
    /\ externals = {}
    /\ sums = {}
    /\ sevens = {}
    /\ fives = {}
    /\ translated = [r \in Routers |-> {}]
    /\ dirty = Routers
    /\ announced = [r \in Routers |-> {}]
    /\ changes = 0

Change == changes < MAX_CHANGES /\ changes' = changes + 1

Touched(ss, vs, fs) ==
    {r \in alive : \/ \E a \in AreasOf[r] :
                         \/ {s \in ss : s.area = a} # {s \in sums : s.area = a}
                         \/ {s \in vs : s.area = a} # {s \in sevens : s.area = a}
                   \/ Sees(r) /\ fs # fives}

(* A router processes what it has received: it writes its summaries anew   *)
(* and recomputes its routes.                                              *)
Process(r) ==
    LET ss == OriginateSummaries(r)
        vs == OriginateNssaDefault(r)
        want == Translations(r, vs)
        fs == TranslateNssa(r, want)
    IN  /\ r \in dirty
        /\ sums' = ss
        /\ sevens' = vs
        /\ fives' = fs
        /\ translated' = [translated EXCEPT ![r] = want]
        /\ announced' = [announced EXCEPT ![r] = IF ver = 2 THEN RunSpfAndAnnounce(r)
                                                 ELSE V3RunSpfAndAnnounce(r)]
        /\ dirty' = (dirty \ {r}) \cup (Touched(ss, vs, fs) \ {r})
        /\ UNCHANGED <<ver, alive, attached, externals, changes>>

(* A network of a router appears or goes: a new Router-LSA in its area.    *)
NetworkChanges(t) ==
    /\ Change
    /\ t[1] \in alive
    /\ attached' = IF t \in attached THEN attached \ {t} ELSE attached \cup {t}
    /\ dirty' = dirty \cup Members(t[2])
    /\ UNCHANGED <<ver, alive, externals, sums, sevens, fives, translated, announced>>

(* originate_externals and originate_nssa: a redistributed route becomes a *)
(* type-5 and, in every not-so-stubby area of the router, a type-7.        *)
ApplyRedistribution(e) ==
    /\ Change
    /\ e[1] \in alive
    /\ LET r == e[1]
           ext == IF e \in externals THEN externals \ {e} ELSE externals \cup {e}
           mine == {x[2] : x \in {y \in ext : y[1] = r}}
           areas == {a \in AreasOf[r] : ver = 2 /\ IsNssa(a)}
           fs == IF e \in externals \/ ~Sees(r) THEN fives \ {Five(r, e[2])}
                                                ELSE fives \cup {Five(r, e[2])}
           vs == {s \in sevens : s.adv # r \/ ~s.p}
                    \cup {[adv |-> r, area |-> a, prefix |-> p, p |-> TRUE] : a \in areas, p \in mine}
       IN  /\ externals' = ext
           /\ fives' = fs
           /\ sevens' = vs
           /\ dirty' = dirty \cup (Touched(sums, vs, fs) \ {r})
    /\ UNCHANGED <<ver, alive, attached, sums, translated, announced>>

(* A router stops without a word; its neighbours write their Router-LSAs   *)
(* anew once it is dead to them.                                           *)
Crash(r) ==
    /\ Change
    /\ r \in alive
    /\ alive' = alive \ {r}
    /\ dirty' = (dirty \cup UNION {Members(a) : a \in AreasOf[r]}) \ {r}
    /\ announced' = [announced EXCEPT ![r] = {}]
    /\ UNCHANGED <<ver, attached, externals, sums, sevens, fives, translated>>

Next ==
    \/ \E r \in Routers : Process(r) \/ Crash(r)
    \/ \E t \in Attachments : NetworkChanges(t)
    \/ \E e \in Externals : ApplyRedistribution(e)

Spec == Init /\ [][Next]_vars

-----------------------------------------------------------------------------
AtRest == dirty = {}

RouteTo(r, p) == {x \in announced[r] : x.prefix = p}

Networks == {t[3] : t \in Attachments}

Origin(p) == {t[1] : t \in {x \in attached : x[3] = p}}

(* The shapes: one route per prefix, one summary per border router, area   *)
(* and prefix, and none from a router inside one area.                     *)
AreasTypeOK ==
    /\ dirty \subseteq alive
    /\ \A r \in Routers : \A x, y \in announced[r] : x.prefix = y.prefix => x = y
    /\ \A s, t \in sums : (s.adv = t.adv /\ s.area = t.area /\ s.prefix = t.prefix) => s = t
    /\ \A s \in sums : IsAbr(s.adv) /\ s.area \in AreasOf[s.adv]

(* The prefixes for which two border routers of one not-so-stubby area     *)
(* write type-5 LSAs: each prefers the other's to the type-7 LSA that it   *)
(* translates itself, as no translator is elected and the P-bit is not     *)
(* looked at.                                                              *)
TranslatedTwice ==
    {p \in Prefixes : \E b, c \in alive :
        /\ b # c
        /\ {Five(b, p), Five(c, p)} \subseteq fives
        /\ \E a \in AreasOf[b] \cap AreasOf[c] : IsNssa(a)}

(* Once every router has processed what it received, no two routers are    *)
(* each other's next hop for a prefix that is not translated twice: two    *)
(* border routers between the same areas do not keep each other's          *)
(* summaries alive.                                                        *)
LoopFree ==
    AtRest => \A p \in Prefixes \ TranslatedTwice :
        LET hop == [r \in Routers |-> UNION {x.via : x \in RouteTo(r, p)}]
        IN  \A r \in alive : \A q \in hop[r] : r \notin hop[q]

(* Then nobody announces a network that is attached to no live router, and *)
(* nobody sends packets to a router that crashed.                          *)
NoGhostRoutes ==
    AtRest => \A r \in alive : \A x \in announced[r] :
                 /\ x.via \subseteq alive
                 /\ x.prefix \in Networks => Origin(x.prefix) \cap alive # {}

(* Then a router knows every live network of its own areas, of the areas   *)
(* next to the backbone when it is on the backbone, and of the backbone    *)
(* unless its area takes no summaries; and in version 2 a router inside a  *)
(* stub area, or a not-so-stubby one that wants a default, has the default *)
(* when the area has a border router.                                      *)
AreasReach ==
    AtRest => \A r \in alive :
       /\ \A t \in attached :
             (t[1] \in alive /\ t[1] # r /\
              \/ t[2] \in AreasOf[r]
              \/ \E b \in alive : /\ t[2] \in AreasOf[b]
                                  /\ Backbone \in AreasOf[b]
                                  /\ \/ Backbone \in AreasOf[r]
                                     \/ t[2] = Backbone /\ \E a \in AreasOf[r] :
                                           /\ a \in AreasOf[b]
                                           /\ ver = 3 \/ ~NoSummary(a))
             => RouteTo(r, t[3]) # {} \/ \E u \in attached : u[1] = r /\ u[3] = t[3]
       /\ (ver = 2 /\ ~IsAbr(r)) =>
             \A a \in AreasOf[r] :
                (/\ IsStub(a) \/ WantsNssaDefault(a)
                 /\ \E b \in Members(a) : IsAbr(b)) => RouteTo(r, Default) # {}

(* Then a network inside one of a router's own areas is reached there and  *)
(* never through another area, whatever the costs.                         *)
IntraFirst ==
    AtRest => \A r \in alive : \A a \in AreasOf[r] : \A x \in Intra(r, a) :
        \A y \in RouteTo(r, x.prefix) : \E b \in AreasOf[r] : y \in Intra(r, b)

(* Then in version 2 a border router's type-5 LSAs are those of its own    *)
(* redistributed routes and of every type-7 LSA of another router in its   *)
(* not-so-stubby areas, and no others.                                     *)
TranslationFollows ==
    (AtRest /\ ver = 2) =>
        \A b \in alive, p \in Prefixes :
            IsAbr(b) => (Five(b, p) \in fives <=>
                           \/ <<b, p>> \in externals
                           \/ \E s \in sevens : /\ s.prefix = p /\ s.adv # b
                                                /\ s.area \in AreasOf[b] /\ IsNssa(s.area))
=============================================================================
