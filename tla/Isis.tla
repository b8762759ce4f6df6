-------------------------------- MODULE Isis --------------------------------
(***************************************************************************)
(* One level of the IS-IS engine (wren-daemon isis.rs over wren-isis's     *)
(* adjacency machine, DIS election and LSP database): routers on LANs and  *)
(* point-to-point links form adjacencies with Hellos, elect the DIS that   *)
(* speaks for the LAN, flood LSPs unacknowledged, and repair their         *)
(* databases with CSNPs and PSNPs.  An engine stops without a word and     *)
(* starts again with empty state.                                          *)
(*                                                                         *)
(* A node (a router or the pseudonode of its LAN) is a number: 10 * r for  *)
(* router r, 10 * r + 1 for the pseudonode it originates.  An LSP is kept  *)
(* under its node, its TLVs abstracted to their checksum, its Remaining    *)
(* Lifetime to "zero or not".  Hellos are never in flight.                 *)
(***************************************************************************)
EXTENDS Integers, Sequences, FiniteSets, FiniteSetsExt

CONSTANTS
    Routers,            \* System IDs (numbers; they double as SNPAs)
    TOPOLOGIES,         \* the networks checked: link -> [type, members]
    PRIORITIES,         \* the DIS priorities a router on that type of link may have
    Checksum(_, _),     \* of an LSP: the nodes it reaches, whether it has the redistributed prefix
    BUDGETS,            \* how often losses, stops, changes and BFD failures may happen there
    MAX_CSNP_LSP_ENTRIES,
    None,
    MAX_SEQ

Seqs == INSTANCE SequencesExt

VARIABLES
    net,                \* the topology
    rt,                 \* the engine of each router
    left,               \* how often each bounded event may still happen
    issued              \* history: the most recent instance of each LSP in existence

isisVars == <<net, rt, left, issued>>

-----------------------------------------------------------------------------
(* LSPs and the database (lsdb.rs).                                         *)

NodeId(sys, pn) == 10 * sys + pn
PN == 1                         \* local_circuit_id: one LAN per router
OwnKey(r) == NodeId(r, 0)
PnKey(r) == NodeId(r, PN)
Keys == {OwnKey(r) : r \in Routers} \cup {PnKey(r) : r \in Routers}
Owner(k) == k \div 10

NoLsps == [k \in {} |-> None]

LSP == [seq : Nat \ {0}, body : Nat, live : BOOLEAN]

ASSUME IsisAssumption ==
    /\ Routers \subseteq Nat /\ IsFiniteSet(Routers)
    /\ MAX_CSNP_LSP_ENTRIES \in Nat \ {0}
    /\ \A t \in TOPOLOGIES : \A l \in DOMAIN t :
        /\ t[l].type \in {"lan", "p2p"} /\ t[l].members \subseteq Routers
        /\ \A r \in t[l].members : PRIORITIES[t[l].type][r] \subseteq Nat
    /\ \A nodes \in SUBSET (Keys \cup {NodeId(0, 0)}), ext \in BOOLEAN :
        Checksum(nodes, ext) \in Nat
    /\ None \notin LSP

\* cmp_recency = Greater: sequence number, then a purge, then the checksum.
CmpRecency(a, b) ==
    \/ a.seq > b.seq
    \/ a.seq = b.seq /\ ~a.live /\ b.live
    \/ a.seq = b.seq /\ a.live = b.live /\ a.body > b.body

\* Install::changed
Changed(db, k, lsp) == k \notin DOMAIN db \/ CmpRecency(lsp, db[k])

Put(f, k, x) == [j \in DOMAIN f \cup {k} |-> IF j = k THEN x ELSE f[j]]

\* Whatever came last is kept.
InstallAny(db, k, lsp) == Put(db, k, lsp)

Install(db, k, lsp) == IF Changed(db, k, lsp) THEN Put(db, k, lsp) ELSE db

Remove(db, k) == [j \in DOMAIN db \ {k} |-> db[j]]

\* csnp_fragments over `summary`: at most MAX_CSNP_LSP_ENTRIES entries each, the ranges
\* tiling the ID space; each starts where the one before ended.
CsnpFragments(db) ==
    LET Rank(k) == Cardinality({j \in DOMAIN db : j <= k})
        n == (Cardinality(DOMAIN db) + MAX_CSNP_LSP_ENTRIES - 1) \div MAX_CSNP_LSP_ENTRIES
        In(i) == {k \in DOMAIN db : (Rank(k) - 1) \div MAX_CSNP_LSP_ENTRIES = i - 1}
    IN IF n = 0 THEN <<[type |-> "csnp", start |-> 0, end |-> Max(Keys), entries |-> NoLsps]>>
       ELSE [i \in 1 .. n |->
            [type |-> "csnp",
             start |-> IF i = 1 THEN 0 ELSE Max(In(i - 1)),
             end |-> IF i = n THEN Max(Keys) ELSE Max(In(i)),
             entries |-> [k \in In(i) |-> db[k]]]]

\* evaluate_csnp: what to request and what to send.
CsnpRequest(db, c) == {k \in DOMAIN c.entries : Changed(db, k, c.entries[k])}
CsnpSend(db, c) ==
    {k \in DOMAIN c.entries \cap DOMAIN db : CmpRecency(db[k], c.entries[k])}
    \cup {k \in DOMAIN db \ DOMAIN c.entries : c.start <= k /\ k <= c.end}

-----------------------------------------------------------------------------
(* The wire: send_on and flood are multicasts on a link.                    *)

LinksOf(r) == {l \in DOMAIN net : r \in net[l].members}
Others(r, l) == net[l].members \ {r}
Ports(r) == UNION {{l} \X Others(r, l) : l \in LinksOf(r)}

SendOn(s, l, msgs) ==
    [s EXCEPT !.out = [p \in DOMAIN @ |-> IF p[1] = l THEN @[p] \o msgs ELSE @[p]]]

LspPdu(k, lsp) == [type |-> "lsp", k |-> k, lsp |-> lsp]

Flood(s, k, lsp, except) ==
    [s EXCEPT !.out = [p \in DOMAIN @ |->
        IF p[1] \in except THEN @[p] ELSE Append(@[p], LspPdu(k, lsp))]]

StoreAndFlood(s, k, lsp) == Flood([s EXCEPT !.db = Install(@, k, lsp)], k, lsp, {})

-----------------------------------------------------------------------------
(* Origination.                                                             *)

UpNeighbors(s, l) == {q \in DOMAIN s.ifs[l].nb : s.ifs[l].nb[q].up}

\* build_our_lsp: the pseudonode of a LAN with an elected DIS, the neighbours of a
\* point-to-point link, and the redistributed prefix.
BuildOurLsp(s, r) ==
    LET Reach(l) ==
            IF net[l].type = "p2p" THEN {NodeId(q, 0) : q \in UpNeighbors(s, l)}
            ELSE {NodeId(d[1], d[2]) : d \in {s.ifs[l].dis} \ {<<>>}}
    IN Checksum(UNION {Reach(l) : l \in LinksOf(r)}, s.ext)

Lsp(seq, body, live) == [seq |-> seq, body |-> body, live |-> live]

Reoriginate(s, r) ==
    StoreAndFlood([s EXCEPT !.seq = @ + 1], OwnKey(r),
                  Lsp(s.seq + 1, BuildOurLsp(s, r), TRUE))

\* flush_lsp: the purge carries the next sequence number and leaves our own database.
FlushLsp(s, k) ==
    IF k \in DOMAIN s.db
    THEN Flood([s EXCEPT !.db = Remove(@, k)], k,
               Lsp(s.db[k].seq + 1, s.db[k].body, FALSE), {})
    ELSE s

ReoriginatePseudonode(s, r, l) ==
    LET members == {NodeId(q, 0) : q \in UpNeighbors(s, l) \cup {r}}
        seq == s.ifs[l].pn + 1
    IN IF s.ifs[l].isDis
       THEN StoreAndFlood([s EXCEPT !.ifs[l].pn = seq], PnKey(r),
                          Lsp(seq, Checksum(members, FALSE), TRUE))
       ELSE FlushLsp(s, PnKey(r))

-----------------------------------------------------------------------------
(* The DIS election (dis.rs, run_dis).                                      *)

\* elect_dis: highest priority, then highest SNPA.
ElectDis(cands) ==
    CHOOSE c \in cands : \A d \in cands : d[2] < c[2] \/ (d[2] = c[2] /\ d[1] <= c[1])

\* The election is not told that the neighbours are gone.
RunDisUpOnly(s, r, l) ==
    LET up == UpNeighbors(s, l)
        winner == ElectDis({<<r, s.prio>>} \cup {<<q, s.ifs[l].nb[q].prio>> : q \in up})[1]
        isDis == winner = r
        dis == IF winner = r THEN <<r, PN>> ELSE s.ifs[l].nb[winner].lan
    IN IF net[l].type = "p2p" \/ up = {} THEN s
       ELSE ReoriginatePseudonode(
                [s EXCEPT !.ifs[l] = [@ EXCEPT !.dis = dis, !.isDis = isDis]], r, l)

RunDis(s, r, l) ==
    LET up == UpNeighbors(s, l)
        winner == ElectDis({<<r, s.prio>>} \cup {<<q, s.ifs[l].nb[q].prio>> : q \in up})[1]
        isDis == up # {} /\ winner = r
        dis == IF up = {} THEN <<>>
               ELSE IF winner = r THEN <<r, PN>> ELSE s.ifs[l].nb[winner].lan
        s1 == [s EXCEPT !.ifs[l] = [@ EXCEPT !.dis = dis, !.isDis = isDis]]
    IN IF net[l].type = "p2p" THEN s
       ELSE IF isDis \/ <<s.ifs[l].dis, s.ifs[l].isDis>> # <<dis, isDis>>
       THEN ReoriginatePseudonode(s1, r, l) ELSE s1

-----------------------------------------------------------------------------
(* PDU handlers.                                                            *)

\* send_hellos: whom q lists on l, which LAN ID it names, its priority.
HelloOf(s, l) ==
    [lists |-> DOMAIN s.ifs[l].nb, prio |-> s.prio,
     lan |-> IF s.ifs[l].dis = <<>> THEN <<0, 0>> ELSE s.ifs[l].dis]

\* Adjacency::handle on a Hello: up if it lists us, else initializing.
Heard(nb, r, q, h) == Put(nb, q, [up |-> r \in h.lists, prio |-> h.prio, lan |-> h.lan])

IsUp(s, l, q) == q \in DOMAIN s.ifs[l].nb /\ s.ifs[l].nb[q].up

\* The election is not rerun when only the priority changes.
ProcessLanHelloOldPrio(s, r, l, q, h) ==
    LET s1 == [s EXCEPT !.ifs[l].nb = Heard(@, r, q, h)]
    IN IF IsUp(s, l, q) # IsUp(s1, l, q) THEN Reoriginate(RunDis(s1, r, l), r) ELSE s1

\* The election is rerun when the adjacency or an up neighbour's priority changes
\* (dis_election_input_changed), our LSP when the adjacency does.
ProcessLanHello(s, r, l, q, h) ==
    LET s1 == [s EXCEPT !.ifs[l].nb = Heard(@, r, q, h)]
        oldPrio == IF q \in DOMAIN s.ifs[l].nb THEN s.ifs[l].nb[q].prio ELSE 0
        turned == IsUp(s, l, q) # IsUp(s1, l, q)
        s2 == IF turned \/ (IsUp(s1, l, q) /\ oldPrio # h.prio) THEN RunDis(s1, r, l) ELSE s1
    IN IF turned THEN Reoriginate(s2, r) ELSE s2

ProcessP2pHello(s, r, l, q, h) ==
    LET s1 == [s EXCEPT !.ifs[l].nb = Heard(@, r, q, h)]
    IN IF IsUp(s, l, q) # IsUp(s1, l, q) THEN Reoriginate(s1, r) ELSE s1

ProcessHello(s, r, l, q, h) ==
    IF net[l].type = "lan" THEN ProcessLanHello(s, r, l, q, h) ELSE ProcessP2pHello(s, r, l, q, h)

\* A higher-numbered copy of our own LSP is installed like any other.
ProcessLspTrusting(s, r, l, k, lsp) ==
    LET s1 == [s EXCEPT !.db = Install(@, k, lsp)]
    IN IF Changed(s.db, k, lsp) THEN Flood(s1, k, lsp, {l}) ELSE s1

\* process_lsp: reclaim our own LSP, or install and flood out of the other links.
ProcessLsp(s, r, l, k, lsp) ==
    LET s1 == [s EXCEPT !.db = Install(@, k, lsp)]
    IN IF k = OwnKey(r) /\ lsp.seq > s.seq THEN Reoriginate([s EXCEPT !.seq = lsp.seq], r)
       ELSE IF Changed(s.db, k, lsp) THEN Flood(s1, k, lsp, {l}) ELSE s1

Pdus(s, keys) ==
    LET ids == Seqs!SetToSeq(keys \cap DOMAIN s.db)
    IN [i \in DOMAIN ids |-> LspPdu(ids[i], s.db[ids[i]])]

ProcessCsnp(s, l, c) ==
    LET want == CsnpRequest(s.db, c)
    IN SendOn(s, l, Pdus(s, CsnpSend(s.db, c))
                    \o IF want = {} THEN <<>> ELSE <<[type |-> "psnp", keys |-> want]>>)

ProcessPsnp(s, l, keys) == SendOn(s, l, Pdus(s, keys))

HandleFrame(s, r, l, m) ==
    CASE m.type = "lsp" -> ProcessLsp(s, r, l, m.k, m.lsp)
      [] m.type = "csnp" -> ProcessCsnp(s, l, m)
      [] m.type = "psnp" -> ProcessPsnp(s, l, m.keys)

\* Holding time over, or BFD down: the neighbour goes, then the DIS, then our LSP.
RemoveNeighbor(s, r, l, q) ==
    LET s1 == [s EXCEPT !.ifs[l].nb = Remove(@, q)]
    IN IF s.ifs[l].nb[q].up THEN Reoriginate(RunDis(s1, r, l), r) ELSE s1

-----------------------------------------------------------------------------
(* The system.                                                              *)

Stopped(r, out) ==
    [up |-> FALSE, prio |-> 0, seq |-> 0, db |-> NoLsps, ext |-> FALSE, out |-> out,
     ifs |-> [l \in LinksOf(r) |-> [nb |-> NoLsps, dis |-> <<>>, isDis |-> FALSE, pn |-> 0]]]

Started(r, prio, out) == Reoriginate([Stopped(r, out) EXCEPT !.up = TRUE, !.prio = prio], r)

IsisInit ==
    /\ net \in TOPOLOGIES
    /\ rt = [r \in Routers |-> Stopped(r, [p \in Ports(r) |-> <<>>])]
    /\ left \in UNION {BUDGETS[net[l].type] : l \in DOMAIN net}
    /\ issued = [k \in Keys |-> None]

Spend(e) == left[e] > 0 /\ left' = [left EXCEPT ![e] = @ - 1]
Becomes(r, s) == rt' = [rt EXCEPT ![r] = s]
InFlight(l) == \E r \in net[l].members : \E q \in Others(r, l) : rt[r].out[<<l, q>>] # <<>>

Start(r) ==
    /\ ~rt[r].up /\ LinksOf(r) # {}
    /\ \E prio \in UNION {PRIORITIES[net[l].type][r] : l \in LinksOf(r)} :
        Becomes(r, Started(r, prio, rt[r].out))
    /\ UNCHANGED left

Hello(r, l, q) ==
    /\ rt[q].up /\ rt[r].up
    /\ Becomes(r, ProcessHello(rt[r], r, l, q, HelloOf(rt[q], l)))
    /\ UNCHANGED left

Receive(r, l, q) ==
    LET at == <<l, r>>
        eaten == [rt EXCEPT ![q].out[at] = Tail(@)]
    IN /\ rt[q].out[at] # <<>>
       /\ rt' = IF rt[r].up
                THEN [eaten EXCEPT ![r] = HandleFrame(rt[r], r, l, Head(rt[q].out[at]))]
                ELSE eaten
       /\ UNCHANGED left

Lose(r, l, q) ==
    /\ rt[q].out[<<l, r>>] # <<>>
    /\ rt' = [rt EXCEPT ![q].out[<<l, r>>] = Tail(@)]
    /\ Spend("loss")

\* send_csnps: the DIS of a LAN, both ends of a point-to-point link; every ten seconds,
\* long after the answers to the last ones have come.
SendCsnps(r, l) ==
    /\ rt[r].up /\ (net[l].type = "p2p" \/ rt[r].ifs[l].isDis) /\ ~InFlight(l)
    /\ Becomes(r, SendOn(rt[r], l, CsnpFragments(rt[r].db)))
    /\ UNCHANGED left

\* housekeeping: a silent neighbour's holding time is over.
HoldingTimeExpired(r, l, q) ==
    /\ rt[r].up /\ ~rt[q].up /\ q \in DOMAIN rt[r].ifs[l].nb
    /\ Becomes(r, RemoveNeighbor(rt[r], r, l, q))
    /\ UNCHANGED left

ForceNeighborDown(r, l, q) ==
    /\ rt[r].up /\ q \in UpNeighbors(rt[r], l)
    /\ Becomes(r, RemoveNeighbor(rt[r], r, l, q))
    /\ Spend("bfd")

Lapsed(lsp) == [lsp EXCEPT !.live = FALSE]

\* housekeeping: an LSP nobody refreshes any more runs out, and stays in the database.
Age(r) ==
    /\ rt[r].up
    /\ \E k \in DOMAIN rt[r].db :
        /\ rt[r].db[k].live
        /\ \/ ~rt[Owner(k)].up
           \/ k = PnKey(Owner(k)) /\ \A l \in LinksOf(Owner(k)) : ~rt[Owner(k)].ifs[l].isDis
        /\ Becomes(r, [rt[r] EXCEPT !.db[k] = Lapsed(@)])
    /\ UNCHANGED left

\* Our own LSPs in the database whose lifetime is low: at zero, or (a change) by age.
Low(s, k) == k \in DOMAIN s.db /\ ~s.db[k].live

RefreshOwn(r) ==
    /\ rt[r].up
    /\ Becomes(r, Reoriginate(rt[r], r))
    /\ IF Low(rt[r], OwnKey(r)) THEN UNCHANGED left ELSE Spend("change")

RefreshPseudonode(r, l) ==
    /\ rt[r].up /\ rt[r].ifs[l].isDis
    /\ Becomes(r, ReoriginatePseudonode(rt[r], r, l))
    /\ IF Low(rt[r], PnKey(r)) THEN UNCHANGED left ELSE Spend("change")

ApplyRedistribution(r) ==
    /\ rt[r].up
    /\ Becomes(r, Reoriginate([rt[r] EXCEPT !.ext = ~@], r))
    /\ Spend("change")

Shutdown(r) ==
    /\ rt[r].up
    /\ Becomes(r, Stopped(r, rt[r].out))
    /\ Spend("stop")

SeqBound ==
    \A r \in Routers : rt[r].seq <= MAX_SEQ /\ \A l \in LinksOf(r) : rt[r].ifs[l].pn <= MAX_SEQ

IsisStep ==
    \E r \in Routers :
        \/ Start(r) \/ Age(r) \/ RefreshOwn(r) \/ ApplyRedistribution(r) \/ Shutdown(r)
        \/ \E l \in LinksOf(r) :
            \/ SendCsnps(r, l) \/ RefreshPseudonode(r, l)
            \/ \E q \in Others(r, l) :
                \/ Hello(r, l, q) \/ Receive(r, l, q) \/ Lose(r, l, q)
                \/ HoldingTimeExpired(r, l, q) \/ ForceNeighborDown(r, l, q)

\* History: the most recent instance of k, held or on the wire.
Instances(k) ==
    {rt[r].db[k] : r \in {q \in Routers : k \in DOMAIN rt[q].db}}
    \cup UNION {UNION {{m.lsp : m \in {x \in {rt[r].out[p][i] : i \in DOMAIN rt[r].out[p]} :
                                        x.type = "lsp" /\ x.k = k}} :
                       p \in DOMAIN rt[r].out} : r \in Routers}

Latest(S) == IF S = {} THEN None ELSE CHOOSE x \in S : \A y \in S : ~CmpRecency(y, x)

Record == issued' = [k \in Keys |-> Latest(Instances(k)' \cup ({issued[k]} \ {None}))]

IsisNext == SeqBound /\ IsisStep /\ Record /\ UNCHANGED net

IsisSpec == IsisInit /\ [][IsisNext]_isisVars
-----------------------------------------------------------------------------
(* Properties.                                                              *)

\* Nothing is in flight, every engine runs, every Hello repeats what is known and the
\* databases are equal: only an outside event changes anything.
AtRest ==
    \A l \in DOMAIN net :
        /\ \A r \in net[l].members : rt[r].up
        /\ ~InFlight(l)
        /\ \A r \in net[l].members : \A q \in Others(r, l) :
            /\ rt[q].db = rt[r].db
            /\ ProcessHello(rt[r], r, l, q, HelloOf(rt[q], l)) = rt[r]

\* Types, and what an interface's role implies: only a router with neighbours is DIS, and
\* a DIS names itself.  (A lone router elects nobody, although isis.md:101 and dis.rs:17
\* make it its own DIS: run_dis asks elect_dis only when a neighbour is up.)
IsisTypeOK ==
    \A r \in Routers :
        LET s == rt[r]
        IN /\ \A k \in DOMAIN s.db : k \in Keys /\ s.db[k] \in LSP
           /\ s.up \in BOOLEAN
           /\ \A l \in LinksOf(r) :
                LET i == s.ifs[l]
                IN /\ DOMAIN i.nb \subseteq Others(r, l)
                   /\ i.isDis => UpNeighbors(s, l) # {} /\ i.dis = <<r, PN>>
                   /\ UpNeighbors(s, l) = {} => i.dis = <<>>
                   /\ net[l].type = "p2p" => i.dis = <<>> /\ ~i.isDis

\* At rest every LAN of two routers or more has exactly one DIS, whichever order its
\* members started, restarted, changed priority or lost sight of each other in.
OneDis ==
    AtRest => \A l \in DOMAIN net :
        net[l].type = "lan" /\ Cardinality(net[l].members) > 1 =>
            Cardinality({r \in net[l].members : rt[r].ifs[l].isDis}) = 1

\* At rest a router's LSP carries, in every neighbour's database, the sequence number its
\* originator is at: no higher-numbered copy of an earlier life survives (process_lsp,
\* ISO 10589 7.3.16.1).  Only the numbers agree: a copy of an earlier life with the very
\* same number and a higher checksum displaces the originator's own, and stays.
LspReclaimed ==
    AtRest => \A l \in DOMAIN net : \A r, q \in net[l].members :
        /\ OwnKey(r) \in DOMAIN rt[q].db
        /\ rt[q].db[OwnKey(r)].seq = rt[r].seq

\* What holds of the engines: their interfaces' roles are consistent, and at rest every
\* LAN of two or more has one DIS and every router's LSP has its present sequence number
\* everywhere (run_dis, process_lsp).
IsisInv == IsisTypeOK /\ OneDis /\ LspReclaimed

\* ISO 10589 7.3.16, independently of cmp_recency.
MoreRecent(a, b) ==
    LET Rank(x) == <<x.seq, IF x.live THEN 0 ELSE 1, x.body>>
    IN \E i \in 1 .. 3 : Rank(a)[i] > Rank(b)[i] /\ \A j \in 1 .. i - 1 : Rank(a)[j] = Rank(b)[j]

\* The database promise: the engines implement LinkStateDb.
Db == INSTANCE LinkStateDb WITH
    Newer <- MoreRecent,
    held <- [r \in Routers |-> [k \in Keys |->
                IF k \in DOMAIN rt[r].db THEN rt[r].db[k] ELSE None]],
    newest <- issued

ImplementsDb == Db!DbSpec
=============================================================================
