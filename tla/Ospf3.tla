------------------------------- MODULE Ospf3 -------------------------------
(***************************************************************************)
(* The OSPFv3 engine (wren-daemon ospf3.rs over wren-ospfv3): routers on   *)
(* one IPv6 link of a single area.  Neighbours, DR and BDR are Router IDs, *)
(* the topology LSAs carry no prefixes, the prefix of the link travels in  *)
(* the Intra-Area-Prefix-LSA of each router or of the DR, and the next hop *)
(* in a Link-LSA that never leaves the link.                               *)
(*                                                                         *)
(* A router's engine is one record (`Ospf`, its `Iface` and the            *)
(* `Ospf3Neighbor`s); every handler is an operator from such a record to   *)
(* the record it leaves.  `db` holds the three databases (link, area, AS): *)
(* the key of an LSA says which one it is in.  `out` is the wire: the      *)
(* datagrams sent to each other router and not yet received, in order.     *)
(*                                                                         *)
(* Abstracted: an LSA's body to the number that tells its versions apart   *)
(* (and stands for its checksum), ages to "at MaxAge or not", the packets  *)
(* of one flooding pass to one LSU per scope, a Hello to an exchange that  *)
(* is never in flight, and SPF (module Spf).                               *)
(***************************************************************************)
EXTENDS Integers, Sequences, FiniteSets, FiniteSetsExt, TLC

CONSTANTS
    Routers,        \* Router IDs (numbers: the election and the DD negotiation order them)
    PRIORITY,       \* the Router Priority of each router
    LINKS,          \* the link types checked, a subset of {"p2p", "broadcast"}
    None,           \* no instance of an LSA
    BUDGETS,        \* per link type, the routers that may be configured to redistribute a prefix, and how
                    \* often losses, stops, crashes, refreshes and BFD failures may happen
    MAX_SEQ, MAX_DD

VARIABLES
    link,           \* cfg.iface_type, the same on every router
    rt,             \* the engine of each router
    left,           \* how often each of the bounded events may still happen
    issued,         \* history: the most recent instance of each LSA its owner has made
    hurt            \* history: the pairs of routers a DD of whose exchange was lost ("dd"), and
                    \* those one of which was told by BFD that the path is down ("bfd")

ospf3Vars == <<link, rt, left, issued, hurt>>

-----------------------------------------------------------------------------
(* LSAs and the databases (lsa.rs, lsdb.rs).                                *)

RouterKey(r) == <<"router", r>>
NetworkKey(r) == <<"network", r>>
RouterPrefixKey(r) == <<"router prefixes", r>>
NetworkPrefixKey(r) == <<"network prefixes", r>>
LinkKey(r) == <<"link", r>>
ExtKey(r) == <<"external", r>>

OwnKeys(r) ==
    {RouterKey(r), NetworkKey(r), RouterPrefixKey(r), NetworkPrefixKey(r), LinkKey(r), ExtKey(r)}

Keys == UNION {OwnKeys(r) : r \in Routers}
NoLsas == [k \in {} |-> None]
INITIAL_SEQUENCE_NUMBER == 1

\* compare_recency = Greater: sequence number, then checksum, then MaxAge.
CompareRecency(a, b) ==
    \/ a.seq > b.seq
    \/ a.seq = b.seq /\ a.body > b.body
    \/ a.seq = b.seq /\ a.body = b.body /\ a.max /\ ~b.max

\* Lsdb::install keeps the held instance unless the offered one is newer.
Install(db, k, lsa) ==
    IF k \in DOMAIN db /\ ~CompareRecency(lsa, db[k]) THEN db ELSE (k :> lsa) @@ db

InstallAll(db, lsas) == FoldSet(LAMBDA k, d : Install(d, k, lsas[k]), db, DOMAIN lsas)

Only(f, S) == [k \in DOMAIN f \cap S |-> f[k]]
Without(f, S) == [k \in DOMAIN f \ S |-> f[k]]

\* LsType::scope.
Scope(k) == IF k[1] = "link" THEN "link" ELSE IF k[1] = "external" THEN "as" ELSE "area"
InScope(f, scope) == [k \in {j \in DOMAIN f : Scope(j) = scope} |-> f[k]]

-----------------------------------------------------------------------------
(* The neighbour machine (neighbor.rs `handle`).                            *)

DOWN == 0
INIT == 1
TWOWAY == 2
EXSTART == 3
EXCHANGE == 4
LOADING == 5
FULL == 6

NeighborHandle(st, ev, adjacencyOk, requestListEmpty) ==
    LET To(s, acts) == [state |-> s, acts |-> acts]
    IN CASE ev = "HelloReceived" /\ st = DOWN -> To(INIT, {})
         [] ev = "TwoWayReceived" /\ st = INIT ->
                IF adjacencyOk THEN To(EXSTART, {"StartDdExchange"}) ELSE To(TWOWAY, {})
         [] ev = "OneWayReceived" /\ st = TWOWAY -> To(INIT, {})
         [] ev = "OneWayReceived" /\ st > TWOWAY -> To(INIT, {"ClearAdjacency"})
         [] ev = "AdjOk" /\ st = TWOWAY /\ adjacencyOk -> To(EXSTART, {"StartDdExchange"})
         [] ev = "AdjOk" /\ st > TWOWAY /\ ~adjacencyOk -> To(TWOWAY, {"ClearAdjacency"})
         [] ev = "NegotiationDone" /\ st = EXSTART -> To(EXCHANGE, {})
         [] ev = "ExchangeDone" /\ st = EXCHANGE ->
                IF requestListEmpty THEN To(FULL, {"AdjacencyUp"}) ELSE To(LOADING, {})
         [] ev = "LoadingDone" /\ st = LOADING -> To(FULL, {"AdjacencyUp"})
         [] ev \in {"SeqNumberMismatch", "BadLsReq"} /\ st >= EXCHANGE ->
                To(EXSTART, {"ClearAdjacency", "StartDdExchange"})
         [] OTHER -> To(st, {})

NewNeighbor ==
    [st |-> DOWN, dd |-> 0, master |-> FALSE, sent |-> FALSE, req |-> {}, rx |-> NoLsas,
     dr |-> 0, bdr |-> 0]

FullNeighbors(s) == {q \in DOMAIN s.nb : s.nb[q].st = FULL}
Bidirectional(s) == {q \in DOMAIN s.nb : s.nb[q].st >= TWOWAY}

Send(s, q, msg) == [s EXCEPT !.out[q] = Append(@, msg)]

-----------------------------------------------------------------------------
(* The DR election (interface.rs).                                          *)

Best(pool) ==
    IF pool = {} THEN 0
    ELSE (CHOOSE c \in pool : \A d \in pool :
            d.prio < c.prio \/ (d.prio = c.prio /\ d.id <= c.id)).id

CalcBdr(cands) ==
    LET notDr == {c \in cands : c.prio > 0 /\ c.dr # c.id}
        self == {c \in notDr : c.bdr = c.id}
    IN Best(IF self = {} THEN notDr ELSE self)

CalcDr(cands, bdr) ==
    LET dr == Best({c \in cands : c.prio > 0 /\ c.dr = c.id})
    IN IF dr = 0 THEN bdr ELSE dr

\* elect_dr_bdr, with the recomputation when the calculating router's own role flips.
ElectDrBdr(cands, me) ==
    LET bdr == CalcBdr(cands)
        dr == CalcDr(cands, bdr)
        own == CHOOSE c \in cands : c.id = me
        flipped == (own.dr = me) # (dr = me) \/ (own.bdr = me) # (bdr = me)
        again == {IF c.id = me THEN [c EXCEPT !.dr = dr, !.bdr = bdr] ELSE c : c \in cands}
        bdr2 == CalcBdr(again)
    IN IF flipped THEN <<CalcDr(again, bdr2), bdr2>> ELSE <<dr, bdr>>

Candidate(q, dr, bdr) == [id |-> q, prio |-> PRIORITY[q], dr |-> dr, bdr |-> bdr]

Candidates(s) == {Candidate(q, s.nb[q].dr, s.nb[q].bdr) : q \in Bidirectional(s)}

RunElection(s, r) ==
    LET e == ElectDrBdr(Candidates(s) \cup {Candidate(r, s.dr, s.bdr)}, r)
    IN [s EXCEPT !.dr = e[1], !.bdr = e[2],
                 !.ifs = IF e[1] = r THEN "Dr" ELSE IF e[2] = r THEN "Backup" ELSE "DrOther"]

InterfaceHandle(s, r, ev) ==
    IF \/ ev \in {"WaitTimer", "BackupSeen"} /\ s.ifs = "Waiting"
       \/ ev = "NeighborChange" /\ s.ifs \in {"DrOther", "Backup", "Dr"}
    THEN RunElection(s, r) ELSE s

AdjacencyOk(s, r, q) == link = "p2p" \/ r \in {s.dr, s.bdr} \/ q \in {s.dr, s.bdr}

-----------------------------------------------------------------------------
(* Origination and flooding.                                                *)

\* flood_to_targets: send, and expect an acknowledgment.
FloodToTargets(s, lsas, to) ==
    IF lsas = NoLsas THEN s
    ELSE [s EXCEPT
            !.out = [q \in DOMAIN s.out |->
                        IF q \in to THEN Append(s.out[q], [type |-> "lsu", lsas |-> lsas])
                        ELSE s.out[q]],
            !.nb = [q \in DOMAIN s.nb |->
                        IF q \in to THEN [s.nb[q] EXCEPT !.rx = lsas @@ @] ELSE s.nb[q]]]

\* flood_lsa_except and flood_external_except: the Full neighbours.
FloodExcept(s, lsas, except) == FloodToTargets(s, lsas, FullNeighbors(s) \ except)

\* flood_link_lsa: everyone past ExStart on the link.
FloodLink(s, lsas) == FloodToTargets(s, lsas, {q \in DOMAIN s.nb : s.nb[q].st >= EXCHANGE})

\* The instance of k that next_seq numbers.
Made(s, k, body, max) == k :> [seq |-> s.sq[k], body |-> body, max |-> max]

\* next_seq, and install_area or its counterpart of the other scopes.
InstallArea(s, lsas) ==
    [s EXCEPT !.sq = [k \in DOMAIN @ |-> IF k \in DOMAIN lsas THEN @[k] + 1 ELSE @[k]],
              !.db = InstallAll(@, lsas)]

\* The DR of the transit network, once we are fully adjacent to it; 0 before.
TransitDr(s, r) ==
    IF (s.dr = r /\ FullNeighbors(s) # {}) \/ s.dr \in FullNeighbors(s) THEN s.dr ELSE 0

\* One link per Full neighbour, or one to the transit network; and the ASBR flag.
BuildRouterLsa(s, r) ==
    (IF s.ext THEN 10 ELSE 0)
      + IF link = "p2p" THEN Cardinality(FullNeighbors(s)) ELSE TransitDr(s, r)

\* The prefix of the link is ours to advertise (1) unless the DR does it (0).
BuildRouterPrefixLsa(s, r) == IF TransitDr(s, r) # 0 THEN 0 ELSE 1

\* The Network-LSA, and its Intra-Area-Prefix-LSA, of a DR that has a Full neighbour.
BuildNetworkLsa(s, r) ==
    IF link = "broadcast" /\ s.dr = r /\ FullNeighbors(s) # {}
    THEN 1 + Cardinality(FullNeighbors(s)) ELSE 0

BuildNetworkPrefixLsa(s, r) == IF BuildNetworkLsa(s, r) = 0 THEN 0 ELSE 1

\* Every self-originated external is installed; flooding is left to the caller.
OriginateExternals(s, r) ==
    IF s.ext
    THEN [InstallArea(s, Made(s, ExtKey(r), 1, FALSE)) EXCEPT !.origExt = TRUE] ELSE s

\* flush_stale: what was originated for the transit network and is no longer wanted.
FlushStale(s, r) ==
    Only(s.db, IF s.origNet THEN {NetworkKey(r), NetworkPrefixKey(r)} ELSE {})

ReoriginateAndFlood(s, r) ==
    LET made0 == Made(s, LinkKey(r), 1, FALSE)
        s1 == FloodLink(InstallArea(s, made0), made0)
        want == BuildNetworkLsa(s, r) # 0
        own == Made(s, RouterKey(r), BuildRouterLsa(s, r), FALSE)
                @@ Made(s, RouterPrefixKey(r), BuildRouterPrefixLsa(s, r), FALSE)
        stale == FlushStale(s, r)
        net == IF want
               THEN Made(s, NetworkKey(r), BuildNetworkLsa(s, r), FALSE)
                     @@ Made(s, NetworkPrefixKey(r), BuildNetworkPrefixLsa(s, r), FALSE)
               ELSE [k \in DOMAIN stale |-> Made(s, k, stale[k].body, TRUE)[k]]
        lsas == own @@ net
    IN FloodExcept([InstallArea(s1, lsas) EXCEPT !.origNet = want], lsas, {})

OnAdjacencyFull(s, r) ==
    LET s1 == OriginateExternals(s, r)
    IN ReoriginateAndFlood(FloodExcept(s1, Only(s1.db, {ExtKey(r)}), {}), r)

-----------------------------------------------------------------------------
(* Acting on the neighbour machine (act_on_neighbor, start_dd_exchange).    *)

InitDd(seq) == [type |-> "dd", init |-> TRUE, master |-> TRUE, seq |-> seq, hdrs |-> NoLsas]

StartDdExchange(s, q) ==
    LET seq == (s.nextDd % MAX_DD) + 1
    IN Send([s EXCEPT !.nextDd = seq,
                      !.nb[q] = [@ EXCEPT !.dd = seq, !.master = TRUE, !.sent = FALSE,
                                          !.req = {}, !.rx = NoLsas]],
            q, InitDd(seq))

ClearAdjacency(s, q) ==
    [s EXCEPT !.nb[q] = [@ EXCEPT !.req = {}, !.rx = NoLsas, !.sent = FALSE]]

ActOnNeighbor(s, r, q, acts) ==
    LET s1 == IF "ClearAdjacency" \in acts THEN ClearAdjacency(s, q) ELSE s
        s2 == IF "StartDdExchange" \in acts THEN StartDdExchange(s1, q) ELSE s1
    IN IF "AdjacencyUp" \in acts THEN OnAdjacencyFull(s2, r) ELSE s2

\* Drive the neighbour machine with one event and act on what it asks for.
NeighborEvent(s, r, q, ev, ok) ==
    LET h == NeighborHandle(s.nb[q].st, ev, ok, s.nb[q].req = {})
    IN ActOnNeighbor([s EXCEPT !.nb[q].st = h.state], r, q, h.acts)

ReevalAdjacencies(s, r) ==
    FoldSet(LAMBDA q, t : NeighborEvent(t, r, q, "AdjOk", AdjacencyOk(t, r, q)),
            s, Bidirectional(s))

\* run_interface_event's caller: after a changed election every neighbour is re-judged.
Elected(s, t, r) == IF <<s.dr, s.bdr>> # <<t.dr, t.bdr>> THEN ReevalAdjacencies(t, r) ELSE t

-----------------------------------------------------------------------------
(* Hellos (send_hellos, handle_hello).                                      *)

HelloOf(s) == [dr |-> s.dr, bdr |-> s.bdr, nbrs |-> {q \in DOMAIN s.nb : s.nb[q].st >= INIT}]

HandleHello(s, r, q, h) ==
    LET ok == AdjacencyOk(s, r, q)
        n0 == IF q \in DOMAIN s.nb THEN s.nb[q] ELSE NewNeighbor
        hello == NeighborHandle(n0.st, "HelloReceived", ok, n0.req = {})
        way == NeighborHandle(hello.state,
                              IF r \in h.nbrs THEN "TwoWayReceived" ELSE "OneWayReceived",
                              ok, n0.req = {})
        n1 == [n0 EXCEPT !.st = way.state, !.dr = h.dr, !.bdr = h.bdr]
        s1 == [s EXCEPT !.nb = (q :> n1) @@ @]
        s2 == IF s.ifs = "Waiting" /\ (h.dr # 0 \/ h.bdr # 0)
              THEN InterfaceHandle(s1, r, "BackupSeen")
              ELSE IF (n0.st >= TWOWAY) # (n1.st >= TWOWAY)
              THEN InterfaceHandle(s1, r, "NeighborChange") ELSE s1
        s3 == ActOnNeighbor(s2, r, q, way.acts)
    IN IF <<s.dr, s.bdr>> # <<s2.dr, s2.bdr>> THEN ReevalAdjacencies(s3, r) ELSE s3

-----------------------------------------------------------------------------
(* Database exchange (handle_dd and what it calls).                         *)

SendExchangeDd(s, q) ==
    LET n == s.nb[q]
    IN Send([s EXCEPT !.nb[q].sent = TRUE], q,
            [type |-> "dd", init |-> FALSE, master |-> n.master, seq |-> n.dd,
             hdrs |-> IF n.sent THEN NoLsas ELSE s.db])

\* need_lsa for every header described.
ProcessDdHeaders(s, q, hdrs) ==
    [s EXCEPT !.nb[q].req = @ \cup
        {k \in DOMAIN hdrs : k \notin DOMAIN s.db \/ CompareRecency(hdrs[k], s.db[k])}]

NegotiationDone(s, q, master, seq) ==
    SendExchangeDd([s EXCEPT !.nb[q] = [@ EXCEPT !.master = master, !.dd = seq, !.st = EXCHANGE]], q)

SendLsr(s, q) ==
    IF s.nb[q].req = {} THEN s ELSE Send(s, q, [type |-> "lsr", keys |-> s.nb[q].req])

ExchangeDone(s, r, q) ==
    LET h == NeighborHandle(s.nb[q].st, "ExchangeDone", TRUE, s.nb[q].req = {})
        s1 == [s EXCEPT !.nb[q].st = h.state]
    IN ActOnNeighbor(IF h.state = LOADING THEN SendLsr(s1, q) ELSE s1, r, q, h.acts)

ExchangeDd(s, r, q, dd) ==
    LET n == s.nb[q]
        seen == ProcessDdHeaders(s, q, dd.hdrs)
    IN IF dd.init \/ dd.master = n.master
       THEN NeighborEvent(s, r, q, "SeqNumberMismatch", FALSE)
       ELSE IF n.master
       THEN IF dd.seq # n.dd THEN s
            ELSE IF n.sent THEN ExchangeDone(seen, r, q)
            ELSE SendExchangeDd([seen EXCEPT !.nb[q].dd = n.dd + 1], q)
       ELSE IF dd.seq = n.dd THEN SendExchangeDd(s, q)
       ELSE ExchangeDone(SendExchangeDd([seen EXCEPT !.nb[q].dd = dd.seq], q), r, q)

HandleDd(s, r, q, dd) ==
    LET n == s.nb[q]
    IN CASE n.st = EXSTART /\ dd.init /\ q > r -> NegotiationDone(s, q, FALSE, dd.seq)
         [] n.st = EXSTART /\ ~dd.init /\ ~dd.master /\ q < r /\ dd.seq = n.dd ->
                NegotiationDone(ProcessDdHeaders(s, q, dd.hdrs), q, TRUE, n.dd + 1)
         [] n.st >= EXCHANGE -> ExchangeDd(s, r, q, dd)
         [] OTHER -> s

-----------------------------------------------------------------------------
(* Link State Requests, Updates and Acknowledgments.                        *)

HandleLsr(s, q, keys) ==
    LET lsas == Only(s.db, keys)
    IN IF lsas = NoLsas THEN s ELSE Send(s, q, [type |-> "lsu", lsas |-> lsas])

\* An acknowledgment of any instance settles the pending one.
ClearAckedAny(s, q, hdrs) == [s EXCEPT !.nb[q].rx = Without(@, DOMAIN hdrs)]

ClearAckedLsas(s, q, hdrs) ==
    [s EXCEPT !.nb[q].rx = [k \in {j \in DOMAIN @ : ~(j \in DOMAIN hdrs /\ hdrs[j].seq >= @[j].seq)}
                                |-> @[k]]]

AnyNeighborExchanging(s) == \E q \in DOMAIN s.nb : s.nb[q].st \in {EXCHANGE, LOADING}

\* decide_flood; `soon` says the last install of k was less than MinLSArrival ago.
DecideFlood(s, q, k, lsa, soon) ==
    IF k \notin DOMAIN s.db
    THEN IF lsa.max /\ ~AnyNeighborExchanging(s) THEN "DirectAck" ELSE "Install"
    ELSE IF CompareRecency(lsa, s.db[k])
    THEN IF soon THEN "Discard" ELSE "Install"
    ELSE IF k \in s.nb[q].req THEN "BadLsReq"
    ELSE IF CompareRecency(s.db[k], lsa) THEN "SendBack"
    ELSE IF k \in DOMAIN s.nb[q].rx THEN "ImpliedAck" ELSE "DirectAck"

\* A retired external is taken for one we still originate.
RetiredNever(s, r, lsas, took) == NoLsas

\* retired_self_external: our own external came back and we do not originate it.
RetiredSelfExternal(s, r, lsas, took) ==
    [k \in {ExtKey(r)} \cap {j \in took : ~s.origExt} |-> [lsas[k] EXCEPT !.max = TRUE]]

LoadingDone(s, r, q) ==
    IF s.nb[q].st = LOADING /\ s.nb[q].req = {}
    THEN NeighborEvent(s, r, q, "LoadingDone", FALSE) ELSE s

\* An LSA of our own that comes back newer is installed like any other.
ReclaimedNever(r, took) == {}

\* The LSAs of our own that are outnumbered and made anew; a Link-LSA is not among them.
Reclaimed(r, took) == {k \in took \cap OwnKeys(r) : Scope(k) # "link"}

HandleLsu(s, r, q, lsas, soon) ==
    LET Decided(d) == {k \in DOMAIN lsas : DecideFlood(s, q, k, lsas[k], k \in soon) = d}
        took == Decided("Install")
        own == Reclaimed(r, took)
        foreign == Only(lsas, took \ own)
        retired == RetiredSelfExternal(s, r, lsas, own)
        s1 == FloodExcept(
                [s EXCEPT
                    !.nb = [p \in DOMAIN @ |-> [@[p] EXCEPT !.req = @ \ took]],
                    !.sq = [k \in DOMAIN @ |-> IF k \in own THEN lsas[k].seq + 1 ELSE @[k]],
                    !.db = InstallAll(InstallAll(@, foreign), retired),
                    !.timed = @ \cup {k \in DOMAIN foreign : Scope(k) # "link"}],
                retired, {})
        back == Only(s1.db, Decided("SendBack"))
        s2 == IF back = NoLsas THEN s1 ELSE Send(s1, q, [type |-> "lsu", lsas |-> back])
        s3 == ClearAckedLsas(s2, q, Only(lsas, Decided("ImpliedAck")))
        acks == Only(lsas, took \cup Decided("DirectAck"))
        s4 == IF acks = NoLsas THEN s3 ELSE Send(s3, q, [type |-> "ack", hdrs |-> acks])
        s5 == FloodExcept(s4, InScope(foreign, "area") @@ InScope(foreign, "as"), {q})
        s6 == IF own \ DOMAIN retired = {} THEN s5
              ELSE ReoriginateAndFlood(OriginateExternals(s5, r), r)
    IN IF Decided("BadLsReq") # {} THEN NeighborEvent(s1, r, q, "BadLsReq", FALSE)
       ELSE LoadingDone(s6, r, q)

\* handle_packet: `acks_only` while the engine is stopping.
HandlePacket(s, r, q, m, soon) ==
    CASE q \notin DOMAIN s.nb -> s
      [] m.type = "ack" -> ClearAckedLsas(s, q, m.hdrs)
      [] s.up = "stopping" -> s
      [] m.type = "dd" -> HandleDd(s, r, q, m)
      [] m.type = "lsr" -> HandleLsr(s, q, m.keys)
      [] m.type = "lsu" -> HandleLsu(s, r, q, m.lsas, soon)

-----------------------------------------------------------------------------
(* Timers, BFD, shutdown.                                                   *)

\* The end of age_neighbors and force_neighbor_down.
RemoveNeighbor(s, r, q) ==
    LET s1 == [s EXCEPT !.nb = Without(@, {q})]
    IN ReoriginateAndFlood(Elected(s1, InterfaceHandle(s1, r, "NeighborChange"), r), r)

\* retransmit_pending: unacknowledged LSAs to a Full neighbour, open requests before.
RetransmitPending(s) ==
    LET Msgs(n) ==
            (IF n.st = FULL /\ n.rx # NoLsas THEN <<[type |-> "lsu", lsas |-> n.rx]>> ELSE <<>>)
            \o (IF n.st \in {EXCHANGE, LOADING} /\ n.req # {}
                THEN <<[type |-> "lsr", keys |-> n.req]>> ELSE <<>>)
    IN [s EXCEPT !.out = [q \in DOMAIN @ |->
            IF q \in DOMAIN s.nb THEN @[q] \o Msgs(s.nb[q]) ELSE @[q]]]

RetransmitInitDds(s) ==
    [s EXCEPT !.out = [q \in DOMAIN @ |->
        IF q \in DOMAIN s.nb /\ s.nb[q].st = EXSTART THEN Append(@[q], InitDd(s.nb[q].dd)) ELSE @[q]]]

\* shutdown_lsas: our own live LSAs, prematurely aged under the same sequence number.
ShutdownLsas(s, r) ==
    [k \in {j \in DOMAIN s.db \cap OwnKeys(r) : ~s.db[j].max} |-> [s.db[k] EXCEPT !.max = TRUE]]

WithdrawSelfOriginated(s, r) ==
    LET s1 == [s EXCEPT !.nb = [q \in DOMAIN @ |-> [@[q] EXCEPT !.rx = NoLsas]]]
        gone == ShutdownLsas(s, r)
    IN FloodLink(FloodExcept(s1, InScope(gone, "area") @@ InScope(gone, "as"), {}),
                 InScope(gone, "link"))

\* A stopped engine: nothing survives but the datagrams already sent.
Stopped(r, out) ==
    [up |-> "down", ifs |-> "Down", dr |-> 0, bdr |-> 0, nb |-> NoLsas, db |-> NoLsas,
     sq |-> [k \in OwnKeys(r) |-> INITIAL_SEQUENCE_NUMBER], ext |-> FALSE,
     origExt |-> FALSE, origNet |-> FALSE, nextDd |-> 0, timed |-> {}, out |-> out]

\* run: bring the interface up and originate, before the first event.
Started(r, ext, out) ==
    LET s == [Stopped(r, out) EXCEPT !.up = "up", !.ext = ext,
                !.ifs = IF link = "p2p" THEN "PointToPoint" ELSE "Waiting"]
    IN ReoriginateAndFlood(OriginateExternals(s, r), r)

-----------------------------------------------------------------------------
(* The system.                                                              *)

Ospf3Init ==
    /\ link \in LINKS
    /\ rt = [r \in Routers |-> Stopped(r, [q \in Routers \ {r} |-> <<>>])]
    /\ left \in BUDGETS[link]
    /\ issued = [k \in Keys |-> None] /\ hurt = {}

Spend(e) == left[e] > 0 /\ left' = [left EXCEPT ![e] = @ - 1]
InFlight(r, q) == rt[r].out[q] # <<>> \/ rt[q].out[r] # <<>>
Becomes(r, s) == rt' = [rt EXCEPT ![r] = s]

\* The engine starts, with what the configuration redistributes now; its first Hello goes out at once.
Start(r) ==
    /\ rt[r].up = "down"
    /\ \E ext \in {FALSE, (r \in left.asbrs)} :
       LET s == Started(r, ext, rt[r].out)
       IN rt' = [q \in Routers |->
                    IF q = r THEN s
                    ELSE IF rt[q].up = "up" THEN HandleHello(rt[q], q, r, HelloOf(s)) ELSE rt[q]]
    /\ UNCHANGED left

Hello(q, r) ==
    /\ rt[q].up = "up" /\ rt[r].up = "up"
    /\ Becomes(r, HandleHello(rt[r], r, q, HelloOf(rt[q])))
    /\ UNCHANGED left

\* The next datagram from q reaches r; nobody reads it when the engine is down.
Receive(r, q) ==
    LET m == Head(rt[q].out[r])
        eaten == [rt EXCEPT ![q].out[r] = Tail(@)]
        limited == IF m.type = "lsu" THEN rt[r].timed \cap DOMAIN m.lsas ELSE {}
    IN /\ rt[q].out[r] # <<>>
       /\ \/ rt[r].up = "down" /\ rt' = eaten /\ UNCHANGED left
          \/ /\ rt[r].up # "down"
             /\ rt' = [eaten EXCEPT ![r] = HandlePacket(rt[r], r, q, m, {})]
             /\ UNCHANGED left
          \/ \* an LSA newer than one installed less than MinLSArrival ago
             /\ rt[r].up = "up" /\ limited # {}
             /\ rt' = [eaten EXCEPT ![r] = HandlePacket(rt[r], r, q, m, limited)]
             /\ Spend("loss")

\* The wire loses a datagram.  A DD of the exchange is never resent (only an initial
\* one is, `retransmit_init_dds`).
Lose(r, q) ==
    /\ rt[q].out[r] # <<>>
    /\ rt' = [rt EXCEPT ![q].out[r] = Tail(@)]
    /\ LET m == Head(rt[q].out[r])
       IN hurt' = IF m.type = "dd" /\ ~m.init THEN hurt \cup {<<"dd", {r, q}>>} ELSE hurt
    /\ Spend("loss")

\* r has heard which DR and BDR q declares now.  The wait timer runs for a whole dead
\* interval, several Hellos of every router on the link.
HasHeard(r, q) ==
    /\ q \in DOMAIN rt[r].nb
    /\ rt[r].nb[q].dr = rt[q].dr /\ rt[r].nb[q].bdr = rt[q].bdr

FireWaitTimers(r) ==
    /\ rt[r].up = "up" /\ rt[r].ifs = "Waiting"
    /\ \A q \in Routers \ {r} : rt[q].up = "up" => HasHeard(r, q)
    /\ Becomes(r, Elected(rt[r], InterfaceHandle(rt[r], r, "WaitTimer"), r))
    /\ UNCHANGED left

AgeNeighbors(r, q) ==
    /\ rt[r].up = "up" /\ q \in DOMAIN rt[r].nb /\ rt[q].up # "up"
    /\ Becomes(r, RemoveNeighbor(rt[r], r, q))
    /\ UNCHANGED left

\* Retransmission timers are seconds long: they run once an answer has had its time to
\* come, or, counted as a loss, while a delayed one is still on its way.
Late(r) ==
    IF \E q \in Routers \ {r} : InFlight(r, q) THEN Spend("loss") ELSE UNCHANGED left

InitDds(r) ==
    /\ rt[r].up = "up"
    /\ \E q \in DOMAIN rt[r].nb : rt[r].nb[q].st = EXSTART
    /\ Becomes(r, RetransmitInitDds(rt[r]))
    /\ Late(r)

\* age_lsdbs: an LSA its originator has not refreshed for MaxAge is removed, unflooded;
\* the link databases are not aged.
AgeLsdbs(r) ==
    /\ rt[r].up = "up"
    /\ \E k \in DOMAIN rt[r].db :
        /\ Scope(k) # "link" /\ rt[k[2]].up = "down" /\ ~rt[r].db[k].max
        /\ Becomes(r, [rt[r] EXCEPT !.db = Without(@, {k})])
    /\ UNCHANGED left

Rxmt(r) ==
    /\ rt[r].up # "down"
    /\ RetransmitPending(rt[r]) # rt[r]
    /\ Becomes(r, RetransmitPending(rt[r]))
    /\ Late(r)

Refresh(r) ==
    /\ rt[r].up = "up"
    /\ Becomes(r, ReoriginateAndFlood(OriginateExternals(rt[r], r), r))
    /\ Spend("refresh")

\* BFD reports the path to q down.
ForceNeighborDown(r, q) ==
    /\ rt[r].up = "up" /\ q \in FullNeighbors(rt[r])
    /\ Becomes(r, RemoveNeighbor(rt[r], r, q))
    /\ hurt' = hurt \cup {<<"bfd", {r, q}>>}
    /\ Spend("bfd")

Shutdown(r) ==
    /\ rt[r].up = "up"
    /\ Becomes(r, [WithdrawSelfOriginated(rt[r], r) EXCEPT !.up = "stopping"])
    /\ Spend("stop")

\* The last acknowledgment has come, or the second given to them is over.
Exit(r) ==
    /\ rt[r].up = "stopping"
    /\ Becomes(r, Stopped(r, rt[r].out))
    /\ UNCHANGED left

Crash(r) ==
    /\ rt[r].up = "up"
    /\ Becomes(r, Stopped(r, rt[r].out))
    /\ Spend("crash")

SeqBound == \A r \in Routers : \A k \in OwnKeys(r) : rt[r].sq[k] <= MAX_SEQ

Ospf3Step ==
    \/ \E r \in Routers :
        \/ Start(r) \/ FireWaitTimers(r) \/ InitDds(r) \/ AgeLsdbs(r) \/ Rxmt(r) \/ Refresh(r)
        \/ Shutdown(r) \/ Exit(r) \/ Crash(r)
    \/ \E r \in Routers : \E q \in Routers \ {r} :
        \/ Hello(q, r) \/ Receive(r, q) \/ AgeNeighbors(r, q)

\* History: what r's engine has made of its own LSA k, in its database or on the wire.
Instances(r, k) ==
    {rt[r].db[k] : j \in {k} \cap DOMAIN rt[r].db}
    \cup {m.lsas[k] : m \in {x \in UNION {{rt[r].out[q][i] : i \in DOMAIN rt[r].out[q]} :
                                            q \in DOMAIN rt[r].out} :
                              x.type = "lsu" /\ k \in DOMAIN x.lsas}}

Latest(S) == IF S = {} THEN None ELSE CHOOSE x \in S : \A y \in S : ~CompareRecency(y, x)

Record == issued' = [k \in Keys |-> Latest(Instances(k[2], k)' \cup ({issued[k]} \ {None}))]

Ospf3Next ==
    /\ SeqBound
    /\ \/ Ospf3Step /\ UNCHANGED hurt
       \/ \E r \in Routers : \E q \in Routers \ {r} : Lose(r, q) \/ ForceNeighborDown(r, q)
    /\ Record /\ UNCHANGED link

Ospf3Spec == Ospf3Init /\ [][Ospf3Next]_ospf3Vars

-----------------------------------------------------------------------------
(* Properties.                                                              *)

\* r and q are past ExStart with each other, and neither has anything to send or resend.
AtRest(r, q) ==
    /\ rt[r].up = "up" /\ rt[q].up = "up" /\ ~InFlight(r, q)
    /\ \A p \in {<<r, q>>, <<q, r>>} :
        LET s == rt[p[1]]
        IN /\ p[2] \in DOMAIN s.nb /\ s.nb[p[2]].st >= EXCHANGE
           /\ s.nb[p[2]].st \in {EXCHANGE, LOADING} => s.nb[p[2]].req = {}
           /\ s.nb[p[2]].st = FULL => s.nb[p[2]].rx = NoLsas

Live(s, k) == k \in DOMAIN s.db /\ ~s.db[k].max

\* Types: what a neighbour entry, a database and the wire may hold.
Ospf3TypeOK ==
    /\ link \in LINKS
    /\ \A r \in Routers :
        LET s == rt[r]
            IsLsas(f) == \A k \in DOMAIN f : k \in Keys /\ f[k].seq \in 1 .. MAX_SEQ + 1
        IN /\ s.up \in {"up", "stopping", "down"} /\ IsLsas(s.db)
           /\ {s.dr, s.bdr} \subseteq Routers \cup {0}
           /\ link = "p2p" => s.dr = 0 /\ s.bdr = 0
           /\ \A q \in DOMAIN s.nb :
                LET n == s.nb[q]
                IN /\ q \in Routers \ {r} /\ n.st \in INIT .. FULL /\ IsLsas(n.rx)
                   /\ n.req \subseteq Keys
                   \* the lists of an adjacency live and die with it
                   /\ n.st < EXCHANGE => n.req = {} /\ n.rx = NoLsas
                   /\ n.st = FULL => n.req = {}

BothFull(r, q) == rt[r].nb[q].st = FULL /\ rt[q].nb[r].st = FULL

\* Two routers that are past ExStart with each other and have nothing in flight and
\* nothing left to resend are fully adjacent, unless a DD of their exchange was lost:
\* the code resends requests, updates and initial DDs, and these alone.
Adjacent ==
    \A r \in Routers : \A q \in Routers \ {r} :
        AtRest(r, q) /\ <<"dd", {r, q}>> \notin hurt => BothFull(r, q)

\* If both are Full, losses or not, they agree on every area-scoped LSA that
\* is not being flushed, whatever either held of an earlier life of the other
\* (DD exchange, request lists, reclaim of our own LSAs, retransmission lists).  What
\* a former DR left behind is not among them: nothing flushes it after a restart.
AreaSynchronised ==
    \A r \in Routers : \A q \in Routers \ {r} :
        AtRest(r, q) /\ BothFull(r, q) =>
            \A k \in {j \in Keys : Scope(j) = "area"} :
                (k[1] \in {"network", "network prefixes"} => rt[k[2]].origNet) =>
                    /\ Live(rt[r], k) = Live(rt[q], k)
                    /\ Live(rt[r], k) => rt[r].db[k] = rt[q].db[k]

\* The prefix of the link is never lost between the two LSAs that may carry it: of two
\* Full neighbours at rest each advertises it itself, or its Router-LSA leads to the Network-LSA
\* of a DR that does (build_router_prefix_lsa leaves it to the DR,
\* build_network_prefix_lsa takes it over).
PrefixCovered ==
    \A r \in Routers : \A q \in Routers \ {r} :
        AtRest(r, q) /\ BothFull(r, q) => \A p \in {r, q} :
            \/ Live(rt[q], RouterPrefixKey(p)) /\ rt[q].db[RouterPrefixKey(p)].body = 1
            \/ \E d \in Routers :
                /\ Live(rt[q], RouterKey(p)) /\ rt[q].db[RouterKey(p)].body % 10 = d
                /\ Live(rt[q], NetworkKey(d)) /\ Live(rt[q], NetworkPrefixKey(d))

\* An external route ends with the configuration that redistributed it: at rest no
\* Full neighbour holds a live AS-external LSA its originator no longer originates, although
\* nothing but the neighbours' databases remembers it (retired_self_external).
ExternalsOwned ==
    \A r \in Routers : \A q \in Routers \ {r} :
        AtRest(r, q) /\ BothFull(r, q) /\ Live(rt[q], ExtKey(r)) => rt[r].origExt

\* RFC 2328 13.1, independently of compare_recency.
MoreRecent(a, b) ==
    LET Rank(x) == <<x.seq, x.body, IF x.max THEN 1 ELSE 0>>
    IN \E i \in 1 .. 3 : Rank(a)[i] > Rank(b)[i] /\ \A j \in 1 .. i - 1 : Rank(a)[j] = Rank(b)[j]

\* The database promise, for the scopes that are flooded: LinkStateDb is implemented.
Db3 == INSTANCE LinkStateDb WITH
    Owner <- LAMBDA k : k[2], Newer <- MoreRecent, Lapsed <- LAMBDA i : [i EXCEPT !.max = TRUE],
    held <- [r \in Routers |-> [k \in Keys |->
                IF k \in DOMAIN rt[r].db THEN rt[r].db[k] ELSE None]],
    newest <- issued

ImplementsDb3 == Db3!DbSpec
=============================================================================
