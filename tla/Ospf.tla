-------------------------------- MODULE Ospf --------------------------------
(***************************************************************************)
(* The OSPFv2 engine (wren-daemon ospf.rs over wren-ospf's neighbour and   *)
(* interface machines, flooding rules and link-state database): routers on *)
(* one link of a single normal area discover each other with Hellos, elect *)
(* a DR on a broadcast link, exchange databases, flood and acknowledge     *)
(* LSAs, stop with or without a Grace-LSA, and start again.                *)
(*                                                                         *)
(* A router's engine is one record (`Ospf`, with the `Iface` and its       *)
(* `OspfNeighbor`s); every handler is an operator from such a record to    *)
(* the record it leaves.  The field `out` is the wire: the datagrams sent  *)
(* to each other router and not yet received, in order.                    *)
(*                                                                         *)
(* Abstracted: an LSA's body to the number that tells its versions apart   *)
(* (and stands for its checksum), ages to "at MaxAge or not", the packets  *)
(* of one flooding pass to one LSU, and a Hello to an exchange that is     *)
(* never in flight.                                                        *)
(***************************************************************************)
EXTENDS Integers, Sequences, FiniteSets, FiniteSetsExt, TLC

CONSTANTS
    Routers,        \* Router IDs (numbers: the election and the DD negotiation order them)
    ADDR,           \* the interface address of each router
    PRIORITY,       \* the Router Priority of each router
    LINKS,          \* the link types checked, a subset of {"p2p", "broadcast"}
    HELLO_LOSS,     \* may Hellos go unheard while an interface is Waiting
    ASBRS,          \* per link type, the routers an external route is redistributed into
    None,           \* no instance of an LSA
    BUDGETS,        \* per link type, how often losses, stops, changes and BFD failures may happen
    MAX_SEQ, MAX_DD

VARIABLES
    link,           \* cfg.iface_type, the same on every router
    rt,             \* the engine of each router
    left,           \* how often each of the bounded events may still happen
    issued,         \* history: the most recent instance of each LSA its owner has made
    hurt            \* history: the pairs of routers a DD of whose exchange was lost ("dd"), and
                    \* those one of which was told by BFD that the path is down ("bfd")

ospfVars == <<link, rt, left, issued, hurt>>

-----------------------------------------------------------------------------
(* LSAs and the database (lsa.rs, lsdb.rs).                                 *)

RouterKey(r) == <<"router", r>>
NetworkKey(r) == <<"network", r>>
ExtKey(r) == <<"external", r>>
OwnKeys(r) == {RouterKey(r), NetworkKey(r), ExtKey(r)}
Keys == UNION {OwnKeys(r) : r \in Routers}

NoLsas == [k \in {} |-> None]
INITIAL_SEQUENCE_NUMBER == 1

\* compare_recency = Greater: sequence number, then checksum, then MaxAge.
CompareRecency(a, b) ==
    \/ a.seq > b.seq
    \/ a.seq = b.seq /\ a.body > b.body
    \/ a.seq = b.seq /\ a.body = b.body /\ a.max /\ ~b.max

\* Lsdb::install keeps the held instance unless the offered one is newer.
Install(db, k, lsa) ==
    IF k \in DOMAIN db /\ ~CompareRecency(lsa, db[k]) THEN db ELSE (k :> lsa) @@ db

Only(f, S) == [k \in DOMAIN f \cap S |-> f[k]]
Without(f, S) == [k \in DOMAIN f \ S |-> f[k]]

-----------------------------------------------------------------------------
(* The neighbour machine (neighbor.rs `handle`).                            *)

DOWN == 0
INIT == 1
TWOWAY == 2
EXSTART == 3
EXCHANGE == 4
LOADING == 5
FULL == 6

NeighborHandle(st, ev, adjacencyOk, requestListEmpty) ==
    LET To(s, acts) == [state |-> s, acts |-> acts]
    IN CASE ev = "HelloReceived" /\ st = DOWN -> To(INIT, {})
         [] ev = "TwoWayReceived" /\ st = INIT ->
                IF adjacencyOk THEN To(EXSTART, {"StartDdExchange"}) ELSE To(TWOWAY, {})
         [] ev = "OneWayReceived" /\ st = TWOWAY -> To(INIT, {})
         [] ev = "OneWayReceived" /\ st > TWOWAY -> To(INIT, {"ClearAdjacency"})
         [] ev = "AdjOk" /\ st = TWOWAY /\ adjacencyOk -> To(EXSTART, {"StartDdExchange"})
         [] ev = "AdjOk" /\ st > TWOWAY /\ ~adjacencyOk -> To(TWOWAY, {"ClearAdjacency"})
         [] ev = "NegotiationDone" /\ st = EXSTART -> To(EXCHANGE, {})
         [] ev = "ExchangeDone" /\ st = EXCHANGE ->
                IF requestListEmpty THEN To(FULL, {"AdjacencyUp"}) ELSE To(LOADING, {})
         [] ev = "LoadingDone" /\ st = LOADING -> To(FULL, {"AdjacencyUp"})
         [] ev \in {"SeqNumberMismatch", "BadLsReq"} /\ st >= EXCHANGE ->
                To(EXSTART, {"ClearAdjacency", "StartDdExchange"})
         [] OTHER -> To(st, {})

NewNeighbor ==
    [st |-> DOWN, dd |-> 0, master |-> FALSE, sent |-> FALSE, req |-> {}, rx |-> NoLsas,
     dr |-> 0, bdr |-> 0]

FullNeighbors(s) == {q \in DOMAIN s.nb : s.nb[q].st = FULL}
Bidirectional(s) == {q \in DOMAIN s.nb : s.nb[q].st >= TWOWAY}

\* A neighbour is looked up by its source address on a link that elects a DR.
NbrId(q) == IF link = "broadcast" THEN ADDR[q] ELSE q

Send(s, q, msg) == [s EXCEPT !.out[q] = Append(@, msg)]

-----------------------------------------------------------------------------
(* The DR election (interface.rs).                                          *)

Best(pool) ==
    IF pool = {} THEN 0
    ELSE (CHOOSE c \in pool : \A d \in pool :
            d.prio < c.prio \/ (d.prio = c.prio /\ d.id <= c.id)).id

CalcBdr(cands) ==
    LET notDr == {c \in cands : c.prio > 0 /\ c.dr # c.id}
        self == {c \in notDr : c.bdr = c.id}
    IN Best(IF self = {} THEN notDr ELSE self)

CalcDr(cands, bdr) ==
    LET dr == Best({c \in cands : c.prio > 0 /\ c.dr = c.id})
    IN IF dr = 0 THEN bdr ELSE dr

\* elect_dr_bdr, with the recomputation when the calculating router's own role flips.
ElectDrBdr(cands, me) ==
    LET bdr == CalcBdr(cands)
        dr == CalcDr(cands, bdr)
        own == CHOOSE c \in cands : c.id = me
        flipped == (own.dr = me) # (dr = me) \/ (own.bdr = me) # (bdr = me)
        again == {IF c.id = me THEN [c EXCEPT !.dr = dr, !.bdr = bdr] ELSE c : c \in cands}
        bdr2 == CalcBdr(again)
    IN IF flipped THEN <<CalcDr(again, bdr2), bdr2>> ELSE <<dr, bdr>>

Candidate(q, dr, bdr) == [id |-> q, prio |-> PRIORITY[q], dr |-> dr, bdr |-> bdr]

Candidates(s) == {Candidate(q, s.nb[q].dr, s.nb[q].bdr) : q \in Bidirectional(s)}

RunElection(s, r) ==
    LET e == ElectDrBdr(Candidates(s) \cup {Candidate(r, s.dr, s.bdr)}, r)
    IN [s EXCEPT !.dr = e[1], !.bdr = e[2],
                 !.ifs = IF e[1] = r THEN "Dr" ELSE IF e[2] = r THEN "Backup" ELSE "DrOther"]

InterfaceHandle(s, r, ev) ==
    IF \/ ev \in {"WaitTimer", "BackupSeen"} /\ s.ifs = "Waiting"
       \/ ev = "NeighborChange" /\ s.ifs \in {"DrOther", "Backup", "Dr"}
    THEN RunElection(s, r) ELSE s

AdjacencyOk(s, r, q) ==
    LET rid == IF q \in DOMAIN s.nb THEN q ELSE NbrId(q)
    IN link = "p2p" \/ r \in {s.dr, s.bdr} \/ rid \in {s.dr, s.bdr}

AddrToRouterId(s, r, addr) ==
    IF addr = ADDR[r] THEN r
    ELSE LET known == {q \in DOMAIN s.nb : ADDR[q] = addr}
         IN IF addr = 0 \/ known = {} THEN 0 ELSE CHOOSE q \in known : TRUE

RouterIdToAddr(s, r, id) ==
    IF id = r \/ id \in DOMAIN s.nb THEN ADDR[id] ELSE 0

-----------------------------------------------------------------------------
(* Origination and flooding.                                                *)

\* Flood `lsas` to every Full neighbour but `except`, and expect acknowledgments.
FloodExcept(s, lsas, except) ==
    LET to == FullNeighbors(s) \ except
    IN IF lsas = NoLsas THEN s
       ELSE [s EXCEPT
            !.out = [q \in DOMAIN s.out |->
                        IF q \in to THEN Append(s.out[q], [type |-> "lsu", lsas |-> lsas])
                        ELSE s.out[q]],
            !.nb = [q \in DOMAIN s.nb |->
                        IF q \in to THEN [s.nb[q] EXCEPT !.rx = lsas @@ @] ELSE s.nb[q]]]

\* The sequence number is used and not advanced.
InstallReused(s, k, body, max) ==
    [s EXCEPT !.db = (k :> [seq |-> s.sq[k], body |-> body, max |-> max]) @@ @]

\* install_originated: the next sequence number, into the database.
InstallOriginated(s, k, body, max) ==
    [s EXCEPT !.sq[k] = @ + 1,
              !.db = Install(@, k, [seq |-> s.sq[k], body |-> body, max |-> max])]

Made(s, k, body, max) == k :> [seq |-> s.sq[k], body |-> body, max |-> max]

IsAsbr(s) == s.ext

\* The links of the Router-LSA: the Full neighbours on a point-to-point link, the
\* DR once fully adjacent to it on a broadcast link; and the ASBR flag.
TransitDr(s, r) ==
    IF (s.dr = r /\ FullNeighbors(s) # {}) \/ s.dr \in FullNeighbors(s) THEN s.dr ELSE 0

RouterLsaBody(s, r) ==
    (IF IsAsbr(s) THEN 10 ELSE 0)
      + IF link = "p2p" THEN Cardinality(FullNeighbors(s)) ELSE TransitDr(s, r)

WantsNetworkLsa(s, r) == link = "broadcast" /\ s.dr = r /\ FullNeighbors(s) # {}

OriginateExternals(s, r) ==
    LET k == ExtKey(r)
        flush == s.origExt /\ ~s.ext /\ k \in DOMAIN s.db
        body == IF s.ext THEN 1 ELSE s.db[k].body
    IN IF s.ext \/ flush
       THEN FloodExcept([InstallOriginated(s, k, body, ~s.ext) EXCEPT !.origExt = s.ext],
                        Made(s, k, body, ~s.ext), {})
       ELSE [s EXCEPT !.origExt = FALSE]

ReoriginateAndFlood(s, r) ==
    LET rk == RouterKey(r)
        nk == NetworkKey(r)
        body == RouterLsaBody(s, r)
        s1 == InstallOriginated(s, rk, body, FALSE)
        want == WantsNetworkLsa(s, r)
        flush == s.origNet /\ ~want /\ nk \in DOMAIN s.db
        nbody == IF want THEN 1 + Cardinality(FullNeighbors(s)) ELSE s.db[nk].body
        made == Made(s, rk, body, FALSE)
    IN IF want \/ flush
       THEN FloodExcept([InstallOriginated(s1, nk, nbody, ~want) EXCEPT !.origNet = want],
                        made @@ Made(s, nk, nbody, ~want), {})
       ELSE FloodExcept([s1 EXCEPT !.origNet = FALSE], made, {})

\* on_adjacency_full: externals, our own retired externals, then everything else.
OnAdjacencyFull(s, r) ==
    LET s1 == OriginateExternals(s, r)
        retired == [k \in {ExtKey(r)} \cap DOMAIN s1.db |-> s1.db[k]]
        s2 == IF retired # NoLsas /\ retired[ExtKey(r)].max
              THEN FloodExcept(s1, retired, {}) ELSE s1
    IN ReoriginateAndFlood(s2, r)

-----------------------------------------------------------------------------
(* Acting on the neighbour machine (act_on_neighbor, start_dd_exchange).    *)

InitDd(seq) == [type |-> "dd", init |-> TRUE, master |-> TRUE, seq |-> seq, hdrs |-> NoLsas]

StartDdExchange(s, q) ==
    LET seq == (s.nextDd % MAX_DD) + 1
    IN Send([s EXCEPT !.nextDd = seq,
                      !.nb[q] = [@ EXCEPT !.dd = seq, !.master = TRUE, !.sent = FALSE,
                                          !.req = {}, !.rx = NoLsas]],
            q, InitDd(seq))

ClearAdjacency(s, q) ==
    [s EXCEPT !.nb[q] = [@ EXCEPT !.req = {}, !.rx = NoLsas, !.sent = FALSE]]

ActOnNeighbor(s, r, q, acts) ==
    LET s1 == IF "ClearAdjacency" \in acts THEN ClearAdjacency(s, q) ELSE s
        s2 == IF "StartDdExchange" \in acts THEN StartDdExchange(s1, q) ELSE s1
    IN IF "AdjacencyUp" \in acts THEN OnAdjacencyFull(s2, r) ELSE s2

\* Drive the neighbour machine with one event and act on what it asks for.
NeighborEvent(s, r, q, ev, ok) ==
    LET h == NeighborHandle(s.nb[q].st, ev, ok, s.nb[q].req = {})
    IN ActOnNeighbor([s EXCEPT !.nb[q].st = h.state], r, q, h.acts)

ReevalAdjacencies(s, r) ==
    FoldSet(LAMBDA q, t : NeighborEvent(t, r, q, "AdjOk", AdjacencyOk(t, r, q)),
            s, Bidirectional(s))

\* Run an interface event; after a changed election every neighbour is re-judged.
Elected(s, t, r) == IF <<s.dr, s.bdr>> # <<t.dr, t.bdr>> THEN ReevalAdjacencies(t, r) ELSE t

-----------------------------------------------------------------------------
(* Hellos (send_hellos, handle_hello).                                      *)

HelloOf(s, r) ==
    [dr |-> RouterIdToAddr(s, r, s.dr), bdr |-> RouterIdToAddr(s, r, s.bdr),
     nbrs |-> {q \in DOMAIN s.nb : s.nb[q].st >= INIT}]

HandleHello(s, r, q, h) ==
    LET ok == AdjacencyOk(s, r, q)
        n0 == IF q \in DOMAIN s.nb THEN s.nb[q] ELSE NewNeighbor
        hello == NeighborHandle(n0.st, "HelloReceived", ok, n0.req = {})
        way == NeighborHandle(hello.state,
                              IF r \in h.nbrs THEN "TwoWayReceived" ELSE "OneWayReceived",
                              ok, n0.req = {})
        n1 == [n0 EXCEPT !.st = way.state, !.dr = AddrToRouterId(s, r, h.dr),
                         !.bdr = AddrToRouterId(s, r, h.bdr)]
        s1 == [s EXCEPT !.nb = (q :> n1) @@ @,
                        !.help = [p \in DOMAIN @ |-> @[p] \/ p = q]]
        s2 == IF s.ifs = "Waiting" /\ (h.dr # 0 \/ h.bdr # 0)
              THEN InterfaceHandle(s1, r, "BackupSeen")
              ELSE IF (n0.st >= TWOWAY) # (n1.st >= TWOWAY)
              THEN InterfaceHandle(s1, r, "NeighborChange") ELSE s1
        s3 == ActOnNeighbor(s2, r, q, way.acts)
    IN IF <<s.dr, s.bdr>> # <<s2.dr, s2.bdr>> THEN ReevalAdjacencies(s3, r) ELSE s3

-----------------------------------------------------------------------------
(* Database exchange (handle_dd and what it calls).                         *)

SendExchangeDd(s, q) ==
    LET n == s.nb[q]
    IN Send([s EXCEPT !.nb[q].sent = TRUE], q,
            [type |-> "dd", init |-> FALSE, master |-> n.master, seq |-> n.dd,
             hdrs |-> IF n.sent THEN NoLsas ELSE s.db])

ProcessDdHeaders(s, q, hdrs) ==
    [s EXCEPT !.nb[q].req = @ \cup
        {k \in DOMAIN hdrs : k \notin DOMAIN s.db \/ CompareRecency(hdrs[k], s.db[k])}]

NegotiationDone(s, q, master, seq) ==
    SendExchangeDd([s EXCEPT !.nb[q] = [@ EXCEPT !.master = master, !.dd = seq, !.st = EXCHANGE]], q)

SendLsr(s, q) ==
    IF s.nb[q].req = {} THEN s ELSE Send(s, q, [type |-> "lsr", keys |-> s.nb[q].req])

ExchangeDone(s, r, q) ==
    LET h == NeighborHandle(s.nb[q].st, "ExchangeDone", TRUE, s.nb[q].req = {})
        s1 == [s EXCEPT !.nb[q].st = h.state]
    IN ActOnNeighbor(IF h.state = LOADING THEN SendLsr(s1, q) ELSE s1, r, q, h.acts)

DdSeqnumMismatch(init, recvMaster, master) == init \/ recvMaster = master

ExchangeDd(s, r, q, dd) ==
    LET n == s.nb[q]
        seen == ProcessDdHeaders(s, q, dd.hdrs)
    IN IF DdSeqnumMismatch(dd.init, dd.master, n.master)
       THEN NeighborEvent(s, r, q, "SeqNumberMismatch", FALSE)
       ELSE IF n.master
       THEN IF dd.seq # n.dd THEN s
            ELSE IF n.sent THEN ExchangeDone(seen, r, q)
            ELSE SendExchangeDd([seen EXCEPT !.nb[q].dd = n.dd + 1], q)
       ELSE IF dd.seq = n.dd THEN SendExchangeDd(s, q)
       ELSE ExchangeDone(SendExchangeDd([seen EXCEPT !.nb[q].dd = dd.seq], q), r, q)

HandleDd(s, r, q, dd) ==
    LET n == s.nb[q]
    IN CASE n.st = EXSTART /\ dd.init /\ NbrId(q) > r -> NegotiationDone(s, q, FALSE, dd.seq)
         [] n.st = EXSTART /\ ~dd.init /\ ~dd.master /\ NbrId(q) < r /\ dd.seq = n.dd ->
                NegotiationDone(ProcessDdHeaders(s, q, dd.hdrs), q, TRUE, n.dd + 1)
         [] n.st >= EXCHANGE -> ExchangeDd(s, r, q, dd)
         [] OTHER -> s

-----------------------------------------------------------------------------
(* Link State Requests, Updates and Acknowledgments.                        *)

HandleLsr(s, q, keys) ==
    LET lsas == Only(s.db, keys)
    IN IF lsas = NoLsas THEN s ELSE Send(s, q, [type |-> "lsu", lsas |-> lsas])

ClearAcked(s, q, hdrs) ==
    [s EXCEPT !.nb[q].rx = [k \in {j \in DOMAIN @ : ~(j \in DOMAIN hdrs /\ hdrs[j].seq >= @[j].seq)}
                                |-> @[k]]]

AnyNeighborExchanging(s) == \E q \in DOMAIN s.nb : s.nb[q].st \in {EXCHANGE, LOADING}

\* decide_flood; `soon` says the last install of k was less than MinLSArrival ago.
DecideFlood(s, q, k, lsa, soon) ==
    IF k \notin DOMAIN s.db
    THEN IF lsa.max /\ ~AnyNeighborExchanging(s) THEN "DirectAck" ELSE "Install"
    ELSE IF CompareRecency(lsa, s.db[k])
    THEN IF soon THEN "Discard" ELSE "Install"
    ELSE IF k \in s.nb[q].req THEN "BadLsReq"
    ELSE IF CompareRecency(s.db[k], lsa) THEN "SendBack"
    ELSE IF k \in DOMAIN s.nb[q].rx THEN "ImpliedAck" ELSE "DirectAck"

\* A self-originated external that is no longer wanted is only outnumbered.
RetiredNever(s, r, lsas, took) == NoLsas

\* retired_self_external: our own external came back and we no longer originate it.
Retired(s, r, lsas, took) ==
    [k \in {ExtKey(r)} \cap {j \in took : ~s.origExt} |-> [lsas[k] EXCEPT !.max = TRUE]]

LoadingDone(s, r, q) ==
    IF s.nb[q].st = LOADING /\ s.nb[q].req = {}
    THEN NeighborEvent(s, r, q, "LoadingDone", FALSE) ELSE s

HandleLsu(s, r, q, lsas, soon) ==
    LET Decided(d) == {k \in DOMAIN lsas : DecideFlood(s, q, k, lsas[k], k \in soon) = d}
        took == Decided("Install")
        own == took \cap OwnKeys(r)
        foreign == Only(lsas, took \ own)
        retired == Retired(s, r, lsas, took)
        s1 == FloodExcept(
                [s EXCEPT
                    !.nb = [p \in DOMAIN @ |-> [@[p] EXCEPT !.req = @ \ took]],
                    !.sq = [k \in DOMAIN @ |-> IF k \in own THEN lsas[k].seq + 1 ELSE @[k]],
                    !.db = foreign @@ (IF retired = NoLsas THEN @
                                       ELSE Install(@, ExtKey(r), retired[ExtKey(r)])),
                    !.timed = @ \cup DOMAIN foreign],
                retired, {})
        back == Only(s1.db, Decided("SendBack"))
        s2 == IF back = NoLsas THEN s1 ELSE Send(s1, q, [type |-> "lsu", lsas |-> back])
        s3 == ClearAcked(s2, q, Only(lsas, Decided("ImpliedAck")))
        acks == Only(lsas, took \cup Decided("DirectAck"))
        s4 == IF acks = NoLsas THEN s3 ELSE Send(s3, q, [type |-> "ack", hdrs |-> acks])
        s5 == FloodExcept(s4, foreign, {q})
        reclaim == own \ DOMAIN retired # {}
        s6 == IF reclaim THEN ReoriginateAndFlood(OriginateExternals(s5, r), r) ELSE s5
    IN IF Decided("BadLsReq") # {} THEN NeighborEvent(s1, r, q, "BadLsReq", FALSE)
       ELSE LoadingDone(s6, r, q)

\* handle_grace_lsa: only a Full neighbour is helped; `help` is keyed as the
\* neighbour map is, and remembers whether a Hello has come since.
HandleGraceLsa(s, q) ==
    LET s1 == Send(s, q, [type |-> "ack", hdrs |-> NoLsas])
    IN IF NbrId(q) \in FullNeighbors(s) THEN [s1 EXCEPT !.help = (NbrId(q) :> FALSE) @@ @] ELSE s1

\* handle_packet: `acks_only` while the engine is stopping.
HandlePacket(s, r, q, m, soon) ==
    CASE q \notin DOMAIN s.nb -> s
      [] m.type = "ack" -> ClearAcked(s, q, m.hdrs)
      [] s.up = "stopping" -> s
      [] m.type = "dd" -> HandleDd(s, r, q, m)
      [] m.type = "lsr" -> HandleLsr(s, q, m.keys)
      [] m.type = "lsu" -> HandleLsu(s, r, q, m.lsas, soon)
      [] m.type = "grace" -> HandleGraceLsa(s, q)

-----------------------------------------------------------------------------
(* Timers, redistribution, BFD, shutdown.                                   *)

RemoveNeighbor(s, r, q) ==
    LET s1 == [s EXCEPT !.nb = Without(@, {q})]
    IN ReoriginateAndFlood(Elected(s1, InterfaceHandle(s1, r, "NeighborChange"), r), r)

\* age_neighbors for q: helper upkeep, then the inactivity timeout.
AgeNeighbors(s, r, q, expired, silent) ==
    LET s1 == [s EXCEPT !.help =
                [p \in {x \in DOMAIN @ : ~@[x] /\ ~(x = q /\ expired)} |-> @[p]]]
    IN IF silent /\ q \notin DOMAIN s1.help THEN RemoveNeighbor(s1, r, q) ELSE s1

\* retransmit_pending: unacknowledged LSAs to a Full neighbour, open requests before.
RetransmitPending(s) ==
    LET Msgs(n) ==
            (IF n.st = FULL /\ n.rx # NoLsas THEN <<[type |-> "lsu", lsas |-> n.rx]>> ELSE <<>>)
            \o (IF n.st \in {EXCHANGE, LOADING} /\ n.req # {}
                THEN <<[type |-> "lsr", keys |-> n.req]>> ELSE <<>>)
    IN [s EXCEPT !.out = [q \in DOMAIN @ |->
            IF q \in DOMAIN s.nb THEN @[q] \o Msgs(s.nb[q]) ELSE @[q]]]

RetransmitInitDds(s) ==
    [s EXCEPT !.out = [q \in DOMAIN @ |->
        IF q \in DOMAIN s.nb /\ s.nb[q].st = EXSTART THEN Append(@[q], InitDd(s.nb[q].dd)) ELSE @[q]]]

\* apply_redistribution: the ASBR bit of the Router-LSA first, then the externals.
ApplyRedistribution(s, r, ext) ==
    OriginateExternals(ReoriginateAndFlood([s EXCEPT !.ext = ext], r), r)

\* shutdown_lsas: our own live LSAs, prematurely aged under the same sequence number.
ShutdownLsas(s, r) ==
    [k \in {j \in DOMAIN s.db \cap OwnKeys(r) : ~s.db[j].max} |-> [s.db[k] EXCEPT !.max = TRUE]]

WithdrawSelfOriginated(s, r) ==
    FloodExcept([s EXCEPT !.nb = [q \in DOMAIN @ |-> [@[q] EXCEPT !.rx = NoLsas]]],
                ShutdownLsas(s, r), {})

OriginateGraceLsas(s) ==
    [s EXCEPT !.out = [q \in DOMAIN @ |->
        IF q \in FullNeighbors(s) THEN Append(@[q], [type |-> "grace"]) ELSE @[q]]]

\* A stopped engine: nothing survives but the datagrams already sent.
Stopped(r, out) ==
    [up |-> "down", ifs |-> "Down", dr |-> 0, bdr |-> 0, nb |-> NoLsas, db |-> NoLsas,
     sq |-> [k \in OwnKeys(r) |-> INITIAL_SEQUENCE_NUMBER], ext |-> FALSE, origExt |-> FALSE,
     origNet |-> FALSE, nextDd |-> 0, help |-> NoLsas, timed |-> {}, out |-> out]

\* run: bring the interface up and originate, before the first event.
Started(r, ext, out) ==
    LET s == [Stopped(r, out) EXCEPT !.up = "up", !.ext = ext,
                !.ifs = IF link = "p2p" THEN "PointToPoint" ELSE "Waiting"]
    IN ReoriginateAndFlood(OriginateExternals(s, r), r)

-----------------------------------------------------------------------------
(* The system.                                                              *)

OspfInit ==
    /\ link \in LINKS
    /\ rt = [r \in Routers |-> Stopped(r, [q \in Routers \ {r} |-> <<>>])]
    /\ left \in BUDGETS[link]
    /\ issued = [k \in Keys |-> None] /\ hurt = {}

Spend(e) == left[e] > 0 /\ left' = [left EXCEPT ![e] = @ - 1]

InFlight(r, q) == rt[r].out[q] # <<>> \/ rt[q].out[r] # <<>>

Becomes(r, s) == rt' = [rt EXCEPT ![r] = s]

\* The engine starts; its first Hello goes out at once.
Start(r) ==
    /\ rt[r].up = "down"
    /\ \E ext \in {FALSE, (r \in ASBRS[link])} :
        LET s == Started(r, ext, rt[r].out)
        IN rt' = [q \in Routers |->
                    IF q = r THEN s
                    ELSE IF rt[q].up = "up" /\ ~HELLO_LOSS
                    THEN HandleHello(rt[q], q, r, HelloOf(s, r)) ELSE rt[q]]
    /\ UNCHANGED left

Hello(q, r) ==
    /\ rt[q].up = "up" /\ rt[r].up = "up"
    /\ Becomes(r, HandleHello(rt[r], r, q, HelloOf(rt[q], q)))
    /\ UNCHANGED left

\* The next datagram from q reaches r; nobody reads it when the engine is down.
Receive(r, q) ==
    LET m == Head(rt[q].out[r])
        eaten == [rt EXCEPT ![q].out[r] = Tail(@)]
        limited == IF m.type = "lsu" THEN rt[r].timed \cap DOMAIN m.lsas ELSE {}
    IN /\ rt[q].out[r] # <<>>
       /\ \/ rt[r].up = "down" /\ rt' = eaten /\ UNCHANGED left
          \/ /\ rt[r].up # "down"
             /\ rt' = [eaten EXCEPT ![r] = HandlePacket(rt[r], r, q, m, {})]
             /\ UNCHANGED left
          \/ \* an LSA newer than one installed less than MinLSArrival ago
             /\ rt[r].up = "up" /\ limited # {}
             /\ rt' = [eaten EXCEPT ![r] = HandlePacket(rt[r], r, q, m, limited)]
             /\ Spend("loss")

\* The wire loses a datagram.  A DD of the exchange is never resent (only an initial
\* one is, `retransmit_init_dds`).
Lose(r, q) ==
    /\ rt[q].out[r] # <<>>
    /\ rt' = [rt EXCEPT ![q].out[r] = Tail(@)]
    /\ LET m == Head(rt[q].out[r])
       IN hurt' = IF m.type = "dd" /\ ~m.init THEN hurt \cup {<<"dd", {r, q}>>} ELSE hurt
    /\ Spend("loss")

\* r has heard which DR and BDR q declares now.  The wait timer runs for a whole dead
\* interval, several Hellos of every router on the link.
HasHeard(r, q) ==
    LET s == rt[r]
        h == HelloOf(rt[q], q)
    IN /\ q \in DOMAIN s.nb
       /\ s.nb[q].dr = AddrToRouterId(s, r, h.dr) /\ s.nb[q].bdr = AddrToRouterId(s, r, h.bdr)

\* Housekeeping: neighbours, the wait timer and the initial DDs.
Housekeeping(r) ==
    /\ rt[r].up = "up"
    /\ \/ \E q \in DOMAIN rt[r].nb, expired \in BOOLEAN :
            /\ rt[q].up # "up" \/ q \in DOMAIN rt[r].help
            /\ Becomes(r, AgeNeighbors(rt[r], r, q, expired, rt[q].up # "up"))
       \/ /\ HELLO_LOSS \/ \A q \in Routers \ {r} : rt[q].up = "up" => HasHeard(r, q)
          /\ Becomes(r, Elected(rt[r], InterfaceHandle(rt[r], r, "WaitTimer"), r))
    /\ UNCHANGED left

\* Retransmission timers are seconds long: they run once an answer has had its time to
\* come, or, counted as a loss, while a delayed one is still on its way.
Late(r) ==
    IF \E q \in Routers \ {r} : InFlight(r, q) THEN Spend("loss") ELSE UNCHANGED left

InitDds(r) ==
    /\ rt[r].up = "up"
    /\ \E q \in DOMAIN rt[r].nb : rt[r].nb[q].st = EXSTART
    /\ Becomes(r, RetransmitInitDds(rt[r]))
    /\ Late(r)

\* age_lsdbs: an LSA its originator has not refreshed for MaxAge is removed, unflooded.
AgeLsdbs(r) ==
    /\ rt[r].up = "up"
    /\ \E k \in DOMAIN rt[r].db :
        /\ rt[k[2]].up = "down" /\ ~rt[r].db[k].max
        /\ Becomes(r, [rt[r] EXCEPT !.db = Without(@, {k})])
    /\ UNCHANGED left

Rxmt(r) ==
    /\ rt[r].up # "down"
    /\ RetransmitPending(rt[r]) # rt[r]
    /\ Becomes(r, RetransmitPending(rt[r]))
    /\ Late(r)

Refresh(r) ==
    /\ rt[r].up = "up"
    /\ Becomes(r, ReoriginateAndFlood(OriginateExternals(rt[r], r), r))
    /\ Spend("change")

Redistribute(r) ==
    /\ rt[r].up = "up" /\ r \in ASBRS[link]
    /\ Becomes(r, ApplyRedistribution(rt[r], r, ~rt[r].ext))
    /\ Spend("change")

\* force_neighbor_down: BFD reports the path to q down.
BfdDown(r, q) ==
    /\ rt[r].up = "up" /\ q \in FullNeighbors(rt[r]) /\ q \notin DOMAIN rt[r].help
    /\ Becomes(r, RemoveNeighbor(rt[r], r, q))
    /\ hurt' = hurt \cup {<<"bfd", {r, q}>>}
    /\ Spend("bfd")

Shutdown(r) ==
    /\ rt[r].up = "up"
    /\ \/ Becomes(r, Stopped(r, OriginateGraceLsas(rt[r]).out))
       \/ Becomes(r, [WithdrawSelfOriginated(rt[r], r) EXCEPT !.up = "stopping"])
    /\ Spend("stop")

\* The last acknowledgment has come, or the second given to them is over.
Exit(r) ==
    /\ rt[r].up = "stopping"
    /\ Becomes(r, Stopped(r, rt[r].out))
    /\ UNCHANGED left

SeqBound == \A r \in Routers : \A k \in OwnKeys(r) : rt[r].sq[k] <= MAX_SEQ

OspfStep ==
    \/ \E r \in Routers :
        \/ Start(r) \/ Housekeeping(r) \/ InitDds(r) \/ AgeLsdbs(r) \/ Rxmt(r) \/ Refresh(r)
        \/ Redistribute(r) \/ Shutdown(r) \/ Exit(r)
    \/ \E r \in Routers : \E q \in Routers \ {r} :
        Hello(q, r) \/ Receive(r, q)

\* History: what r's engine has made of its own LSA k, in its database or on the wire.
Instances(r, k) ==
    {rt[r].db[k] : j \in {k} \cap DOMAIN rt[r].db}
    \cup {m.lsas[k] : m \in {x \in UNION {{rt[r].out[q][i] : i \in DOMAIN rt[r].out[q]} :
                                            q \in DOMAIN rt[r].out} :
                              x.type = "lsu" /\ k \in DOMAIN x.lsas}}

Latest(S) == IF S = {} THEN None ELSE CHOOSE x \in S : \A y \in S : ~CompareRecency(y, x)

Record == issued' = [k \in Keys |-> Latest(Instances(k[2], k)' \cup ({issued[k]} \ {None}))]

OspfNext ==
    /\ SeqBound
    /\ \/ OspfStep /\ UNCHANGED hurt
       \/ \E r \in Routers : \E q \in Routers \ {r} : Lose(r, q) \/ BfdDown(r, q)
    /\ Record /\ UNCHANGED link

OspfSpec == OspfInit /\ [][OspfNext]_ospfVars

-----------------------------------------------------------------------------
(* Properties.                                                              *)

\* r and q are past ExStart with each other, and neither has anything to send or resend.
AtRest(r, q) ==
    /\ rt[r].up = "up" /\ rt[q].up = "up" /\ ~InFlight(r, q)
    /\ \A p \in {<<r, q>>, <<q, r>>} :
        LET s == rt[p[1]]
        IN /\ p[2] \in DOMAIN s.nb /\ s.nb[p[2]].st >= EXCHANGE
           /\ s.nb[p[2]].st \in {EXCHANGE, LOADING} => s.nb[p[2]].req = {}
           /\ s.nb[p[2]].st = FULL => s.nb[p[2]].rx = NoLsas

Current(db) ==
    [k \in {j \in DOMAIN db : ~db[j].max /\ (j[1] = "network" => rt[j[2]].origNet)} |-> db[k]]

\* Types: what a neighbour entry, a database and the wire may hold.
OspfTypeOK ==
    /\ link \in LINKS
    /\ \A r \in Routers :
        LET s == rt[r]
            IsLsas(f) == \A k \in DOMAIN f : k \in Keys /\ f[k].seq \in 1 .. MAX_SEQ + 1
        IN /\ s.up \in {"up", "stopping", "down"} /\ IsLsas(s.db)
           /\ {s.dr, s.bdr} \subseteq Routers \cup {0}
           /\ link = "p2p" => s.dr = 0 /\ s.bdr = 0
           /\ \A q \in DOMAIN s.nb :
                LET n == s.nb[q]
                IN /\ q \in Routers \ {r} /\ n.st \in INIT .. FULL /\ IsLsas(n.rx)
                   /\ n.req \subseteq Keys
                   \* the lists of an adjacency live and die with it
                   /\ n.st < EXCHANGE => n.req = {} /\ n.rx = NoLsas
                   /\ n.st = FULL => n.req = {}

BothFull(r, q) == rt[r].nb[q].st = FULL /\ rt[q].nb[r].st = FULL

\* Two routers that are past ExStart with each other and have nothing in flight and
\* nothing left to resend are fully adjacent, unless a DD of their exchange was lost:
\* the code resends requests, updates and initial DDs, and these alone.
Adjacent ==
    \A r \in Routers : \A q \in Routers \ {r} :
        AtRest(r, q) /\ <<"dd", {r, q}>> \notin hurt => BothFull(r, q)

\* One of them is the master, the one with the higher Router ID.  `handle_dd` compares
\* the neighbour's address instead on a link that elects a DR: where addresses and IDs
\* are in different orders, no two routers come past ExStart together.
OneMaster ==
    \A r \in Routers : \A q \in Routers \ {r} :
        AtRest(r, q) => /\ rt[r].nb[q].master # rt[q].nb[r].master
                        /\ rt[r].nb[q].master <=> r > q

\* If both are Full, losses or not, their databases agree on every LSA
\* that is not being flushed: nothing of an earlier life of either router survives
\* (DD exchange, request lists, §13.4 reclaim, retransmission lists).  The one LSA left
\* out is a Network-LSA its router no longer originates: after a restart nothing
\* flushes the copy a neighbour kept (`retired_self_external` is for externals only).
Synchronised ==
    \A r \in Routers : \A q \in Routers \ {r} :
        AtRest(r, q) /\ BothFull(r, q) => Current(rt[r].db) = Current(rt[q].db)

\* On a broadcast link two Full neighbours at rest have elected the same DR, so that
\* their Router-LSAs meet in one Network-LSA, unless BFD has parted them: the one it told
\* elects without the other, whose next Hello is read before its sender is known, and
\* a declared DR that changes later runs no election.
DrAgreed ==
    \A r \in Routers : \A q \in Routers \ {r} :
        AtRest(r, q) /\ BothFull(r, q) /\ link = "broadcast" /\ <<"bfd", {r, q}>> \notin hurt =>
             rt[r].dr = rt[q].dr

\* RFC 2328 13.1, independently of compare_recency.
MoreRecent(a, b) ==
    LET Rank(x) == <<x.seq, x.body, IF x.max THEN 1 ELSE 0>>
    IN \E i \in 1 .. 3 : Rank(a)[i] > Rank(b)[i] /\ \A j \in 1 .. i - 1 : Rank(a)[j] = Rank(b)[j]

\* The database promise: the engines implement LinkStateDb.
Db == INSTANCE LinkStateDb WITH
    Owner <- LAMBDA k : k[2], Newer <- MoreRecent, Lapsed <- LAMBDA i : [i EXCEPT !.max = TRUE],
    held <- [r \in Routers |-> [k \in Keys |->
                IF k \in DOMAIN rt[r].db THEN rt[r].db[k] ELSE None]],
    newest <- issued

ImplementsDb == Db!DbSpec
=============================================================================
