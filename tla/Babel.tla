------------------------------- MODULE Babel -------------------------------
(* Babel on every router of a small network: the neighbour and route tables   *)
(* of wren-babel and the engine that drives them (babel.rs).                  *)
(*                                                                            *)
(* An engine is one task and an arm of its select! one action.  A tick is a   *)
(* Hello interval.  A link joins two routers; a datagram sent while it is     *)
(* down, or when WIRE are in flight, is lost.  Every router is a Wren, so an  *)
(* Update carries the sequence number OUR_SEQNO and no Next Hop.              *)
EXTENDS Integers, Sequences, SequencesExt, FiniteSets

CONSTANTS
    Router,         \* the routers, which are their router-ids and addresses too
    Net,            \* the prefixes
    Link,           \* the links: sets of two routers
    OWN,            \* self_prefixes of each router
    REDISTRIBUTES,  \* the routers with `redistribute` configured
    MORTAL,         \* the routers whose engine a reload may restart
    FRAGILE,        \* the links that may fail
    LESS,           \* LESS[n]: the rank of an address in the order of the keys
    REDIST,         \* redistribute_metric
    COST,           \* NOMINAL_RXCOST
    INF,            \* METRIC_INFINITY
    BFD,            \* BFD is enabled
    UPDATE,         \* UPDATE_SECS
    HELLO_TIMEOUT,  \* HELLO_TIMEOUT
    IHU_TIMEOUT,    \* IHU_TIMEOUT
    WIRE,           \* bound: datagrams in flight between two routers
    FAULTS          \* bound: failures, reloads and redistribution changes

VARIABLES
    nbr,        \* nbr[r][n]: the Neighbour entry r keeps for n
    fds,        \* fds[r][p][o]: the feasibility distance for p as originated by o
    routes,     \* routes[r][p][o][n]: the RouteEntry for the source <<p, o>> via n
    selected,   \* selected[r][p]: the route selected for p
    relayed,    \* relayed[r][p]: the origin and metric r re-advertises p with
    redist,     \* redist[r]: redistributed prefixes
    retractions,\* retractions[r]: prefixes to retract with the next Update
    rib,        \* rib[r][p]: the Babel candidate the router task of r has for p
    timer,      \* timer[r]: time left to the periodic Update
    todo,       \* todo[r]: the arms r has still to run in this interval
    air,        \* air[n][r]: datagrams from n to r
    working,    \* the links that work
    restarted,  \* the routers a reload has restarted
    faults      \* the failures, reloads and redistribution changes so far

babelVars == <<nbr, fds, routes, selected, relayed, redist, retractions, rib,
               timer, todo, air, working, restarted, faults>>

OUR_SEQNO == 1
NoFd    == [seqno |-> 0, metric |-> INF]
NoRoute == [seqno |-> 0, advertised |-> INF, cost |-> INF, feasible |-> FALSE]
Nothing == [origin |-> "none", via |-> "none", metric |-> 0]
NoRelay == [origin |-> "none", seqno |-> 0, metric |-> 0]
NoCandidate == [via |-> "none", metric |-> 0, pinned |-> FALSE]
Disturb == faults < FAULTS /\ faults' = faults + 1
Neighbours(r) == {n \in Router : {r, n} \in Link /\ n # r}
----------------------------------------------------------------------------
(* The neighbour table *)

\* Neighbour: the last three bits of the Hello history, how far n has got past the
\* Hello expected (3 stands for more, Restarted for a number that went backwards),
\* the cost n reports for us, and the ages of its last Hello and IHU.
Restarted == -1
Neighbour == [known : BOOLEAN, history : 0 .. 7, gap : Restarted .. 3,
              txcost : {COST, INF}, hello : 0 .. HELLO_TIMEOUT + 1, ihu : 0 .. IHU_TIMEOUT + 1]
Unknown == [known |-> FALSE, history |-> 0, gap |-> 0, txcost |-> INF,
            hello |-> HELLO_TIMEOUT + 1, ihu |-> IHU_TIMEOUT + 1]

\* on_hello: the missed Hellos are shifted in as zeros.
OnHello(nb) ==
    [nb EXCEPT !.known = TRUE, !.gap = 0, !.hello = 0,
       !.history = IF ~nb.known \/ nb.gap = Restarted THEN 1
                   ELSE ((nb.history * 2 ^ (nb.gap + 1)) + 1) % 8]

\* on_ihu.
OnIhu(nb, cost) == [nb EXCEPT !.known = TRUE, !.txcost = cost, !.ihu = 0]

\* rxcost: two of the last three Hellos.
Rxcost(nb) == IF nb.known /\ nb.history \in {3, 5, 6, 7} THEN COST ELSE INF
LinkCost(nb) == IF Rxcost(nb) = INF THEN INF ELSE nb.txcost

\* expire, for one neighbour.
Silenced(nb) == nb.hello > HELLO_TIMEOUT
Expire(nb) ==
    IF Silenced(nb) THEN Unknown
    ELSE [nb EXCEPT !.txcost = IF nb.ihu > IHU_TIMEOUT THEN INF ELSE @]
----------------------------------------------------------------------------
(* The route table of one router, as a record tbl of what an operation changes *)

SeqnoNewer(a, b) == a # b /\ (a - b) % 65536 < 32768
AddMetric(m, c) == IF m = INF \/ c = INF \/ m + c > INF THEN INF ELSE m + c
StrictlyBetter(seqno, metric, fd) ==
    SeqnoNewer(seqno, fd.seqno) \/ (seqno = fd.seqno /\ metric < fd.metric)

\* Mutant: every Update is admitted.
IsFeasibleAlways(fd, seqno, metric) == TRUE

\* is_feasible.
IsFeasible(fd, seqno, metric) == metric = INF \/ fd = NoFd \/ StrictlyBetter(seqno, metric, fd)

\* SourceTable::update.
SourceUpdate(fd, seqno, metric) ==
    IF metric # INF /\ (fd = NoFd \/ StrictlyBetter(seqno, metric, fd))
      THEN [seqno |-> seqno, metric |-> metric] ELSE fd

RouteMetric(e) == AddMetric(e.advertised, e.cost)

\* The routes to p that may be selected, and their order.
Usable(tbl, p) ==
    {k \in Router \X Router : LET e == tbl.routes[p][k[1]][k[2]]
                              IN e # NoRoute /\ e.feasible /\ RouteMetric(e) < INF}
Before(tbl, p, j, k) ==
    LET a == RouteMetric(tbl.routes[p][j[1]][j[2]])
        b == RouteMetric(tbl.routes[p][k[1]][k[2]])
    IN \/ a < b
       \/ a = b /\ LESS[j[1]] < LESS[k[1]]
       \/ a = b /\ j[1] = k[1] /\ LESS[j[2]] <= LESS[k[2]]

\* reselect.
Reselect(tbl, p) ==
    IF Usable(tbl, p) = {} THEN [tbl EXCEPT !.selected[p] = Nothing]
    ELSE LET k == CHOOSE j \in Usable(tbl, p) : \A i \in Usable(tbl, p) : Before(tbl, p, j, i)
             e == tbl.routes[p][k[1]][k[2]]
         IN [tbl EXCEPT
               !.fds[p][k[1]] = SourceUpdate(@, e.seqno, e.advertised),
               !.selected[p] = [origin |-> k[1], via |-> k[2], metric |-> RouteMetric(e)]]

\* RouteTable::update.
TableUpdate(tbl, n, cost, u) ==
    LET was == tbl.selected[u.net]
        ours == was.origin = u.origin /\ was.via = n
        e == IF u.metric = INF THEN NoRoute
             ELSE [seqno |-> u.seqno, advertised |-> u.metric, cost |-> cost,
                   feasible |-> ours \/ IsFeasible(tbl.fds[u.net][u.origin], u.seqno, u.metric)]
    IN Reselect([tbl EXCEPT !.routes[u.net][u.origin][n] = e], u.net)

\* What the router task is given: forward_event_pinned and forward_event.  A route
\* without its interface is left to the kernel to refuse.
Candidate(sel, pinned) ==
    IF sel = Nothing THEN NoCandidate
    ELSE [via |-> sel.via, metric |-> sel.metric, pinned |-> pinned]

\* An Update of a datagram from n: the table, the origin to relay, the router task.
HandleUpdate(tbl, n, cost, u) ==
    LET after == TableUpdate(tbl, n, cost, u)
        sel   == after.selected[u.net]
        event == sel # tbl.selected[u.net]
    IN IF ~event THEN after
       ELSE [after EXCEPT
              !.changed = TRUE,
              !.rib[u.net] = Candidate(sel, TRUE),
              !.relayed[u.net] =
                 CASE sel = Nothing -> NoRelay
                   [] sel # Nothing /\ sel.via = n ->
                        [origin |-> u.origin, seqno |-> u.seqno, metric |-> sel.metric]
                   [] OTHER -> @]

\* neighbour_lost, and its events.
NeighbourLost(tbl, n) ==
    LET gone == [tbl EXCEPT !.routes =
                   [p \in Net |-> [o \in Router |-> [tbl.routes[p][o] EXCEPT ![n] = NoRoute]]]]
        Step(t, p) ==
          LET sel == Reselect(t, p).selected[p] IN
          IF sel = t.selected[p] THEN Reselect(t, p)
          ELSE [Reselect(t, p) EXCEPT
                  !.rib[p] = Candidate(sel, FALSE),
                  !.relayed[p] = IF sel = Nothing THEN NoRelay ELSE @]
    IN FoldLeft(Step, gone, SetToSeq({p \in Net : \E o \in Router : tbl.routes[p][o][n] # NoRoute}))

Table(r) == [fds |-> fds[r], routes |-> routes[r], selected |-> selected[r],
             relayed |-> relayed[r], rib |-> rib[r], changed |-> FALSE]
Keep(r, tbl) ==
    /\ fds' = [fds EXCEPT ![r] = tbl.fds] /\ routes' = [routes EXCEPT ![r] = tbl.routes]
    /\ selected' = [selected EXCEPT ![r] = tbl.selected]
    /\ relayed' = [relayed EXCEPT ![r] = tbl.relayed] /\ rib' = [rib EXCEPT ![r] = tbl.rib]
----------------------------------------------------------------------------
(* What is sent *)

Originated(r, p, metric) == [net |-> p, origin |-> r, seqno |-> OUR_SEQNO, metric |-> metric]
Each(r, S, metric) == LET U(p) == Originated(r, p, metric) IN
                      [i \in 1 .. Cardinality(S) |-> U(SetToSeq(S)[i])]

\* build_update_tlvs: networks, redistributed, retractions, relayed.
BuildUpdates(r, rds, rtr, rel) ==
    LET passed == {p \in Net : rel[p] # NoRelay /\ rel[p].origin # r} \ (OWN[r] \cup rds)
        seq == SetToSeq(passed)
    IN Each(r, OWN[r], 0) \o Each(r, rds, REDIST) \o Each(r, rtr, INF)
       \o [i \in 1 .. Len(seq) |->
             [net |-> seq[i], origin |-> rel[seq[i]].origin, seqno |-> rel[seq[i]].seqno,
              metric |-> rel[seq[i]].metric]]

\* send_raw on every interface.
Flood(w, r, msg) ==
    [w EXCEPT ![r] = [n \in Router |->
        IF {r, n} \in working /\ n # r /\ Len(w[r][n]) < WIRE THEN Append(w[r][n], msg)
        ELSE w[r][n]]]

Updates(seq) == [kind |-> "update", updates |-> seq]
Hello(r) == [kind |-> "hello", ihus |-> [n \in Router |-> IF nbr[r][n].known THEN Rxcost(nbr[r][n]) ELSE -1]]
Request == [kind |-> "request"]

\* send_updates, after which nothing is left to retract.
SendUpdates(w, r, rds, rtr, rel) ==
    LET seq == BuildUpdates(r, rds, rtr, rel) IN
    /\ air' = IF seq = <<>> THEN w ELSE Flood(w, r, Updates(seq))
    /\ retractions' = [retractions EXCEPT ![r] = {}]

\* send_retractions.
SendRetractions(w, r) ==
    LET own == Each(r, OWN[r], INF) \o Each(r, redist[r], INF)
    IN IF own = <<>> THEN w ELSE Flood(w, r, Updates(own))
----------------------------------------------------------------------------
(* The arms of the engine *)

\* The timers of the routers keep their phase: those of lower rank fire first, and
\* the phases are longer than the flight of a datagram.  (Not forced by the code,
\* whose timers drift; it keeps the instances small.)
Turn(r) == /\ \A n \in Router : LESS[n] < LESS[r] => todo[n] = {}
           /\ \A n, m \in Router : air[n][m] = <<>>

\* handle_datagram of a Hello with its IHUs.
HandleHello(r, n, msg, rest) ==
    LET heard == OnHello(nbr[r][n]) IN
    /\ nbr' = [nbr EXCEPT ![r][n] = IF msg.ihus[r] = -1 THEN heard ELSE OnIhu(heard, msg.ihus[r])]
    /\ air' = rest
    /\ UNCHANGED <<fds, routes, selected, relayed, rib, retractions>>

\* handle_datagram of Updates, and the triggered Update when a selection changed.
HandleUpdates(r, n, msg, rest) ==
    LET Step(tbl, u) == HandleUpdate(tbl, n, LinkCost(nbr[r][n]), u)
        tbl == FoldLeft(Step, Table(r), msg.updates)
    IN /\ Keep(r, tbl)
       /\ IF tbl.changed THEN SendUpdates(rest, r, redist[r], retractions[r], tbl.relayed)
                         ELSE air' = rest /\ UNCHANGED retractions
       /\ UNCHANGED nbr

\* A request is answered with everything.
HandleRouteRequest(r, rest) ==
    /\ SendUpdates(rest, r, redist[r], retractions[r], relayed[r])
    /\ UNCHANGED <<nbr, fds, routes, selected, relayed, rib>>

Receive(r, n) ==
    LET msg == Head(air[n][r]) rest == [air EXCEPT ![n][r] = Tail(@)] IN
    /\ air[n][r] # <<>>
    /\ CASE msg.kind = "hello"   -> HandleHello(r, n, msg, rest)
         [] msg.kind = "update"  -> HandleUpdates(r, n, msg, rest)
         [] msg.kind = "request" -> HandleRouteRequest(r, rest)
    /\ UNCHANGED <<redist, timer, todo, working, restarted, faults>>

\* The bfd_down arm.
BfdLost(r, n) ==
    LET tbl == NeighbourLost(Table(r), n) IN
    /\ BFD /\ Disturb /\ nbr[r][n].known
    /\ nbr' = [nbr EXCEPT ![r][n] = Unknown]
    /\ Keep(r, tbl)
    /\ SendUpdates(air, r, redist[r], retractions[r], tbl.relayed)
    /\ UNCHANGED <<redist, timer, todo, working, restarted>>

\* The hello arm: what n has not heard it will miss.
HelloTick(r) ==
    /\ "hello" \in todo[r] /\ Turn(r)
    /\ air' = Flood(air, r, Hello(r))
    /\ nbr' = [n \in Router |->
                 IF air'[r][n] # air[r][n] THEN nbr[n]
                 ELSE [nbr[n] EXCEPT ![r].gap = IF ~nbr[n][r].known \/ @ \in {Restarted, 3} THEN @ ELSE @ + 1]]
    /\ todo' = [todo EXCEPT ![r] = @ \ {"hello"}]
    /\ UNCHANGED <<fds, routes, selected, relayed, redist, retractions, rib, timer, working, restarted, faults>>

\* The update arm.
UpdateTick(r) ==
    /\ "update" \in todo[r] /\ Turn(r)
    /\ SendUpdates(air, r, redist[r], retractions[r], relayed[r])
    /\ timer' = [timer EXCEPT ![r] = UPDATE]
    /\ todo' = [todo EXCEPT ![r] = @ \ {"update"}]
    /\ UNCHANGED <<nbr, fds, routes, selected, relayed, redist, rib, working, restarted, faults>>

\* Mutant: only the cost of a silent neighbour goes.
HousekeepingIdle(r) ==
    /\ "expire" \in todo[r] /\ Turn(r)
    /\ nbr' = [nbr EXCEPT ![r] = [n \in Router |-> Expire(nbr[r][n])]]
    /\ todo' = [todo EXCEPT ![r] = @ \ {"expire"}]
    /\ UNCHANGED <<fds, routes, selected, relayed, redist, retractions, rib, timer, air, working, restarted, faults>>

\* The housekeeping arm.
HousekeepingTick(r) ==
    LET dead == {n \in Router : nbr[r][n].known /\ Silenced(nbr[r][n])} IN
    /\ "expire" \in todo[r] /\ Turn(r)
    /\ nbr' = [nbr EXCEPT ![r] = [n \in Router |-> Expire(nbr[r][n])]]
    /\ Keep(r, FoldLeft(NeighbourLost, Table(r), SetToSeq(dead)))
    /\ todo' = [todo EXCEPT ![r] = @ \ {"expire"}]
    /\ UNCHANGED <<redist, retractions, timer, air, working, restarted, faults>>

\* Mutant: a network of our own is redistributed like any other.
ApplyRedistributionAny(r, p) ==
    LET add == p \notin redist[r]
        rds == IF add THEN redist[r] \cup {p} ELSE redist[r] \ {p}
        rtr == IF add THEN retractions[r] \ {p} ELSE retractions[r] \cup {p}
    IN /\ Disturb /\ r \in REDISTRIBUTES
       /\ redist' = [redist EXCEPT ![r] = rds]
       /\ SendUpdates(air, r, rds, rtr, relayed[r])
       /\ UNCHANGED <<nbr, fds, routes, selected, relayed, rib, timer, todo, working, restarted>>

\* apply_redistribution, and the triggered Update it asks for.
ApplyRedistribution(r, p) ==
    LET add == p \notin redist[r]
        rds == IF add THEN redist[r] \cup {p} ELSE redist[r] \ {p}
        rtr == IF add THEN retractions[r] \ {p} ELSE retractions[r] \cup {p}
    IN /\ Disturb /\ r \in REDISTRIBUTES /\ p \notin OWN[r]
       /\ redist' = [redist EXCEPT ![r] = rds]
       /\ SendUpdates(air, r, rds, rtr, relayed[r])
       /\ UNCHANGED <<nbr, fds, routes, selected, relayed, rib, timer, todo, working, restarted>>

\* A reload restarts the engine: the shutdown arm retracts what r originates, the new
\* run starts with empty tables, the router task keeps what it has.
Reload(r) ==
    /\ Disturb /\ r \in MORTAL
    /\ nbr' = [n \in Router |-> IF n = r THEN [m \in Router |-> Unknown]
                                ELSE [nbr[n] EXCEPT ![r].gap = IF nbr[n][r].known THEN Restarted ELSE @]]
    /\ fds' = [fds EXCEPT ![r] = [p \in Net |-> [o \in Router |-> NoFd]]]
    /\ routes' = [routes EXCEPT ![r] = [p \in Net |-> [o \in Router |-> [n \in Router |-> NoRoute]]]]
    /\ selected' = [selected EXCEPT ![r] = [p \in Net |-> Nothing]]
    /\ relayed' = [relayed EXCEPT ![r] = [p \in Net |-> NoRelay]]
    /\ redist' = [redist EXCEPT ![r] = {}] /\ retractions' = [retractions EXCEPT ![r] = {}]
    /\ timer' = [timer EXCEPT ![r] = 0]
    /\ air' = Flood(SendRetractions([n \in Router |-> [air[n] EXCEPT ![r] = <<>>]], r), r, Request)
    /\ restarted' = restarted \cup {r}
    /\ todo' = [todo EXCEPT ![r] = {"hello", "update"}]
    /\ UNCHANGED <<rib, working>>
----------------------------------------------------------------------------
(* The links and the clock *)

Toggle(l) ==
    /\ Disturb
    /\ working' = IF l \in working THEN working \ {l} ELSE working \cup {l}
    /\ UNCHANGED <<nbr, fds, routes, selected, relayed, redist, retractions, rib, timer, todo, air, restarted>>

Older(age, limit) == IF age > limit THEN age ELSE age + 1

\* A Hello interval passes; datagrams and the arms that are due take less.
Tick ==
    /\ \A r, n \in Router : todo[r] = {} /\ air[n][r] = <<>>
    /\ nbr' = [r \in Router |-> [n \in Router |->
                 [nbr[r][n] EXCEPT !.hello = Older(@, HELLO_TIMEOUT), !.ihu = Older(@, IHU_TIMEOUT)]]]
    /\ timer' = [r \in Router |-> timer[r] - IF timer[r] > 0 THEN 1 ELSE 0]
    /\ todo' = [r \in Router |-> {"hello", "expire"} \cup (IF timer'[r] = 0 THEN {"update"} ELSE {})]
    /\ UNCHANGED <<fds, routes, selected, relayed, redist, retractions, rib, air, working, restarted, faults>>

\* run, up to its loop; the first Hello and Update are immediate.
Init ==
    /\ nbr = [r \in Router |-> [n \in Router |-> Unknown]]
    /\ fds = [r \in Router |-> [p \in Net |-> [o \in Router |-> NoFd]]]
    /\ routes = [r \in Router |-> [p \in Net |-> [o \in Router |-> [n \in Router |-> NoRoute]]]]
    /\ selected = [r \in Router |-> [p \in Net |-> Nothing]]
    /\ relayed = [r \in Router |-> [p \in Net |-> NoRelay]]
    /\ redist = [r \in Router |-> {}] /\ retractions = [r \in Router |-> {}]
    /\ rib = [r \in Router |-> [p \in Net |-> NoCandidate]]
    /\ timer = [r \in Router |-> 0] /\ todo = [r \in Router |-> {"hello", "update"}]
    /\ air = [n \in Router |-> [r \in Router |-> <<>>]]
    /\ working = Link /\ restarted = {} /\ faults = 0

Next ==
    \/ \E r \in Router : HelloTick(r) \/ UpdateTick(r) \/ HousekeepingTick(r) \/ Reload(r)
    \/ \E r \in Router : \E n \in Neighbours(r) : Receive(r, n) \/ BfdLost(r, n)
    \/ \E r \in Router : \E p \in Net : ApplyRedistribution(r, p)
    \/ \E l \in FRAGILE : Toggle(l)
    \/ Tick
----------------------------------------------------------------------------
(* Correctness *)

\* The tables hold what their types allow and no link carries more than it can.
BabelTypeOK ==
    /\ nbr \in [Router -> [Router -> Neighbour]]
    /\ \A r, n \in Router : Len(air[n][r]) <= WIRE
    /\ \A r \in Router : timer[r] \in 0 .. UPDATE /\ redist[r] \cap OWN[r] = {}

\* The router task has exactly the selected routes: gateway and metric, whether the
\* selection changed by an Update, a retraction, a silent neighbour or BFD.  An
\* engine that was restarted has left its predecessor's routes there.
SelectionTold ==
    \A r \in Router \ restarted : \A p \in Net :
        /\ rib[r][p].via = selected[r][p].via
        /\ rib[r][p].metric = selected[r][p].metric

\* What the feasibility condition is for (is_feasible, SourceTable::update): at no
\* time do two routers forward to each other for a prefix that a third originates,
\* whichever links fail and whichever neighbours fall silent.  Left out are a router
\* that a reload restarted, whose new engine has no distances, and the originator,
\* which keeps the copy of its own prefix that it hears.
NoLoop ==
    \A r, n \in Router \ restarted : \A p \in Net :
        LET s == selected[r][p]
        IN s.via = n /\ s.origin \notin {r, n}
           => ~(selected[n][p].via = r /\ selected[n][p].origin = s.origin)

\* Time passes without end, and an interval ends when its arms have run.
BabelFair == []<><<Tick>>_babelVars

\* Nothing is selected through link l.
Unused(l) == \A r \in l : \A p \in Net : selected[r][p].via \notin l

\* A router that stays silent is dropped: nothing remains selected through a link
\* that is down for good.
SilentNeighbourDropped == \A l \in FRAGILE : <>[](l \notin working) => <>[]Unused(l)
=============================================================================
