-------------------------------- MODULE Rip --------------------------------
(* The distance-vector table of wren-rip and the two engines that drive it:   *)
(* RIP (rip.rs) and RIPng (ripng.rs), on every router of a small network.     *)
(*                                                                            *)
(* An engine is one task; an arm of its select! is one action: the table      *)
(* operation, the events forwarded to the router task and the triggered       *)
(* update.  Deadlines are the time left.                                      *)
(* A segment is the set of routers on it and stands for the interface of      *)
(* each; a datagram is lost when the link is down or already carries WIRE.    *)
EXTENDS Integers, Sequences, FiniteSets

CONSTANTS
    Router,         \* the routers
    Net,            \* the prefixes
    Segment,        \* the links: sets of routers
    OWN,            \* the networks directly connected to each router
    REDISTRIBUTES,  \* the routers with `redistribute` configured
    MORTAL,         \* the routers whose engine a reload may stop
    FRAGILE,        \* the segments that may fail
    REDIST,         \* redistribute_metric
    INF,            \* METRIC_INFINITY
    BFD,            \* BFD is enabled; never in RIPng
    UPDATE,         \* UPDATE_SECS
    TIMEOUT,        \* TIMEOUT_SECS
    GARBAGE,        \* GARBAGE_SECS
    WIRE            \* bound: datagrams in flight between two routers

ASSUME RipAssumption ==
    /\ Segment \subseteq SUBSET Router /\ OWN \in [Router -> SUBSET Net]
    /\ REDISTRIBUTES \subseteq Router /\ MORTAL \subseteq Router /\ FRAGILE \subseteq Segment
    /\ BFD \in BOOLEAN /\ INF \in Nat \ {0, 1} /\ REDIST \in Nat
    /\ UPDATE \in Nat \ {0} /\ TIMEOUT \in Nat \ {0}
    /\ GARBAGE \in Nat \ {0} /\ WIRE \in Nat \ {0}

VARIABLES
    up,         \* up[r]: the engine of r runs
    table,      \* table[r][p]: the RipRoute for p
    next,       \* next[r]: time left to the periodic update
    due,        \* due[r]: the second's housekeeping is still to be done
    told,       \* told[r][p]: the RIP candidate the router task of r has for p
    other,      \* other[r]: prefixes a redistributed protocol has the best path for
    wire,       \* wire[n][r]: datagrams from n to r
    links,      \* the segments that work
    inherited   \* inherited[r]: prefixes whose candidate an earlier generation left

vars == <<up, table, next, due, told, other, wire, links, inherited>>

Off == -1
None == [via |-> "none", metric |-> 0]
Stub == {}
Lesser(m, n) == IF m <= n THEN m ELSE n

\* RipRoute; an absent entry is of kind "none".
RipRoute == [kind : {"none", "learned", "connected", "redistributed"},
             metric : 1 .. INF, next_hop : Router \cup {"none"},
             ifindex : Segment \cup {Stub}, expire : Nat \cup {Off},
             delete : Nat \cup {Off}, changed : BOOLEAN]
Absent == [kind |-> "none", metric |-> INF, next_hop |-> "none", ifindex |-> Stub,
           expire |-> Off, delete |-> Off, changed |-> FALSE]
Ours(e) == e.kind \in {"connected", "redistributed"}
Present(t) == {p \in Net : t[p].kind # "none"}
Attached(r) == {s \in Segment : r \in s}
----------------------------------------------------------------------------
(* The table: every operation returns the entry it leaves and, where the code  *)
(* returns an event, what the router task is told.                             *)

Learned(n, s, m) ==
    [kind |-> "learned", metric |-> m, next_hop |-> n, ifindex |-> s,
     expire |-> TIMEOUT, delete |-> Off, changed |-> TRUE]

Silent(e) == [entry |-> e, event |-> "none"]
Tells(e)  == [entry |-> e, event |-> IF e.metric < INF THEN "learned" ELSE "lost"]

\* A slip, for the mutants: an unchanged metric does not refresh the timeout.
ProcessRouteStale(e, n, s, received) ==
    LET m == Lesser(received + 1, INF)
        same == e.next_hop = n /\ e.ifindex = s
        fresh == IF m < INF THEN [e EXCEPT !.expire = TIMEOUT, !.delete = Off] ELSE e
    IN CASE e.kind = "none" /\ m >= INF -> Silent(e)
         [] e.kind = "none" /\ m < INF  -> Tells(Learned(n, s, m))
         [] Ours(e)                     -> Silent(e)
         [] e.kind = "learned" /\ same /\ m = e.metric -> Silent(e)
         [] e.kind = "learned" /\ same /\ m # e.metric ->
              Tells([fresh EXCEPT !.metric = m, !.changed = TRUE,
                                  !.delete = IF m >= INF THEN GARBAGE ELSE Off])
         [] e.kind = "learned" /\ ~same /\ m < e.metric -> Tells(Learned(n, s, m))
         [] OTHER -> Silent(e)

\* process_route: the metric `received` for a destination from neighbour n on s.
ProcessRoute(e, n, s, received) ==
    LET m == Lesser(received + 1, INF)
        same == e.next_hop = n /\ e.ifindex = s
        fresh == IF m < INF THEN [e EXCEPT !.expire = TIMEOUT, !.delete = Off] ELSE e
    IN CASE e.kind = "none" /\ m >= INF -> Silent(e)
         [] e.kind = "none" /\ m < INF  -> Tells(Learned(n, s, m))
         [] Ours(e)                     -> Silent(e)
         [] e.kind = "learned" /\ same /\ m = e.metric -> Silent(fresh)
         [] e.kind = "learned" /\ same /\ m # e.metric ->
              Tells([fresh EXCEPT !.metric = m, !.changed = TRUE,
                                  !.delete = IF m >= INF THEN GARBAGE ELSE Off])
         [] e.kind = "learned" /\ ~same /\ m < e.metric -> Tells(Learned(n, s, m))
         [] OTHER -> Silent(e)

\* An unreachable entry that waits for its garbage deadline.
Poisoned(e) == [e EXCEPT !.metric = INF, !.delete = GARBAGE, !.changed = TRUE]

AddConnected ==
    [Absent EXCEPT !.kind = "connected", !.metric = 1, !.changed = TRUE]

\* A slip, for the mutants: the configured metric is not clamped.
AddRedistributedRaw(e) ==
    IF e.kind = "connected" THEN e
    ELSE [Absent EXCEPT !.kind = "redistributed", !.changed = TRUE, !.metric = REDIST]

\* add_redistributed: the configured metric, between 1 and INF - 1.
AddRedistributed(e) ==
    IF e.kind = "connected" THEN e
    ELSE [Absent EXCEPT !.kind = "redistributed", !.changed = TRUE,
            !.metric = IF REDIST < 1 THEN 1 ELSE Lesser(REDIST, INF - 1)]

WithdrawRedistributed(e) ==
    IF e.kind = "redistributed" /\ e.metric < INF THEN Poisoned(e) ELSE e

\* A slip, for the mutants: collecting a withdrawn redistributed entry is not reported.
AgeQuiet(e) ==
    CASE e.kind \in {"none", "connected"} -> Silent(e)
      [] Ours(e) /\ e.delete = 0 -> Silent(Absent)
      [] ~Ours(e) /\ e.delete = 0 -> Tells(Absent)
      [] e.kind = "learned" /\ e.delete = Off /\ e.expire = 0 -> Tells(Poisoned(e))
      [] OTHER -> Silent(e)

\* tick, for one entry.
Age(e) ==
    CASE e.kind \in {"none", "connected"} -> Silent(e)
      [] e.kind \in {"learned", "redistributed"} /\ e.delete = 0 -> Tells(Absent)
      [] e.kind = "learned" /\ e.delete = Off /\ e.expire = 0 -> Tells(Poisoned(e))
      [] OTHER -> Silent(e)

\* A slip, for the mutants: the garbage timer is not started.
ExpireViaForever(e, peer) ==
    IF e.kind = "learned" /\ e.next_hop = peer /\ e.metric < INF
      THEN Tells([e EXCEPT !.metric = INF, !.changed = TRUE]) ELSE Silent(e)

ExpireVia(e, peer) ==
    IF e.kind = "learned" /\ e.next_hop = peer /\ e.metric < INF
      THEN Tells(Poisoned(e)) ELSE Silent(e)

\* advert_for: split horizon with poisoned reverse.
AdvertFor(e, s) == IF e.ifindex = s /\ s # Stub THEN INF ELSE e.metric
----------------------------------------------------------------------------
(* The engine *)

\* adverts and triggered_adverts, as the entries of a response.
Adverts(t, s)   == [p \in Present(t) |-> AdvertFor(t[p], s)]
Triggered(t, s) == [p \in {q \in Present(t) : t[q].changed} |-> AdvertFor(t[p], s)]
Poison(t)       == [p \in Present(t) |-> INF]

Response(s, entries) == [command |-> "response", seg |-> s, entries |-> entries]
Request(s)           == [command |-> "request", seg |-> s, entries |-> [p \in {} |-> INF]]

ClearChanged(t) == [p \in Net |-> [t[p] EXCEPT !.changed = FALSE]]

\* What reaches each neighbour when r multicasts out[s] on its segments; the empty
\* response is not sent.
Multicast(w, r, out) ==
    [w EXCEPT ![r] = [n \in Router |->
        LET shared == {s \in Attached(r) \cap links : n \in s /\ n # r}
            s == CHOOSE x \in shared : TRUE
        IN IF shared = {} \/ ~up[n] \/ Len(w[r][n]) >= WIRE THEN w[r][n]
           ELSE IF out[s].command = "response" /\ DOMAIN out[s].entries = {} THEN w[r][n]
           ELSE Append(w[r][n], out[s])]]

\* send_full_update and flush_triggered.
SendFullUpdate(w, r, t, poison) ==
    Multicast(w, r, [s \in Attached(r) |-> Response(s, IF poison THEN Poison(t) ELSE Adverts(t, s))])
FlushTriggered(w, r, t) ==
    Multicast(w, r, [s \in Attached(r) |-> Response(s, Triggered(t, s))])

\* forward_event: what the router task has after an event about p.
ForwardEvent(e, event, had) ==
    CASE event = "learned" -> [via |-> e.next_hop, metric |-> e.metric]
      [] event = "lost"    -> None
      [] event = "none"    -> had

\* The router task after the results `res` of a table operation on every prefix.
ForwardAll(r, res) ==
    /\ told' = [told EXCEPT ![r] = [p \in Net |->
                  ForwardEvent(res[p].entry, res[p].event, @[p])]]
    /\ inherited' = [inherited EXCEPT ![r] = {p \in @ : res[p].event = "none"}]

\* An arm of the engine that ends with a triggered update.
Arm(r, res, w) ==
    LET t == [p \in Net |-> res[p].entry] IN
    /\ table' = [table EXCEPT ![r] = ClearChanged(t)]
    /\ wire' = FlushTriggered(w, r, t)
    /\ ForwardAll(r, res)

Same(r) == [p \in Net |-> Silent(table[r][p])]

\* The connected networks, in the table of an engine that starts.
StartTable(r) == [p \in Net |-> IF p \in OWN[r] THEN AddConnected ELSE Absent]

\* run, up to its loop: a request on every interface, the connected networks in the
\* table.  What the router task has of an earlier generation stays there.
Start(r) ==
    /\ ~up[r]
    /\ up' = [up EXCEPT ![r] = TRUE]
    /\ table' = [table EXCEPT ![r] = StartTable(r)]
    /\ next' = [next EXCEPT ![r] = UPDATE]
    /\ due' = [due EXCEPT ![r] = FALSE]
    /\ wire' = Multicast(wire, r, [s \in Attached(r) |-> Request(s)])
    /\ inherited' = [inherited EXCEPT ![r] = {p \in Net : told[r][p] # None}]
    /\ other' = [other EXCEPT ![r] = {}]
    /\ UNCHANGED <<told, links>>

\* handle_packet of a request: the whole table to the asking neighbour.
HandleRequest(r, n, seg) ==
    LET rest == [wire EXCEPT ![n][r] = Tail(@)]
        answer == Response(seg, Adverts(table[r], seg))
        sent == IF Present(table[r]) # {} /\ seg \in links /\ Len(rest[r][n]) < WIRE
                  THEN [rest EXCEPT ![r][n] = Append(@, answer)] ELSE rest
    IN Arm(r, Same(r), sent)

\* handle_packet of a response, RIP's.
HandleResponse(r, n, msg) ==
    LET res == [p \in Net |->
                  IF p \in DOMAIN msg.entries
                    THEN ProcessRoute(table[r][p], n, msg.seg, msg.entries[p])
                    ELSE Silent(table[r][p])]
    IN Arm(r, res, [wire EXCEPT ![n][r] = Tail(@)])

\* The packet arm.
Packet(r, n) ==
    /\ up[r] /\ wire[n][r] # <<>>
    /\ LET msg == Head(wire[n][r]) IN
       IF msg.command = "request" THEN HandleRequest(r, n, msg.seg)
                                  ELSE HandleResponse(r, n, msg)
    /\ UNCHANGED <<up, next, due, other, links>>

\* The periodic arm.
Periodic(r) ==
    LET res == [p \in Net |-> Age(table[r][p])]
        t   == [p \in Net |-> res[p].entry]
    IN /\ up[r] /\ due[r] /\ next[r] = 0
       /\ table' = [table EXCEPT ![r] = ClearChanged(t)]
       /\ wire' = SendFullUpdate(wire, r, t, FALSE)
       /\ ForwardAll(r, res)
       /\ next' = [next EXCEPT ![r] = UPDATE]
       /\ due' = [due EXCEPT ![r] = FALSE]
       /\ UNCHANGED <<up, other, links>>

\* The housekeeping arm.
Housekeeping(r) ==
    /\ up[r] /\ due[r] /\ next[r] > 0
    /\ Arm(r, [p \in Net |-> Age(table[r][p])], wire)
    /\ due' = [due EXCEPT ![r] = FALSE]
    /\ UNCHANGED <<up, next, other, links>>

\* The bfd_down arm, which RIPng does not have: BFD has failed a gateway, registered
\* now or, when the notification is late, before.
BfdDown(r, n) ==
    /\ up[r] /\ BFD /\ \E s \in Segment : {r, n} \subseteq s /\ n # r
    /\ Arm(r, [p \in Net |-> ExpireVia(table[r][p], n)], wire)
    /\ UNCHANGED <<up, next, due, other, links>>

\* The redistribution arm: the best path for p comes from, or no longer comes from, a
\* redistributed protocol.
Redistribute(r, p) ==
    LET add == p \notin other[r]
        e   == IF add THEN AddRedistributed(table[r][p])
                      ELSE WithdrawRedistributed(table[r][p])
        t   == [table[r] EXCEPT ![p] = e]
    IN /\ up[r] /\ r \in REDISTRIBUTES
       /\ other' = [other EXCEPT ![r] = IF add THEN @ \cup {p} ELSE @ \ {p}]
       /\ table' = [table EXCEPT ![r] = ClearChanged(t)]
       /\ wire' = FlushTriggered(wire, r, t)
       /\ UNCHANGED <<up, next, due, told, links, inherited>>

\* The shutdown arm: everything advertised is poisoned; nothing is withdrawn from the
\* router task.
Shutdown(r) ==
    /\ up[r] /\ r \in MORTAL
    /\ up' = [up EXCEPT ![r] = FALSE]
    /\ wire' = SendFullUpdate([n \in Router |-> [wire[n] EXCEPT ![r] = <<>>]],
                              r, table[r], TRUE)
    /\ table' = [table EXCEPT ![r] = [p \in Net |-> Absent]]
    /\ due' = [due EXCEPT ![r] = FALSE]
    /\ other' = [other EXCEPT ![r] = {}]
    /\ UNCHANGED <<next, told, links, inherited>>
----------------------------------------------------------------------------
(* The links and the clock *)

\* A segment fails or comes back: a datagram sent while it is down is lost.
Toggle(s) ==
    /\ links' = IF s \in links THEN links \ {s} ELSE links \cup {s}
    /\ UNCHANGED <<up, table, next, due, told, other, wire, inherited>>

Less(d) == IF d > 0 THEN d - 1 ELSE d
Elapsed(e) == [e EXCEPT !.expire = Less(@), !.delete = Less(@)]

\* A second: datagrams and arms that are due take less.
Tick ==
    /\ \A r, n \in Router : ~due[r] /\ (up[r] => wire[n][r] = <<>>)
    /\ table' = [r \in Router |-> [p \in Net |-> Elapsed(table[r][p])]]
    /\ next' = [r \in Router |-> Less(next[r])]
    /\ due' = up
    /\ UNCHANGED <<up, told, other, wire, links, inherited>>

\* The engines have just started, and their requests met nobody yet.
Init ==
    /\ up = [r \in Router |-> TRUE]
    /\ table = [r \in Router |-> StartTable(r)]
    /\ next = [r \in Router |-> UPDATE]
    /\ due = [r \in Router |-> FALSE]
    /\ told = [r \in Router |-> [p \in Net |-> None]]
    /\ other = [r \in Router |-> {}]
    /\ wire = [n \in Router |-> [r \in Router |-> <<>>]]
    /\ links = Segment
    /\ inherited = [r \in Router |-> {}]

Next ==
    \/ \E r \in Router : Start(r) \/ Periodic(r) \/ Housekeeping(r) \/ Shutdown(r)
    \/ \E r, n \in Router : Packet(r, n) \/ BfdDown(r, n)
    \/ \E r \in Router : \E p \in Net : Redistribute(r, p)
    \/ \E s \in FRAGILE : Toggle(s)
    \/ Tick

Spec == Init /\ [][Next]_vars
----------------------------------------------------------------------------
(* Correctness *)

\* A datagram: a request for the whole table, or metrics for some prefixes.
Datagram == [command : {"request", "response"}, seg : Segment,
             entries : UNION {[S -> 1 .. INF] : S \in SUBSET Net}]

\* Every variable has its type and no link carries more than it can.
RipTypeOK ==
    /\ up \in [Router -> BOOLEAN] /\ due \in [Router -> BOOLEAN] /\ links \subseteq Segment
    /\ table \in [Router -> [Net -> RipRoute]]
    /\ next \in [Router -> 0 .. UPDATE]
    /\ told \in [Router -> [Net -> [via : Router \cup {"none"}, metric : 0 .. INF]]]
    /\ other \in [Router -> SUBSET Net] /\ inherited \in [Router -> SUBSET Net]
    /\ wire \in [Router -> [Router -> Seq(Datagram)]]
    /\ \A r, n \in Router : Len(wire[n][r]) <= WIRE

\* The route an entry stands for.
Candidate(e) == IF e.kind = "learned" /\ e.metric < INF
                THEN [via |-> e.next_hop, metric |-> e.metric] ELSE None

\* What the router task believes of RIP is what RIP's table says: the gateway and
\* metric of a reachable learned route, and nothing otherwise.  A redistributed
\* prefix, whose announcement overwrote the table entry, is the exception, and so
\* is what an earlier generation of the engine left behind.
FeedMatches ==
    \A r \in Router : \A p \in Net \ inherited[r] :
        LET e == table[r][p] IN
        up[r] /\ e.kind # "redistributed" => told[r][p] = Candidate(e)

\* An unreachable route is on its way out: it has its garbage deadline, and only it
\* has one, whichever of an expiry, a poisoned update, BFD or a withdrawn
\* redistribution made it unreachable and whatever revived it.
UnreachableCollected ==
    \A r \in Router : \A p \in Present(table[r]) :
        (table[r][p].metric = INF) <=> (table[r][p].delete # Off)
----------------------------------------------------------------------------
(* Liveness *)

\* Time passes without end, and a second ends when its arms have run.
RipFair == []<><<Tick>>_vars

\* The metric each router should have for p: its own, or one more than the best of
\* its neighbours', INF when there is none below it.
Own(r, p) ==
    CASE ~up[r] -> INF
      [] up[r] /\ p \in OWN[r] -> 1
      [] up[r] /\ p \notin OWN[r] /\ p \in other[r] -> AddRedistributed(Absent).metric
      [] OTHER -> 0
Least(S) == CHOOSE m \in S : \A n \in S : m <= n
Distance[k \in 0 .. INF] ==
    IF k = 0 THEN [r \in Router |-> [p \in Net |-> INF]]
    ELSE [r \in Router |-> [p \in Net |->
           IF Own(r, p) > 0 THEN Own(r, p)
           ELSE Least({INF} \cup {Lesser(Distance[k - 1][n][p] + 1, INF) :
                                    n \in UNION {s \in links : r \in s} \ {r}})]]

\* Nobody is started, stopped, cut, redistributed or failed by BFD.
Disturbance ==
    \/ \E r \in Router : Start(r) \/ Shutdown(r)
    \/ \E r, n \in Router : BfdDown(r, n)
    \/ \E r \in Router : \E p \in Net : Redistribute(r, p)
    \/ \E s \in FRAGILE : Toggle(s)

\* Every table holds the distances of the network as it is.
AtDistance == \A r \in Router : \A p \in Net : up[r] => table[r][p].metric = Distance[INF][r][p]

\* Undisturbed, every table comes to hold the distances of the network as it is:
\* counting to infinity ends, stale routes expire, lost updates are made up for.
DistancesFound == <>[][~Disturbance]_vars => <>[]AtDistance
=============================================================================
