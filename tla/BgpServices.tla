---------------------------- MODULE BgpServices ----------------------------
(***************************************************************************)
(* The BGP address families that are not IP routing: EVPN, flow            *)
(* specification, SR Policy and link state.  Each has a RIB of its own     *)
(* (entries per NLRI and peer, one best path per NLRI); EVPN best paths    *)
(* are folded into the MAC-VRF and IP-VRF views, reflected to the other    *)
(* EVPN sessions with an unchanged next hop, and streamed - like flow      *)
(* rules - to the clients of the monitor feeds through bounded buffers.    *)
(*                                                                         *)
(* An NLRI is a number, and its order is the order of the BTreeMaps.  The  *)
(* session task and its command channel are in BgpSession; here a command  *)
(* takes effect at once.  The decision process is in BgpDecision; here     *)
(* two paths differ in local preference and in the peer.                   *)
(***************************************************************************)
EXTENDS Integers, Sequences, FiniteSets, SequencesExt, FiniteSetsExt

CONSTANTS
    Peer,        \* the neighbours, as numbers: the order of their addresses
    NLRI,        \* 1 .. n
    FAM,         \* NLRI -> {"mac", "imet", "prefix", "local", "flow", "sr", "ls"}
    KEY,         \* NLRI -> what a view files it under, or <<colour, preference>>
    OFFERS,      \* NLRI -> the peers that may offer it
    PATHS,       \* NLRI -> the paths it may be offered with
    EVPN,        \* the neighbours with the EVPN family activated
    REFLECTS(_, _), \* should_propagate: a path of the first peer goes to the second
    CAP,         \* EVPN_SUBSCRIBER_CAP and FLOWSPEC_SUBSCRIBER_CAP
    MAX_STEPS,   \* bound on the external events
    None

VARIABLES
    entries,     \* EvpnRib.entries, FlowSpecRib.entries, ...: NLRI -> peer -> path
    best,        \* ... .best: NLRI -> path
    view,        \* EviTable.macs/owners/mac_mobility/vteps, IpVrfTable: key -> entry
    evpn_nh,     \* the next hop octets kept for reflection: NLRI -> next hop
    originated,  \* evpn_originated
    sessions,    \* the peers with an Established session
    out,         \* what each EVPN session was last sent: peer -> NLRI -> next hop
    sub,         \* the clients of monitor evpn and monitor flowspec
    steps

vars == <<entries, best, view, evpn_nh, originated, sessions, out, sub, steps>>

Evpn == {n \in NLRI : FAM[n] \in {"mac", "imet", "prefix"}}
Own == {n \in NLRI : FAM[n] = "local"}
Keys == {KEY[n] : n \in Evpn}
Flow == {n \in NLRI : FAM[n] = "flow"}

(* The order of the BTreeMaps: NLRI is 1 .. n. *)
Ordered == [i \in NLRI |-> i]

(* MP_REACH with no next hop octets: what Vec::new() encodes to. *)
EMPTY == 0

(***************************************************************************)
(* The RIBs.  All four are the same structure.                             *)
(***************************************************************************)
IsBetter(p, q) == p.lp > q.lp \/ (p.lp = q.lp /\ p.peer < q.peer)

SelectBest(paths) ==
    IF paths = {} THEN None
    ELSE CHOOSE p \in paths : \A q \in paths \ {p} : ~IsBetter(q, p)

Reselect(es, n) == SelectBest({es[n][p] : p \in {q \in Peer : es[n][q] # None}})

(***************************************************************************)
(* EviTable::apply and IpVrfTable::apply: may the route take the key over, *)
(* and what the key maps to afterwards.  An entry carries the NLRI that    *)
(* backs it and the mobility sequence it was installed with.               *)
(***************************************************************************)
Mobility(path) == IF path.mob = None THEN [seq |-> 0, sticky |-> FALSE] ELSE path.mob

MayTakeOver(cur, n, path) ==
    \/ cur = None
    \/ cur.owner = n
    \/ FAM[n] # "mac"
    \/ LET old == Mobility(cur) new == Mobility(path)
       IN /\ new.seq >= old.seq
          /\ old.sticky => new.sticky
          /\ ~( /\ cur.mob # None /\ path.mob # None
                /\ new.seq = old.seq /\ cur.vtep # path.vtep)

RemoveIfOwner(v, n) ==
    IF v[KEY[n]] # None /\ v[KEY[n]].owner = n
    THEN [v EXCEPT ![KEY[n]] = None] ELSE v

(* Mutant: a best path that left the import set is ignored. *)
ApplyEventNoImport(v, n, path) ==
    IF path = None THEN RemoveIfOwner(v, n)
    ELSE IF path.rt /\ MayTakeOver(v[KEY[n]], n, path)
         THEN [v EXCEPT ![KEY[n]] = [owner |-> n, vtep |-> path.vtep, mob |-> path.mob]]
         ELSE v

ApplyEvent(v, n, path) ==
    IF path = None \/ ~path.rt THEN RemoveIfOwner(v, n)
    ELSE IF MayTakeOver(v[KEY[n]], n, path)
         THEN [v EXCEPT ![KEY[n]] = [owner |-> n, vtep |-> path.vtep, mob |-> path.mob]]
         ELSE v

(***************************************************************************)
(* Monitor feeds.  An event says what a key maps to now.  try_send: a      *)
(* subscriber whose buffer is full is dropped.                             *)
(***************************************************************************)
Seen(entry) == IF entry = None THEN None ELSE entry.vtep

Event(k, value) == [key |-> k, value |-> value]

(* Mutant: a full subscriber loses the event and stays subscribed. *)
FanoutLossy(s, feed, event) ==
    [c \in DOMAIN s |->
        IF ~s[c].live \/ s[c].feed # feed \/ Len(s[c].queue) >= CAP THEN s[c]
        ELSE [s[c] EXCEPT !.queue = Append(@, event)]]

Fanout(s, feed, event) ==
    [c \in DOMAIN s |->
        IF ~s[c].live \/ s[c].feed # feed THEN s[c]
        ELSE IF Len(s[c].queue) >= CAP THEN [s[c] EXCEPT !.live = FALSE]
        ELSE [s[c] EXCEPT !.queue = Append(@, event)]]

(***************************************************************************)
(* handle_evpn_event.  nh is the next hop of the message that caused the   *)
(* event, from the peer it came from.                                      *)
(***************************************************************************)
Told(o, ss, from, n, path, nh) ==
    [q \in Peer |->
        IF q \notin ss \cap EVPN \/ q = from THEN o[q]
        ELSE IF path = None THEN [o[q] EXCEPT ![n] = None]
        ELSE IF REFLECTS(path.peer, q) THEN [o[q] EXCEPT ![n] = nh] ELSE o[q]]

(* One RIB event applied to everything downstream of the RIB. *)
HandleEvpnEvent(st, n, path, nh, from) ==
    LET v == ApplyEvent(st.view, n, path)
        changed == Seen(v[KEY[n]]) # Seen(st.view[KEY[n]])
    IN [st EXCEPT
          !.view = v,
          !.sub = IF changed THEN Fanout(@, "evpn", Event(KEY[n], Seen(v[KEY[n]]))) ELSE @,
          !.nh[n] = IF path = None THEN None ELSE nh,
          !.out = Told(@, st.sessions, from, n, path, nh)]

HandleFlowSpecEvent(st, n, path) ==
    [st EXCEPT !.sub = Fanout(@, "flow", Event(n, IF path = None THEN None ELSE path.act))]

(* update / withdraw of one NLRI: replace the entry and reselect.          *)
RibUpdate(st, n, p, path) ==
    LET es == [st.entries EXCEPT ![n][p] = path]
    IN [st EXCEPT !.entries = es, !.best[n] = Reselect(es, n)]

(* The four tables: each acts on the event when the best path changed; SR  *)
(* Policy and link state only log theirs.                                  *)
EvpnRibUpdate(st, n, p, path, nh) ==
    LET st1 == RibUpdate(st, n, p, path)
    IN IF st1.best[n] = st.best[n] THEN st1 ELSE HandleEvpnEvent(st1, n, st1.best[n], nh, p)

FlowSpecRibUpdate(st, n, p, path) ==
    LET st1 == RibUpdate(st, n, p, path)
    IN IF st1.best[n] = st.best[n] THEN st1 ELSE HandleFlowSpecEvent(st1, n, st1.best[n])

SrPolicyRibUpdate(st, n, p, path) == RibUpdate(st, n, p, path)

LinkStateRibUpdate(st, n, p, path) == RibUpdate(st, n, p, path)

Change(st, n, p, path, nh) ==
    CASE n \in Evpn     -> EvpnRibUpdate(st, n, p, path, nh)
      [] n \in Flow     -> FlowSpecRibUpdate(st, n, p, path)
      [] FAM[n] = "sr"  -> SrPolicyRibUpdate(st, n, p, path)
      [] FAM[n] = "ls"  -> LinkStateRibUpdate(st, n, p, path)

(* withdraw_peer of each table, in NLRI order. *)
(* Mutant: only the EVPN routes of the peer are withdrawn. *)
WithdrawPeerEvpn(st, p) ==
    FoldLeft(LAMBDA acc, n : IF acc.entries[n][p] = None \/ n \notin Evpn THEN acc
                             ELSE Change(acc, n, p, None, EMPTY),
             st, Ordered)

WithdrawPeer(st, p) ==
    FoldLeft(LAMBDA acc, n : IF acc.entries[n][p] = None THEN acc
                             ELSE Change(acc, n, p, None, EMPTY),
             st, Ordered)

State == [entries |-> entries, best |-> best, view |-> view, nh |-> evpn_nh,
          out |-> out, sub |-> sub, sessions |-> sessions]

Become(st) ==
    /\ entries' = st.entries /\ best' = st.best /\ view' = st.view
    /\ evpn_nh' = st.nh /\ out' = st.out /\ sub' = st.sub /\ sessions' = st.sessions

Step == steps < MAX_STEPS /\ steps' = steps + 1

(***************************************************************************)
(* The arms of the BGP task.                                               *)
(***************************************************************************)
Nothing == [n \in NLRI |-> None]

(* Established: the originations, then the best routes that have a kept    *)
(* next hop, under the session's propagation gate.                         *)
OnEstablished(p) ==
    /\ Step /\ p \notin sessions
    /\ sessions' = sessions \cup {p}
    /\ out' = [out EXCEPT ![p] =
          [n \in NLRI |->
             IF p \notin EVPN THEN None
             ELSE IF n \in Own THEN IF n \in originated THEN n ELSE None
             ELSE IF n \in Evpn /\ best[n] # None /\ evpn_nh[n] # None /\ REFLECTS(best[n].peer, p)
                  THEN evpn_nh[n] ELSE None]]
    /\ UNCHANGED <<entries, best, view, evpn_nh, originated, sub>>

(* Down: the session's sender is gone, and what it sent is forgotten by    *)
(* the peer; every family's routes of the peer are withdrawn.              *)
OnDown(p) ==
    /\ Step /\ p \in sessions
    /\ Become(WithdrawPeer([State EXCEPT !.sessions = @ \ {p}, !.out[p] = Nothing], p))
    /\ UNCHANGED originated

OnReach(p, n, offered) ==
    /\ Step /\ p \in sessions \cap OFFERS[n]
    /\ Become(Change(State, n, p, offered @@ [peer |-> p],
                     IF n \in Evpn THEN offered.vtep ELSE EMPTY))
    /\ UNCHANGED originated

OnUnreach(p, n) ==
    /\ Step /\ p \in sessions \cap OFFERS[n]
    /\ Become(Change(State, n, p, None, EMPTY))
    /\ UNCHANGED originated

(* The control socket's evpn advertise and evpn withdraw. *)
EvpnAdvertise(n) ==
    /\ Step
    /\ originated' = originated \cup {n}
    /\ evpn_nh' = [evpn_nh EXCEPT ![n] = n]
    /\ out' = [q \in Peer |-> IF q \in sessions \cap EVPN THEN [out[q] EXCEPT ![n] = n] ELSE out[q]]
    /\ UNCHANGED <<entries, best, view, sessions, sub>>

(* Mutant: the sessions are told, the persistent origination stays. *)
EvpnWithdrawOnce(n) ==
    /\ Step
    /\ evpn_nh' = [evpn_nh EXCEPT ![n] = None]
    /\ out' = [q \in Peer |-> IF q \in sessions \cap EVPN THEN [out[q] EXCEPT ![n] = None] ELSE out[q]]
    /\ UNCHANGED <<entries, best, view, originated, sessions, sub>>

EvpnWithdraw(n) ==
    /\ Step
    /\ originated' = originated \ {n}
    /\ evpn_nh' = [evpn_nh EXCEPT ![n] = None]
    /\ out' = [q \in Peer |-> IF q \in sessions \cap EVPN THEN [out[q] EXCEPT ![n] = None] ELSE out[q]]
    /\ UNCHANGED <<entries, best, view, sessions, sub>>

(* subscribe_evpn and subscribe_flowspec: the snapshot is sent with        *)
(* backpressure and the task takes no route meanwhile; when it ends, the   *)
(* client has read all but the last few events.  A client that leaves      *)
(* during the snapshot is not retained.                                    *)
Snapshot(feed) ==
    IF feed = "evpn"
    THEN [k \in {j \in Keys : view[j] # None} |-> view[k].vtep]
    ELSE [n \in {j \in Flow : best[j] # None} |-> best[n].act]

Blank(feed) == [k \in (IF feed = "evpn" THEN Keys ELSE Flow) |-> None]

Subscribe(c) ==
    /\ Step /\ ~sub[c].live
    /\ LET snap == Snapshot(sub[c].feed)
       IN \E unread \in {u \in SUBSET DOMAIN snap : Cardinality(u) <= CAP} :
            sub' = [sub EXCEPT ![c] =
               [feed |-> sub[c].feed, live |-> TRUE,
                queue |-> SetToSeq({Event(k, snap[k]) : k \in unread}),
                mirror |-> [k \in DOMAIN Blank(sub[c].feed) |->
                              IF k \in DOMAIN snap \ unread THEN snap[k] ELSE None]]]
    /\ UNCHANGED <<entries, best, view, evpn_nh, originated, sessions, out>>

(* The client reads an event, or leaves. *)
Read(c) ==
    /\ sub[c].queue # <<>>
    /\ LET e == Head(sub[c].queue)
       IN sub' = [sub EXCEPT ![c].queue = Tail(@), ![c].mirror[e.key] = e.value]
    /\ UNCHANGED <<entries, best, view, evpn_nh, originated, sessions, out, steps>>

Leave(c) ==
    /\ Step /\ sub[c].live
    /\ sub' = [sub EXCEPT ![c].live = FALSE, ![c].queue = <<>>]
    /\ UNCHANGED <<entries, best, view, evpn_nh, originated, sessions, out>>

Init ==
    /\ entries = [n \in NLRI |-> [p \in Peer |-> None]]
    /\ best = Nothing
    /\ view = [k \in Keys |-> None]
    /\ evpn_nh = Nothing
    /\ originated = {}
    /\ sessions = {}
    /\ out = [p \in Peer |-> Nothing]
    /\ sub = [c \in {"fabric", "filter"} |->
                LET feed == IF c = "fabric" THEN "evpn" ELSE "flow"
                IN [feed |-> feed, live |-> FALSE, queue |-> <<>>, mirror |-> Blank(feed)]]
    /\ steps = 0

Next ==
    \/ \E p \in Peer : OnEstablished(p) \/ OnDown(p)
    \/ \E n \in NLRI, p \in Peer : (\E o \in PATHS[n] : OnReach(p, n, o)) \/ OnUnreach(p, n)
    \/ \E n \in Own : EvpnAdvertise(n) \/ EvpnWithdraw(n)
    \/ \E c \in DOMAIN sub : Subscribe(c) \/ Read(c) \/ Leave(c)

Spec == Init /\ [][Next]_vars

(***************************************************************************)
(* SrPolicyRib::installed: the candidates in NLRI order, one winner per    *)
(* colour; a candidate is only compared with the last winner.              *)
(***************************************************************************)
Candidates == SelectSeq(Ordered, LAMBDA n : FAM[n] = "sr" /\ best[n] # None)

(* Mutant: the first of two equal candidates stays. *)
InstalledFirst ==
    FoldLeft(LAMBDA ws, n :
                 IF ws = <<>> \/ KEY[Last(ws)] # KEY[n] THEN Append(ws, n)
                 ELSE IF best[n].pref > best[Last(ws)].pref THEN [ws EXCEPT ![Len(ws)] = n] ELSE ws,
             <<>>, Candidates)

Installed ==
    FoldLeft(LAMBDA ws, n :
                 IF ws = <<>> \/ KEY[Last(ws)] # KEY[n] THEN Append(ws, n)
                 ELSE IF best[n].pref >= best[Last(ws)].pref THEN [ws EXCEPT ![Len(ws)] = n] ELSE ws,
             <<>>, Candidates)

(***************************************************************************)
(* Properties.                                                             *)
(***************************************************************************)
(* Every table holds what it is declared to hold, a best path is one of    *)
(* the offered ones, and only Established peers have routes in any RIB.    *)
ServicesTypeOK ==
    /\ sessions \subseteq Peer /\ originated \subseteq Own
    /\ \A n \in NLRI : /\ (best[n] = None) = (\A p \in Peer : entries[n][p] = None)
                       /\ best[n] # None => entries[n][best[n].peer] = best[n]
                       /\ \A p \in Peer : entries[n][p] # None => p \in sessions
    /\ \A c \in DOMAIN sub : Len(sub[c].queue) <= CAP

(* A MAC, flood target or prefix in a view is always backed by the current *)
(* best path of the NLRI that owns it, with that path's VTEP, and that     *)
(* path still carries an imported Route Target; and what only one NLRI     *)
(* stands for is in the view exactly while that NLRI is imported.          *)
ViewBacked ==
    /\ \A k \in Keys : view[k] # None =>
          LET b == best[view[k].owner]
          IN KEY[view[k].owner] = k /\ b # None /\ b.rt /\ b.vtep = view[k].vtep /\ b.mob = view[k].mob
    /\ \A n \in Evpn : {m \in Evpn : KEY[m] = KEY[n]} = {n} =>
          (view[KEY[n]] # None) = (best[n] # None /\ best[n].rt)

(* A monitor client that is still subscribed will, once it has read its    *)
(* buffer, have exactly the forwarding state of the views (or the flow     *)
(* rules): snapshot and live events leave no gap and no stale entry.       *)
MonitorMirrors ==
    \A c \in DOMAIN sub : sub[c].live =>
       FoldLeft(LAMBDA mirror, e : [mirror EXCEPT ![e.key] = e.value], sub[c].mirror, sub[c].queue)
         = IF sub[c].feed = "evpn" THEN [k \in Keys |-> Seen(view[k])]
           ELSE [n \in Flow |-> IF best[n] = None THEN None ELSE best[n].act]

(* An EVPN session has been sent, and not been sent a withdrawal of, every *)
(* local origination and every route that a single peer offers and that    *)
(* may be reflected to it, with the next hop its advertiser gave; and      *)
(* holds nothing else of those NLRI, whatever order sessions came up in.   *)
SoleOfferReflected ==
    \A q \in sessions \cap EVPN :
       /\ \A n \in Own : out[q][n] = IF n \in originated THEN n ELSE None
       /\ \A n \in Evpn, p \in Peer : OFFERS[n] = {p} /\ p # q =>
             out[q][n] = IF best[n] # None /\ REFLECTS(p, q) THEN best[n].vtep ELSE None

(* Each colour has one installed policy: a candidate of the highest        *)
(* preference, the highest distinguisher among equals.                     *)
PolicyPreferred ==
    LET cs == ToSet(Candidates)
        Beats(n, m) == best[n].pref > best[m].pref \/ (best[n].pref = best[m].pref /\ n > m)
    IN \A n \in cs : LET rivals == {m \in cs : KEY[m] = KEY[n]}
                     IN (\E i \in DOMAIN Installed : Installed[i] = n)
                          = (\A m \in rivals \ {n} : Beats(n, m))

=============================================================================
