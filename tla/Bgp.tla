-------------------------------- MODULE Bgp --------------------------------
(***************************************************************************)
(* The central BGP task of crates/wren-daemon/src/bgp.rs (run and what it  *)
(* calls) over the RIBs of crates/wren-bgp/src/rib.rs: it owns the         *)
(* Adj-RIB-In, selects, feeds the router, and pushes what each neighbour   *)
(* is to hold.                                                             *)
(*                                                                         *)
(* Neighbours and their session tasks are the environment: a session comes *)
(* up, forwards UPDATEs into the one channel the task reads, and goes.     *)
(* BgpSession models how one session is established and lost; here a       *)
(* neighbour has one connection at a time.  A command to a session is      *)
(* carried out at once: sessions apply theirs in order and nobody else     *)
(* writes to the peer.  Command queues do not fill up here.                *)
(***************************************************************************)
EXTENDS BgpDecision, Functions

CONSTANTS
    OFFERS,         \* neighbour -> what its UPDATEs may carry: records [keys, attrs, over6]
                    \*   keys are <<prefix, path id>>; over6: IPv4 routes in MP_REACH_NLRI
    NETWORKS,       \* configured networks: prefix -> communities
    REDIST,         \* redistribution events: <<prefix, communities>>, or <<prefix, None>> to withdraw
    AGGREGATES,     \* [prefix, summary_only]
    DEFAULT,        \* the default route's prefix
    STATIC_ROAS, FEEDS,   \* configured ROAs; the tables an RTR cache may send
    REJECT_INVALID, \* rpki-reject-invalid
    RX,             \* messages in the channel at once
    BUDGETS         \* who comes up at all (who), and how often each event may happen:
                    \*   records of who, up, lost, send, eor, refresh, redist, rtr, bfd, remove, add

VARIABLES
    up,             \* each neighbour's session task: "down", "up", or ending: "cease", "bfd"
    offered,        \* what the neighbour has advertised on its session: key -> [attrs, over6]
    rx,             \* messages of the sessions, in order
    neighbors,      \* the configured neighbours
    sessions,       \* neighbours the task talks to
    gr_helper,      \* those that announced Graceful Restart
    stale,          \* restarting neighbours: the prefixes not refreshed yet; its timer runs
    damped,         \* neighbours shut for exceeding their limit
    adj,            \* Adj-RIB-In: <<prefix, neighbour, path id>> -> path
    held,           \* what each session's peer holds of us: <<prefix, path id>> -> attributes
    fed,            \* what the router was told: prefix -> [path, hops]
    ids, next,      \* ADD-PATH identifiers given to sources <<neighbour, path id>>
    originated,     \* prefix -> [tags, configured]
    roa,            \* the ROA table in force
    budget,         \* events still to come
    haunted         \* history: neighbours of which an Established or an UPDATE was acted
                    \* upon after a reload had removed them

bgpVars == <<up, offered, rx, neighbors, sessions, gr_helper, stale, damped, adj, held, fed,
             ids, next, originated, roa, budget, haunted>>

Peers    == DOMAIN PEER
Prefix   == DOMAIN FAMILY
Empty    == [k \in {} |-> None]
Without(f, S) == Restrict(f, DOMAIN f \ S)
Upsert(f, k, v) == [j \in DOMAIN f \cup {k} |-> IF j = k THEN v ELSE f[j]]

-----------------------------------------------------------------------------
(* The RIBs, and the updates a change sends out.  S gathers what one        *)
(* handler changes: [adj, held, fed, ids, next].                            *)

\* Lexicographic order of tuples of one length.
TupleLess(a, b) == \E i \in DOMAIN a : a[i] < b[i] /\ \A j \in 1..(i - 1) : a[j] = b[j]
KeysOf(a, x)  == SetToSortSeq({k \in DOMAIN a : k[1] = x}, TupleLess)
Candidates(a, x) == LET ks == KeysOf(a, x) IN [i \in DOMAIN ks |-> a[ks[i]]]
Outcome(best, paths) == [path |-> best, hops |-> Hops(best, paths)]
Selection(paths) == Outcome(SelectBest(paths), paths)
Selected(a, x) == Selection(Candidates(a, x))
PrefixesFrom(a, p) == {k[1] : k \in {j \in DOMAIN a : j[2] = p}}

\* propagate: every session that is not an ADD-PATH one.
Propagate(h, x, best, to) ==
    [p \in Peers |->
        IF p \notin to \/ PEER[p].add_path THEN h[p]
        ELSE IF best = None THEN Without(h[p], {<<x, 0>>})
        ELSE LET r == PropagateRoute(x, best, p)
             IN IF r = None THEN h[p] ELSE Upsert(h[p], <<x, 0>>, r)]

\* apply_event: the peers and the router learn of a new selection.
ApplyEvent(S, x, before, after, to) ==
    IF before = after THEN S
    ELSE [S EXCEPT
            !.held = Propagate(S.held, x, after.path, to),
            !.fed = IF after.path = None THEN Without(S.fed, {x}) ELSE Upsert(S.fed, x, after)]

\* update_with_id and withdraw_with_id, then apply_event on what changed.
Change(S, k, path, to) ==
    LET T == [S EXCEPT !.adj = IF path = None THEN Without(@, {k}) ELSE Upsert(@, k, path)]
    IN ApplyEvent(T, k[1], Selected(S.adj, k[1]), Selected(T.adj, k[1]), to)

WithdrawAll(S, keys, to) ==
    FoldLeft(LAMBDA T, k : Change(T, k, None, to), S, SetToSortSeq(keys, TupleLess))

WithdrawPeer(S, p, to) == WithdrawAll(S, {k \in DOMAIN S.adj : k[2] = p}, to)

\* AddPathState: identifiers for the sources that have none yet, in order.
Assigned(S, fresh) ==
    [S EXCEPT !.next = @ + Len(fresh),
              !.ids = [s \in DOMAIN @ \cup ToSet(fresh) |->
                          IF s \in DOMAIN @ THEN @[s]
                          ELSE S.next + (CHOOSE i \in DOMAIN fresh : fresh[i] = s)]]

\* What a peer holds once its routes of x under an identifier are `out`.
Replaced(h, x, out) ==
    [j \in {i \in DOMAIN h : i[1] # x \/ i[2] = 0} \cup DOMAIN out |->
        IF j \in DOMAIN out THEN out[j] ELSE h[j]]

\* The candidates of x, one route per source, under their identifiers.
Identified(S, x, routes) ==
    [j \in {<<x, S.ids[s]>> : s \in DOMAIN routes} |->
        routes[CHOOSE s \in DOMAIN routes : S.ids[s] = j[2]]]

\* The sources of x, in order, that some ADD-PATH session is to see and that
\* have no identifier, given what each session is to see.
Unidentified(S, x, views) ==
    LET ks == KeysOf(S.adj, x)
        sources == [i \in DOMAIN ks |-> <<ks[i][2], ks[i][3]>>]
    IN SelectSeq(sources, LAMBDA s : /\ \E p \in DOMAIN views : s \in DOMAIN views[p]
                                     /\ s \notin DOMAIN S.ids)

\* The sessions' views of x are sent; a session under RFC 8212 without a
\* policy takes nothing.
SendViews(S, x, views) ==
    [S EXCEPT !.held = [p \in Peers |->
        IF p \notin DOMAIN views \/ Rfc8212Deny(p, EXPORT) THEN @[p]
        ELSE Replaced(@[p], x, Identified(S, x, views[p]))]]

Told(S, x, views) == SendViews(Assigned(S, Unidentified(S, x, views)), x, views)

\* What peer p may see of x: one route per source.
SomeRoutes(f) == Restrict(f, {s \in DOMAIN f : f[s] # None})
View(a, x, p) ==
    SomeRoutes([s \in {<<k[2], k[3]>> : k \in {j \in DOMAIN a : j[1] = x /\ j[2] # p}} |->
                   AddPathRoute(x, a[<<x, s[1], s[2]>>], p)])

\* propagate_addpath: the whole candidate set of x, to every ADD-PATH session.
PropagateAddPath(S, x, to) ==
    IF FAMILY[x] # "v4" THEN S
    ELSE Told(S, x, [p \in {q \in to : PEER[q].add_path} |-> View(S.adj, x, p)])

AddPathAll(S, xs, to) == FoldLeft(LAMBDA T, x : PropagateAddPath(T, x, to), S, SetToSortSeq(xs, <))

\* AddPathState::drop_peer, and the peer is gone with what it held.
DropPeer(S, p) == [S EXCEPT !.held[p] = Empty,
                            !.ids = Without(@, {s \in DOMAIN @ : s[1] = p})]

Now == [adj |-> adj, held |-> held, fed |-> fed, ids |-> ids, next |-> next]
Commit(S) == /\ adj' = S.adj /\ held' = S.held /\ fed' = S.fed
             /\ ids' = S.ids /\ next' = S.next

-----------------------------------------------------------------------------
(* Origination                                                              *)

Advertised == EffectiveOrigination(originated, AGGREGATES)

\* SessionCmd::Advertise of some originated routes to p.
Overlaid(h, sent) == [k \in DOMAIN h \cup {<<x, 0>> : x \in DOMAIN sent} |->
                         IF k[2] = 0 /\ k[1] \in DOMAIN sent THEN sent[k[1]] ELSE h[k]]
AdvertiseTo(h, p, adv, xs) ==
    [h EXCEPT ![p] = Overlaid(@, SomeRoutes([x \in xs |-> OriginatedRoute(x, adv[x], p)]))]

\* The Loc-RIB's best paths, to a session that is not an ADD-PATH one.
PropagateBest(h, p, a) ==
    FoldLeft(LAMBDA g, x : Propagate(g, x, Selected(a, x).path, {p}), h,
             SetToSortSeq({k[1] : k \in DOMAIN a}, <))

-----------------------------------------------------------------------------
(* The sessions and the neighbours behind them                              *)

Spend(what) == /\ budget[what] > 0
               /\ budget' = [budget EXCEPT ![what] = @ - 1]
Enqueue(m) == /\ Len(rx) < RX
              /\ rx' = Append(rx, m)

\* A session that is told to cease forwards what it reads before the command.
Talks(p)   == up[p] # "down"

central == <<neighbors, sessions, gr_helper, stale, damped, adj, held, fed, ids, next, originated, roa>>

SessionUp(p) ==
    /\ up[p] = "down" /\ p \in neighbors \cap budget.who
    /\ Spend("up")
    /\ up' = [up EXCEPT ![p] = "up"]
    /\ offered' = [offered EXCEPT ![p] = Empty]
    /\ Enqueue([kind |-> "established", peer |-> p])
    /\ UNCHANGED central

\* The connection fails, the Hold timer fires or the peer closes.
SessionLost(p) ==
    /\ up[p] = "up"
    /\ Spend("lost")
    /\ up' = [up EXCEPT ![p] = "down"]
    /\ offered' = [offered EXCEPT ![p] = Empty]
    /\ Enqueue([kind |-> "down", peer |-> p])
    /\ UNCHANGED central

\* The session carries out a Cease; only BfdDown reports Down.
SessionEnds(p) ==
    /\ up[p] \in {"cease", "bfd"}
    /\ up' = [up EXCEPT ![p] = "down"]
    /\ offered' = [offered EXCEPT ![p] = Empty]
    /\ IF up[p] = "bfd" THEN Enqueue([kind |-> "down", peer |-> p]) ELSE UNCHANGED rx
    /\ UNCHANGED <<central, budget>>

PeerSends(p) ==
    /\ Talks(p)
    /\ Spend("send")
    /\ \E o \in OFFERS[p], gone \in SUBSET DOMAIN offered[p] :
        \E keys \in SUBSET o.keys :
          /\ Cardinality(keys) + Cardinality(gone) \in {1, 2}
          /\ keys \cap gone = {}
          /\ offered' = [offered EXCEPT ![p] =
                [k \in (DOMAIN @ \ gone) \cup keys |->
                    IF k \in keys THEN [attrs |-> o.attrs, over6 |-> o.over6] ELSE @[k]]]
          /\ Enqueue([kind |-> "update", peer |-> p, withdrawn |-> gone, nlri |-> keys,
                      attrs |-> o.attrs, over6 |-> o.over6])
    /\ UNCHANGED <<up, central>>

PeerSendsEndOfRib(p) ==
    /\ Talks(p) /\ Spend("eor")
    /\ Enqueue([kind |-> "end_of_rib", peer |-> p])
    /\ UNCHANGED <<up, offered, central>>

PeerAsksRefresh(p) ==
    /\ Talks(p) /\ Spend("refresh")
    /\ Enqueue([kind |-> "refresh", peer |-> p])
    /\ UNCHANGED <<up, offered, central>>

-----------------------------------------------------------------------------
(* The central task: one message of a session                               *)

Receive(kind) == rx # <<>> /\ Head(rx).kind = kind /\ rx' = Tail(rx)

\* What a peer is sent when its session comes up, or when it asks again: the
\* originated routes, then the best paths.
AdvertiseAll(h, p) ==
    LET adv == Advertised IN PropagateBest(AdvertiseTo(h, p, adv, DOMAIN adv), p, adj)

\* The default route goes to the peers that are to have it.
DefaultTo(h, p) ==
    IF PEER[p].default_originate THEN AdvertiseTo(h, p, [x \in {DEFAULT} |-> {}], {DEFAULT}) ELSE h

\* A new ADD-PATH session is sent every candidate.
Shared(S, p, to) ==
    IF PEER[p].add_path THEN AddPathAll(S, {k[1] : k \in DOMAIN S.adj}, to) ELSE S

OnEstablished ==
    /\ Receive("established")
    /\ LET p == Head(rx).peer
           h == DefaultTo(AdvertiseAll([held EXCEPT ![p] = Empty], p), p)
       IN IF p \in damped
          THEN /\ up' = [up EXCEPT ![p] = IF @ = "up" THEN "cease" ELSE @]
               /\ UNCHANGED <<sessions, gr_helper, adj, held, fed, ids, next>>
          ELSE /\ sessions' = sessions \cup {p}
               /\ gr_helper' = IF PEER[p].gr THEN gr_helper \cup {p} ELSE gr_helper \ {p}
               /\ Commit(Shared([Now EXCEPT !.held = h], p, sessions'))
               /\ UNCHANGED up
    /\ UNCHANGED <<offered, neighbors, stale, damped, originated, roa, budget>>

OnDown ==
    /\ Receive("down")
    /\ LET p  == Head(rx).peer
           to == sessions \ {p}
           xs == PrefixesFrom(adj, p)
           retained == p \in gr_helper /\ xs # {}
           S == DropPeer(Now, p)
       IN IF p \notin sessions
          THEN UNCHANGED <<sessions, stale, adj, held, fed, ids, next>>
          ELSE /\ sessions' = to
               /\ stale' = IF retained THEN Upsert(stale, p, xs) ELSE stale
               /\ Commit(IF retained THEN S ELSE AddPathAll(WithdrawPeer(S, p, to), xs, to))
    /\ UNCHANGED <<up, offered, neighbors, gr_helper, damped, originated, roa, budget>>

OnRefresh ==
    /\ Receive("refresh")
    /\ LET p == Head(rx).peer
       IN held' = IF p \in sessions
                  THEN AdvertiseAll(held, p) ELSE held
    /\ UNCHANGED <<up, offered, neighbors, sessions, gr_helper, stale, damped, adj, fed, ids, next,
                   originated, roa, budget>>

\* flush_stale: the paths without an ADD-PATH identifier.
FlushStale(p) == WithdrawAll(Now, {<<x, p, 0>> : x \in stale[p]} \cap DOMAIN adj, sessions)

OnEndOfRib ==
    /\ Receive("end_of_rib")
    /\ LET p == Head(rx).peer
       IN IF p \in sessions /\ p \in DOMAIN stale
          THEN Commit(FlushStale(p)) /\ stale' = Without(stale, {p})
          ELSE UNCHANGED <<stale, adj, held, fed, ids, next>>
    /\ UNCHANGED <<up, offered, neighbors, sessions, gr_helper, damped, originated, roa, budget>>

\* A slip, for the mutants: a route the neighbour advertises again stays stale.
RefreshedNever(u) == {}

\* The prefixes an UPDATE refreshes: base NLRI and IPv6, not IPv4 over IPv6.
Refreshed(u) == IF u.over6 THEN {} ELSE {k[1] : k \in u.nlri}

Fresher(u) == IF u.peer \in DOMAIN stale THEN [stale EXCEPT ![u.peer] = @ \ Refreshed(u)] ELSE stale

\* import_and_install for one prefix.
ImportPath(p, x, path) ==
    IF REJECT_INVALID /\ roa # {} /\ Validate(roa, x, OriginAs(path)) = "invalid" THEN None
    ELSE FilterPath(Restrict(IMPORT, DOMAIN IMPORT \cap neighbors), p, x, path)

Rejected(p, attrs) == p \in neighbors /\ (Rfc8212Deny(p, IMPORT) \/ OtcReject(p, attrs.otc))
Looped(attrs) == IsAsPathLoop(attrs) \/ IsConfedLoop(attrs) \/ IsReflectionLoop(attrs)
StampedPath(p, attrs) == [BuildPath(p, attrs) EXCEPT
                            !.otc = IF p \in neighbors THEN OtcStamp(p, @) ELSE @]

\* MP_REACH_NLRI of IPv4 over IPv6 does not count towards the limit.
OverLimit(S, u) ==
    /\ u.peer \in neighbors /\ PEER[u.peer].max_prefix # None
    /\ Cardinality(PrefixesFrom(S.adj, u.peer) \cup (IF u.over6 THEN {} ELSE {k[1] : k \in u.nlri}))
          > PEER[u.peer].max_prefix

\* ADD-PATH sessions are told of the prefixes of the base fields only.
Touched(u) == {k[1] : k \in u.withdrawn \cup (IF u.over6 THEN {} ELSE u.nlri)}

Install(S, u, path) ==
    LET Import(R, k) ==
            Change(R, <<k[1], u.peer, k[2]>>, ImportPath(u.peer, k[1], path), sessions)
        new == IF Rejected(u.peer, u.attrs) THEN {} ELSE u.nlri
    IN AddPathAll(FoldLeft(Import, S, SetToSortSeq(new, TupleLess)), Touched(u), sessions)

\* More prefixes than the neighbour may have: its routes go, its session is
\* shut and stays shut.
ShutOver(W, p) ==
    /\ Commit([WithdrawPeer(W, p, sessions) EXCEPT !.held[p] = Empty])
    /\ up' = [up EXCEPT ![p] = IF p \in sessions /\ @ = "up" THEN "cease" ELSE @]
    /\ sessions' = sessions \ {p}
    /\ damped' = damped \cup {p}

\* The rest of an UPDATE of an admitted peer, once its withdrawals gave W.
Announce(W, u) ==
    /\ stale' = Fresher(u)
    /\ \/ /\ Looped(u.attrs) /\ u.nlri # {}
          /\ Commit(W)
          /\ UNCHANGED <<up, sessions, damped>>
       \/ /\ ~(Looped(u.attrs) /\ u.nlri # {})
          /\ OverLimit(W, u)
          /\ ShutOver(W, u.peer)
       \/ /\ ~(Looped(u.attrs) /\ u.nlri # {})
          /\ ~OverLimit(W, u)
          /\ Commit(Install(W, u, StampedPath(u.peer, u.attrs)))
          /\ UNCHANGED <<up, sessions, damped>>

OnUpdate ==
    /\ Receive("update")
    /\ LET u == Head(rx)
       IN \/ /\ u.peer \in damped
             /\ UNCHANGED <<up, sessions, stale, damped, adj, held, fed, ids, next>>
          \/ /\ u.peer \notin damped
             /\ Announce(WithdrawAll(Now, {<<k[1], u.peer, k[2]>> : k \in u.withdrawn} \cap DOMAIN adj,
                                     sessions), u)
    /\ UNCHANGED <<offered, neighbors, gr_helper, originated, roa, budget>>

-----------------------------------------------------------------------------
(* The central task: its timers and the other channels                      *)

\* A restarting neighbour did not return in time.
RestartTimer(p) ==
    /\ p \in DOMAIN stale
    /\ Commit(FlushStale(p))
    /\ stale' = Without(stale, {p})
    /\ UNCHANGED <<up, offered, rx, neighbors, sessions, gr_helper, damped, originated, roa, budget>>

\* A redistributed prefix, or its withdrawal; configured networks stay.
Redistributed(x, tags) ==
    IF x \in DOMAIN originated /\ originated[x].configured THEN originated
    ELSE IF tags = None THEN Without(originated, {x})
    ELSE Upsert(originated, x, [tags |-> tags, configured |-> FALSE])

\* The sessions are told of what changed in the effective origination.
Reoriginated(before, after) ==
    LET adv  == {y \in DOMAIN after : y \notin DOMAIN before \/ before[y] # after[y]}
        gone == DOMAIN before \ DOMAIN after
    IN [p \in Peers |-> IF p \in sessions
                        THEN Without(AdvertiseTo(held, p, after, adv)[p], gone \X {0})
                        ELSE held[p]]

ApplyRedistribution ==
    /\ Spend("redist")
    /\ \E r \in REDIST :
         /\ originated' = Redistributed(r[1], r[2])
         /\ held' = Reoriginated(Advertised, EffectiveOrigination(originated', AGGREGATES))
    /\ UNCHANGED <<up, offered, rx, neighbors, sessions, gr_helper, stale, damped, adj, fed, ids, next, roa>>

\* An RTR cache sent a table: the best paths it makes invalid go.
RtrFeed ==
    /\ Spend("rtr")
    /\ \E f \in FEEDS :
         LET table == STATIC_ROAS \cup f
             bad == {x \in {k[1] : k \in DOMAIN adj} :
                        Validate(table, x, OriginAs(Selected(adj, x).path)) = "invalid"}
         IN /\ roa' = table
            /\ Commit(IF REJECT_INVALID /\ table # {}
                      THEN WithdrawAll(Now, {<<x, Selected(adj, x).path.peer_addr, 0>> : x \in bad}
                                            \cap DOMAIN adj, sessions)
                      ELSE Now)
    /\ UNCHANGED <<up, offered, rx, neighbors, sessions, gr_helper, stale, damped, originated>>

BfdDown(p) ==
    /\ Spend("bfd")
    /\ p \in sessions
    /\ up' = [up EXCEPT ![p] = IF @ = "up" THEN "bfd" ELSE @]
    /\ UNCHANGED <<offered, rx, central>>

\* A reload removed the neighbour, whatever of it is still unread.
ReconfigRemove(p) ==
    /\ p \in neighbors
    /\ Spend("remove")
    /\ LET to == sessions \ {p}
       IN /\ sessions' = to
          /\ Commit(WithdrawPeer(DropPeer(Now, p), p, to))
    /\ up' = [up EXCEPT ![p] = IF p \in sessions /\ @ # "down" THEN "cease" ELSE @]
    /\ neighbors' = neighbors \ {p}
    /\ gr_helper' = gr_helper \ {p}
    /\ stale' = Without(stale, {p})
    /\ damped' = damped \ {p}
    /\ UNCHANGED <<offered, rx, originated, roa>>

ReconfigAdd(p) ==
    /\ p \notin neighbors
    /\ Spend("add")
    /\ neighbors' = neighbors \cup {p}
    /\ UNCHANGED <<up, offered, rx, sessions, gr_helper, stale, damped, adj, held, fed, ids, next,
                   originated, roa>>

-----------------------------------------------------------------------------

BgpInit ==
    /\ up = [p \in Peers |-> "down"]
    /\ offered = [p \in Peers |-> Empty]
    /\ rx = <<>>
    /\ neighbors = Peers
    /\ sessions = {} /\ gr_helper = {} /\ damped = {}
    /\ stale = Empty
    /\ adj = Empty /\ fed = Empty
    /\ held = [p \in Peers |-> Empty]
    /\ ids = Empty /\ next = 0
    /\ originated = [x \in DOMAIN NETWORKS |-> [tags |-> NETWORKS[x], configured |-> TRUE]]
    /\ roa = STATIC_ROAS
    /\ budget \in BUDGETS /\ haunted = {}

Central == OnEstablished \/ OnDown \/ OnRefresh \/ OnEndOfRib \/ OnUpdate

Others ==
    \/ \E p \in Peers : \/ SessionUp(p) \/ SessionLost(p) \/ SessionEnds(p)
                        \/ PeerSends(p) \/ PeerSendsEndOfRib(p) \/ PeerAsksRefresh(p)
                        \/ RestartTimer(p) \/ BfdDown(p) \/ ReconfigRemove(p) \/ ReconfigAdd(p)
    \/ ApplyRedistribution
    \/ RtrFeed

\* The head of the channel, if it is read, is an Established of a neighbour that is not
\* configured or an UPDATE of one whose session the task has let go.
Late(m) == \/ m.kind = "established" /\ m.peer \notin neighbors
           \/ m.kind = "update" /\ m.peer \notin sessions \cup damped

BgpNext ==
    \/ Others /\ UNCHANGED haunted
    \/ Central /\ haunted' = IF Late(Head(rx)) THEN haunted \cup {Head(rx).peer} ELSE haunted

BgpSpec == BgpInit /\ [][BgpNext]_bgpVars

-----------------------------------------------------------------------------
(* Properties                                                               *)

(* Types: neighbours the task talks to, helps or has shut are configured    *)
(* ones, or haunt it, and one whose limit was exceeded has no session.      *)
BgpTypeOK ==
    /\ sessions \cup gr_helper \cup DOMAIN stale \subseteq neighbors \cup haunted
    /\ damped \subseteq neighbors \ sessions
    /\ DOMAIN adj \subseteq Prefix \X Peers \X Nat
    /\ DOMAIN fed \subseteq Prefix
    /\ \A p \in Peers : up[p] \in {"down", "up", "cease", "bfd"}

(* Every route in the Adj-RIB-In has somebody who will take it back: its    *)
(* neighbour has a session, or is restarting with its timer running.  (What *)
(* Down, End-of-RIB, the Restart Timer and max-prefix leave behind, in      *)
(* whatever order their messages arrive; and a removal, unless a message of *)
(* the neighbour was read after it: such an UPDATE is installed for good.)  *)
RoutesOwned == \A k \in DOMAIN adj : k[2] \in sessions \cup DOMAIN stale \cup haunted

(* Once a session's messages are handled and its restart is over, the task, *)
(* unless it acted upon a message of the neighbour after its removal,       *)
(* holds exactly what import lets in of the neighbour's current routes,     *)
(* however many restarts, replacements and withdrawals came before.  A      *)
(* route that fails a loop or leak check, or that a changing ROA table      *)
(* judges, is left out.                                                     *)
AdjRibInCurrent ==
    \A p \in sessions \ (DOMAIN stale \cup haunted) :
        rx = <<>> /\ up[p] = "up" =>
        \A k \in UNION {q.keys : q \in OFFERS[p]} :
            LET mine == <<k[1], p, k[2]>> IN
            IF k \notin DOMAIN offered[p] THEN mine \notin DOMAIN adj
            ELSE LET a == offered[p][k].attrs
                     want == ImportPath(p, k[1], StampedPath(p, a))
                 IN \/ Looped(a) \/ Rejected(p, a)
                    \/ \E r \in STATIC_ROAS \cup UNION FEEDS : <<r.prefix, k[1]>> \in VRP_COVERS
                    \/ IF want = None THEN mine \notin DOMAIN adj
                       ELSE mine \in DOMAIN adj /\ adj[mine] = want

Foreign == Prefix \ (DOMAIN Advertised \cup {DEFAULT})

(* A peer whose session is up holds our best path for a prefix whenever the *)
(* export rules allow it that path, and nothing for a prefix without a path.*)
PeersFollowBest ==
    \A p \in {q \in sessions : ~PEER[q].add_path}, x \in Foreign :
        LET best == Selected(adj, x).path
            here == <<x, 0>> \in DOMAIN held[p]
        IN IF best = None THEN ~here
           ELSE LET r == PropagateRoute(x, best, p)
                IN r # None => here /\ held[p][<<x, 0>>] = r

(* The router was told of the selected path of every prefix, with its next  *)
(* hops, and of nothing else.                                               *)
RouterFollowsBest ==
    \A x \in Prefix :
        LET s == Selected(adj, x)
        IN IF s.path = None THEN x \notin DOMAIN fed ELSE x \in DOMAIN fed /\ fed[x] = s

(* An ADD-PATH session's peer holds every candidate path the rules allow    *)
(* it, under the identifier of the path's source, once that source has one. *)
AddPathFresh ==
    \A p \in {q \in sessions : PEER[q].add_path}, k \in DOMAIN adj :
        LET r == AddPathRoute(k[1], adj[k], p) IN
        FAMILY[k[1]] = "v4" /\ k[2] # p /\ r # None /\ <<k[2], k[3]>> \in DOMAIN ids
          => LET j == <<k[1], ids[<<k[2], k[3]>>]>>
             IN j \in DOMAIN held[p] /\ held[p][j] = r

(* The selected path does not depend on the order the candidates are kept   *)
(* in, although MED makes the comparison of two paths intransitive.         *)
SelectionOrderFree ==
    \A x \in {k[1] : k \in DOMAIN adj} :
        LET c == Candidates(adj, x)
        IN \A f \in Permutations(DOMAIN c) : SelectBest([i \in DOMAIN c |-> c[f[i]]]) = SelectBest(c)
=============================================================================
