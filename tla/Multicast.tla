------------------------------ MODULE Multicast ------------------------------
(* Multicast forwarding: the IGMP and MLD queriers (igmp.rs, mld.rs), the  *)
(* channel over which IGMP tells PIM of members, the PIM-SM runner         *)
(* (pim.rs) and the kernel forwarding cache it programs (mroute.rs).       *)
(*                                                                         *)
(* Lans are the interfaces hosts are on; Family says which querier serves  *)
(* one, Downstream which of them the proxy aggregates.  Routers upstream   *)
(* are reduced to what they hold for us: held is the set of <<key,         *)
(* interface>> for which a Join of ours is in force there, subscribed the  *)
(* groups the proxy has joined as a host.                                  *)
EXTENDS Membership, PimTree

CONSTANTS Lans, Family, Downstream,
          Uplinks,       \* PIM interfaces with an upstream router
          Sources,
          Groups,
          PimGroups,     \* the IPv4 groups routers and flows are about
          Reports(_),    \* the report messages hosts of a LAN may send
          Scenarios,     \* initial routes, contested LANs and input budgets
          FEED_QUEUE     \* room in the channel from IGMP to PIM

VARIABLES table, querier, adv, feed, proxy, subscribed,
          tib, rpf, nbrs, installed, mfc, held,
          other,         \* per LAN: the lower-addressed querier on it
          peerGen,       \* the upstream routers' generation
          up,            \* the runners have not been told to stop
          ghost,         \* what has happened that a promise excludes
          budget         \* how many inputs of each kind are left

igmpVars == <<table, querier, adv, proxy, subscribed>>
pimVars == <<tib, rpf, nbrs, installed, mfc, held>>
envVars == <<other, peerGen, up>>
vars == <<igmpVars, feed, pimVars, envVars, ghost, budget>>

Interfaces == Lans \cup Uplinks
Targets == Sources \cup {RP}
Keys == (Sources \cup {Star}) \X PimGroups

Spend(kind) == budget[kind] > 0 /\ budget' = [budget EXCEPT ![kind] = @ - 1]

(* History: the members of a LAN an update of which the channel dropped;   *)
(* the groups that had any-source members since they were joined; the      *)
(* groups of which a Join ran out without the kernel being reprogrammed;   *)
(* that a route moved; that upstream has lost a Join since the last        *)
(* refresh.                                                                *)
NothingYet == [lost |-> {}, any |-> {}, lax |-> {}, moved |-> FALSE, forgot |-> FALSE]

(* A LAN without another querier never hears a query.                      *)
OtherQuerier(contested) ==
    [l \in Lans |-> [due |-> IF l \in contested THEN QUERY_INTERVAL ELSE INFINITE,
                     missed |-> ROBUSTNESS]]

Init ==
    /\ table = [l \in Lans |-> <<>>]
    /\ querier = [l \in Lans |-> NewQuerier]
    /\ adv = [l \in Lans |-> [g \in Groups |-> {}]]
    /\ feed = <<>>
    /\ proxy = <<>>
    /\ subscribed = {}
    /\ tib = <<>>
    /\ nbrs = [u \in Uplinks |-> <<>>]
    /\ installed = <<>>
    /\ mfc = <<>>
    /\ held = {}
    /\ peerGen = [u \in Uplinks |-> 0]
    /\ ghost = NothingYet
    /\ up = TRUE
    /\ \E sc \in Scenarios : rpf = sc.rpf /\ budget = sc.budget
                           /\ other = OtherQuerier(sc.contested)

-----------------------------------------------------------------------------
(* igmp.rs and mld.rs: what follows a batch of membership events.          *)

Update(l, g, s, present) == <<[lan |-> l, group |-> g, source |-> s, present |-> present]>>

Updates(l, g, sources, present) ==
    FoldSet(LAMBDA s, us : us \o Update(l, g, s, present), <<>>, sources)

(* Forgetting to withdraw the sources as well: their trees outlive the     *)
(* last receiver.                                                          *)
FeedLeftShared(l, g, prev) == Update(l, g, Star, FALSE)

FeedLeft(l, g, prev) == Updates(l, g, prev, FALSE) \o Update(l, g, Star, FALSE)

CurrentSources(t, g) ==
    IF HasGroup(t, g) /\ t[g].mode = "include" THEN t[g].sources ELSE {}

(* Not announcing the sources that are new.                                *)
FeedChangedShrinks(l, g, current, prev) ==
    IF current = {} THEN Updates(l, g, prev, FALSE) \o Update(l, g, Star, TRUE)
    ELSE Updates(l, g, prev \ current, FALSE)

FeedChanged(l, g, current, prev) ==
    IF current = {} THEN Updates(l, g, prev, FALSE) \o Update(l, g, Star, TRUE)
    ELSE Updates(l, g, current \ prev, TRUE) \o Updates(l, g, prev \ current, FALSE)

(* The messages a batch of events puts on the channel and the sources      *)
(* remembered as announced.  The table is the one after the whole batch.   *)
FeedOf(l, events, t) ==
    FoldLeft(LAMBDA acc, ev :
                 LET g == ev.group
                     prev == acc.adv[g]
                     now == CurrentSources(t, g)
                 IN  CASE ev.kind \in {"joined", "updated"} ->
                            [adv |-> [acc.adv EXCEPT ![g] = now],
                             out |-> acc.out \o FeedChanged(l, g, now, prev)]
                       [] ev.kind = "left" ->
                            [adv |-> [acc.adv EXCEPT ![g] = {}],
                             out |-> acc.out \o FeedLeft(l, g, prev)]
                       [] ev.kind = "querying" -> acc,
             [adv |-> adv[l], out |-> <<>>], events)

(* try_send: what does not fit is dropped, each message on its own.        *)
TrySend(queue, msgs) ==
    LET room == FEED_QUEUE - Len(queue)
    IN  queue \o SubSeq(msgs, 1, IF Len(msgs) < room THEN Len(msgs) ELSE room)

(* A group whose last source was blocked counts: a batch that joins a      *)
(* source and blocks it is fed to PIM as an any-source member.             *)
AnySource(l, t) ==
    {x \in ghost.any \cup {<<l, g>> : g \in {h \in DOMAIN t :
                                t[h].mode = "exclude" \/ t[h].sources = {}}} :
        x[1] = l => HasGroup(t, x[2])}

(* The members whose updates do not fit.                                   *)
Dropped(queue, msgs) ==
    {<<msgs[i].lan, msgs[i].group>> : i \in {j \in DOMAIN msgs : j > FEED_QUEUE - Len(queue)}}

(* The proxy is brought in line with the table of a downstream LAN; the    *)
(* reports upstream are sent as a host would.                              *)
SyncProxy(l, t, p) ==
    IF l \in Downstream
    THEN SyncDownstream(p.proxy, l, ActiveGroups(t))
    ELSE [proxy |-> p.proxy, join |-> {}, leave |-> {}]

(* IGMP: feed PIM, then the proxy.  A batch without events does neither.   *)
HandleEvents(l, r) ==
    LET f == FeedOf(l, r.events, r.table)
        s == SyncProxy(l, r.table, [proxy |-> proxy])
    IN  /\ table' = [table EXCEPT ![l] = r.table]
        /\ IF r.events = <<>> THEN UNCHANGED <<adv, feed, ghost, proxy, subscribed>>
           ELSE /\ adv' = [adv EXCEPT ![l] = f.adv]
                /\ feed' = TrySend(feed, f.out)
                /\ ghost' = [ghost EXCEPT !.lost = @ \cup Dropped(feed, f.out),
                                          !.any = AnySource(l, r.table)]
                /\ proxy' = s.proxy
                /\ subscribed' = (subscribed \cup s.join) \ s.leave

(* MLD: the same without the feed; PIM serves IPv4 only.                   *)
MldHandleEvents(l, r) ==
    LET s == SyncProxy(l, r.table, [proxy |-> proxy])
    IN  /\ table' = [table EXCEPT ![l] = r.table]
        /\ UNCHANGED <<adv, feed, ghost>>
        /\ IF r.events = <<>> THEN UNCHANGED <<proxy, subscribed>>
           ELSE proxy' = s.proxy /\ subscribed' = (subscribed \cup s.join) \ s.leave

-----------------------------------------------------------------------------
(* The select loop of the IGMP runner.                                     *)

ReceiveReport(l) ==
    /\ Family[l] = 4
    /\ Spend("report")
    /\ \E msg \in Reports(l) : HandleEvents(l, Apply(table[l], msg))
    /\ UNCHANGED <<querier, pimVars, envVars>>

IgmpHousekeep(l) ==
    /\ Family[l] = 4
    /\ querier' = [querier EXCEPT ![l] = QuerierTick(@)]
    /\ HandleEvents(l, Expire(table[l]))
    /\ UNCHANGED <<pimVars, envVars, budget>>

(* The one of the MLD runner.                                              *)
MldReceiveReport(l) ==
    /\ Family[l] = 6
    /\ Spend("mld")
    /\ \E msg \in Reports(l) : MldHandleEvents(l, ApplyMld(table[l], msg))
    /\ UNCHANGED <<querier, pimVars, envVars>>

MldHousekeep(l) ==
    /\ Family[l] = 6
    /\ querier' = [querier EXCEPT ![l] = QuerierTick(@)]
    /\ MldHandleEvents(l, Expire(table[l]))
    /\ UNCHANGED <<pimVars, envVars, budget>>

(* The lower-addressed querier of a LAN sends its General Query when it is *)
(* due; the network may lose it.                                           *)
ReceiveQuery(l) ==
    /\ other[l].due = 0
    /\ querier' = [querier EXCEPT ![l] = OnQuery(@, TRUE)]
    /\ other' = [other EXCEPT ![l] = [due |-> QUERY_INTERVAL, missed |-> 0]]
    /\ UNCHANGED <<table, adv, proxy, subscribed, feed, pimVars, peerGen, up, ghost, budget>>

LoseQuery(l) ==
    /\ other[l].due = 0
    /\ Spend("query")
    /\ other' = [other EXCEPT ![l] = [due |-> QUERY_INTERVAL,
                                      missed |-> IF @.missed < ROBUSTNESS
                                                 THEN @.missed + 1 ELSE @.missed]]
    /\ UNCHANGED <<igmpVars, feed, pimVars, peerGen, up, ghost>>

(* A query of a higher-addressed router changes nothing.                   *)
ReceiveHigherQuery(l) ==
    /\ Spend("query")
    /\ querier' = [querier EXCEPT ![l] = OnQuery(@, FALSE)]
    /\ UNCHANGED <<table, adv, proxy, subscribed, feed, pimVars, envVars, ghost>>

-----------------------------------------------------------------------------
(* pim.rs: programming the kernel.                                         *)

(* Withdraw the kernel entry of a flow nobody wants, or install it with    *)
(* the outgoing interfaces of the tree as it is now.                       *)
ReprogramSg(inst, cache, t, s, g) ==
    LET iif == inst[<<s, g>>]
        oifs == OifsFor(t, s, g, iif)
    IN  IF oifs = {}
        THEN [inst |-> Drop(inst, {<<s, g>>}), mfc |-> Drop(cache, {<<s, g>>})]
        ELSE [inst |-> inst, mfc |-> (<<s, g>> :> [iif |-> iif, oifs |-> oifs]) @@ cache]

ReprogramGroups(t, gs) ==
    FoldSet(LAMBDA sg, acc : ReprogramSg(acc.inst, acc.mfc, t, sg[1], sg[2]),
            [inst |-> installed, mfc |-> mfc],
            {sg \in DOMAIN installed : sg[2] \in gs})

(* Joins and Prunes as the upstream router takes them.                     *)
SendJoinPrune(actions, h) ==
    FoldLeft(LAMBDA acc, a : IF a.join THEN acc \cup {<<a.key, a.via>>}
                                       ELSE acc \ {<<a.key, a.via>>},
             h, actions)

(* What every change of the tree ends with.                                *)
Changed(r, gs) ==
    LET k == ReprogramGroups(r.tib, gs)
    IN  /\ tib' = r.tib
        /\ installed' = k.inst
        /\ mfc' = k.mfc
        /\ held' = SendJoinPrune(r.actions, held)
        /\ ghost' = [ghost EXCEPT !.lax =
              (@ \cup {x[2] : x \in {y \in DOMAIN tib : y \notin DOMAIN r.tib \/ r.tib[y] # tib[y]}})
              \ gs]

-----------------------------------------------------------------------------
(* The select loop of the PIM runner.                                      *)

(* Reprogramming only when a Join or Prune goes out, as housekeeping does. *)
PimMembershipLazy ==
    /\ feed # <<>>
    /\ LET m == Head(feed)
           r == OnMembership(tib, m.lan, <<m.source, m.group>>, m.present, rpf)
       IN  Changed(r, IF r.actions = <<>> THEN {} ELSE {m.group})
    /\ feed' = Tail(feed)
    /\ UNCHANGED <<igmpVars, rpf, nbrs, envVars, budget>>

PimMembership ==
    /\ feed # <<>>
    /\ LET m == Head(feed)
           r == OnMembership(tib, m.lan, <<m.source, m.group>>, m.present, rpf)
       IN  Changed(r, {m.group})
    /\ feed' = Tail(feed)
    /\ UNCHANGED <<igmpVars, rpf, nbrs, envVars, budget>>

(* A Join/Prune that names this router as the upstream neighbour.          *)
PimReceiveJoin(i, key) ==
    /\ Spend("join")
    /\ Changed(OnReceivedJoin(tib, i, key, rpf), {key[2]})
    /\ UNCHANGED <<igmpVars, feed, rpf, nbrs, envVars>>

PimReceivePrune(i, key) ==
    /\ Spend("join")
    /\ Changed(OnReceivedPrune(tib, i, key, rpf), {key[2]})
    /\ UNCHANGED <<igmpVars, feed, rpf, nbrs, envVars>>

(* Only the groups for which a Join or Prune goes out are reprogrammed.    *)
PimHousekeep ==
    LET r == ExpireJoins(tib, rpf)
    IN  /\ nbrs' = [u \in Uplinks |-> ExpireNeighbors(nbrs[u])]
        /\ Changed(r, {r.actions[n].key[2] : n \in DOMAIN r.actions})
        /\ UNCHANGED <<igmpVars, feed, rpf, envVars, budget>>

PimRefresh ==
    /\ held' = SendJoinPrune(RefreshJoins(tib, rpf), held)
    /\ ghost' = [ghost EXCEPT !.forgot = FALSE]
    /\ UNCHANGED <<igmpVars, feed, tib, rpf, nbrs, installed, mfc, envVars, budget>>

(* A Hello is noted; a restarted neighbour is logged and sent nothing.     *)
PimHello(u, hold) ==
    /\ Spend("hello")
    /\ nbrs' = [nbrs EXCEPT ![u] = OnHello(@, "peer", hold, peerGen[u]).nbrs]
    /\ UNCHANGED <<igmpVars, feed, tib, rpf, installed, mfc, held, envVars, ghost>>

(* The kernel's upcall for a flow without an entry.  The RPF interface is  *)
(* the incoming one; the interface the packet came in on stands in for it  *)
(* when there is none.                                                     *)
NoCache(s, g, arrived) ==
    /\ <<s, g>> \notin DOMAIN mfc
    /\ Spend("flow")
    /\ LET iif == IF rpf[s] = Local THEN arrived ELSE rpf[s]
           k == ReprogramSg((<<s, g>> :> iif) @@ installed, mfc, tib, s, g)
       IN  installed' = k.inst /\ mfc' = k.mfc
    /\ UNCHANGED <<igmpVars, feed, tib, rpf, nbrs, held, envVars, ghost>>

-----------------------------------------------------------------------------
(* The world around the router.                                            *)

Less(n) == IF n = 0 \/ n = INFINITE THEN n ELSE n - 1

Tick ==
    /\ \A l \in Lans : other[l].due > 0
    /\ Spend("tick")
    /\ table' = [l \in Lans |-> [g \in DOMAIN table[l] |->
                                    [table[l][g] EXCEPT !.left = Less(@)]]]
    /\ querier' = [l \in Lans |-> [querier[l] EXCEPT !.left = Less(@)]]
    /\ tib' = [k \in DOMAIN tib |-> [tib[k] EXCEPT !.joins =
                                        [i \in DOMAIN @ |-> Less(@[i])]]]
    /\ nbrs' = [u \in Uplinks |-> [n \in DOMAIN nbrs[u] |->
                                     [nbrs[u][n] EXCEPT !.left = Less(@)]]]
    /\ other' = [l \in Lans |-> [other[l] EXCEPT !.due = Less(@)]]
    /\ UNCHANGED <<adv, proxy, subscribed, feed, rpf, installed, mfc, held, peerGen, up, ghost>>

(* The unicast route to a target changes; PIM is not told.                 *)
RouteMoves(t, i) ==
    /\ Spend("move")
    /\ rpf[t] # i
    /\ rpf' = [rpf EXCEPT ![t] = i]
    /\ ghost' = [ghost EXCEPT !.moved = TRUE]
    /\ UNCHANGED <<igmpVars, feed, tib, nbrs, installed, mfc, held, envVars>>

(* An upstream router restarts and has forgotten our Joins.                *)
PeerRestarts(u) ==
    /\ peerGen[u] = 0
    /\ Spend("hello")
    /\ peerGen' = [peerGen EXCEPT ![u] = 1]
    /\ held' = {h \in held : h[2] # u}
    /\ ghost' = [ghost EXCEPT !.forgot = TRUE]
    /\ UNCHANGED <<igmpVars, feed, tib, rpf, nbrs, installed, mfc, other, up>>

(* A Join of ours does not arrive, or runs out upstream.                   *)
JoinLost(h) ==
    /\ Spend("hello")
    /\ held' = held \ {h}
    /\ ghost' = [ghost EXCEPT !.forgot = TRUE]
    /\ UNCHANGED <<igmpVars, feed, tib, rpf, nbrs, installed, mfc, envVars>>

(* Both runners are told to stop: the proxy leaves its groups upstream,    *)
(* and closing the routing socket clears the kernel's cache.               *)
Shutdown ==
    /\ up' = FALSE
    /\ subscribed' = subscribed \ JoinedGroups(proxy)
    /\ mfc' = <<>>
    /\ UNCHANGED <<table, querier, adv, proxy, feed, tib, rpf, nbrs, installed, held,
                   other, peerGen, ghost, budget>>

Next ==
    /\ up
    /\ \/ \E l \in Lans :
             \/ ReceiveReport(l) \/ IgmpHousekeep(l)
             \/ MldReceiveReport(l) \/ MldHousekeep(l)
             \/ ReceiveQuery(l) \/ LoseQuery(l) \/ ReceiveHigherQuery(l)
       \/ PimMembership \/ PimHousekeep \/ PimRefresh
       \/ \E i \in Interfaces, k \in Keys : PimReceiveJoin(i, k) \/ PimReceivePrune(i, k)
       \/ \E u \in Uplinks : PeerRestarts(u) \/ \E h \in {0, HELLO_HOLDTIME, INFINITE} :
                                                   PimHello(u, h)
       \/ \E h \in held : JoinLost(h)
       \/ \E s \in Sources, g \in PimGroups, i \in Interfaces : NoCache(s, g, i)
       \/ \E t \in Targets, i \in Uplinks \cup {Local} : RouteMoves(t, i)
       \/ Tick
       \/ Shutdown

Spec == Init /\ [][Next]_vars

-----------------------------------------------------------------------------
(* The shapes of the tables.  A tree entry exists only while something     *)
(* wants it and never copies a packet to the interface it comes from.      *)
McTypeOK ==
    /\ \A l \in Lans : \A g \in DOMAIN table[l] :
          /\ g \in Groups \ ControlGroups
          /\ table[l][g].left \in 0 .. GroupMembershipInterval
    /\ Len(feed) <= FEED_QUEUE
    /\ DOMAIN tib \subseteq Keys
    /\ \A k \in DOMAIN tib :
          /\ tib[k].local \cup DOMAIN tib[k].joins \in SUBSET Interfaces \ {{}}
          /\ tib[k].iif \notin tib[k].local \cup DOMAIN tib[k].joins
    /\ up => DOMAIN mfc = DOMAIN installed

(* Once PIM has read the channel, every member IGMP knows of is served: a  *)
(* source-specific member by the tree of each source it asks for, any      *)
(* other by the shared tree.  Excluded are the members of which the full   *)
(* channel dropped an update, and routes that moved through their LAN.     *)
MembersServed ==
    (feed = <<>> /\ ~ghost.moved) =>
        \A l \in Lans : \A g \in DOMAIN table[l] :
            LET m == table[l][g]
                keys == CASE m.mode = "exclude" -> {<<Star, g>>}
                          [] m.mode = "include" -> m.sources \X {g}
            IN  Family[l] = 4 /\ <<l, g>> \notin ghost.lost =>
                   \A k \in keys : k \in DOMAIN tib /\ l \in tib[k].local

(* And nobody else: a source tree keeps a LAN only while a member there    *)
(* asks for that source (when the last one was blocked, while the query    *)
(* for the last member runs), the shared tree only while the group has a   *)
(* member there that asks for any source or, once, has done so: the change *)
(* to chosen sources does not take the LAN off the shared tree.            *)
NoLeakedTree ==
    feed = <<>> =>
        \A k \in DOMAIN tib : \A l \in tib[k].local :
            <<l, k[2]>> \notin ghost.lost =>
               /\ HasGroup(table[l], k[2])
               /\ IF k[1] = Star THEN <<l, k[2]>> \in ghost.any
                  ELSE LET m == table[l][k[2]]
                       IN  m.mode = "include" /\ (k[1] \in m.sources \/ m.sources = {})

(* The kernel copies a flow to every interface the trees want it on, and   *)
(* to no other but those of which a Join ran out since the group was last  *)
(* reprogrammed: housekeeping looks only at groups with a Join or Prune to *)
(* send.                                                                   *)
KernelForwards ==
    up => \A sg \in DOMAIN mfc :
             LET want == OifsFor(tib, sg[1], sg[2], mfc[sg].iif)
             IN  /\ want \subseteq mfc[sg].oifs
                 /\ sg[2] \notin ghost.lax => want = mfc[sg].oifs

(* As long as routes stay, upstream routers hold a Join from us for no     *)
(* tree that goes nowhere, and, after a restart there or a Join lost, from *)
(* the next refresh on again for every tree that goes anywhere.  (A        *)
(* neighbour's restart itself is only logged.)                             *)
UpstreamTold ==
    ~ghost.moved =>
        LET want == {<<k, tib[k].iif>> : k \in {x \in DOMAIN tib :
                                                  Oifs(tib[x]) # {} /\ tib[x].iif # Local}}
        IN  held \subseteq want /\ (~ghost.forgot => held = want)

(* The proxy is a member upstream of exactly the groups some downstream    *)
(* LAN has a member of, and of none once it has stopped.                   *)
ProxyAggregates ==
    subscribed = IF up THEN UNION {ActiveGroups(table[l]) : l \in Downstream} ELSE {}

(* Next to a lower-addressed querier, this router asks only before it has  *)
(* heard of it or after as many lost queries in a row as the robustness    *)
(* variable allows.                                                        *)
OneQuerier == \A l \in Lans : querier[l].is => other[l].missed >= ROBUSTNESS
=============================================================================
