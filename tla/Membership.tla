----------------------------- MODULE Membership -----------------------------
(* What wren-igmp keeps for one interface: the group table that IGMP and   *)
(* MLD reports drive, the querier election, and the RFC 4605 proxy that    *)
(* aggregates several such tables.  Every operator is a function of the    *)
(* old value; a deadline is the time left until it, so that no clock is    *)
(* needed.                                                                 *)
EXTENDS Integers, FiniteSets, Sequences, SequencesExt, TLC

CONSTANTS ROBUSTNESS,            \* QRV, and the last-member query count
          QUERY_INTERVAL,
          RESPONSE_INTERVAL,
          LAST_MEMBER_INTERVAL,  \* between two group-specific queries
          ControlGroups          \* link-scoped groups, never tracked

GroupMembershipInterval == QUERY_INTERVAL * ROBUSTNESS + RESPONSE_INTERVAL

(* Forgetting the robustness variable: one lost query is enough.           *)
OtherQuerierPresentOnce == QUERY_INTERVAL + (RESPONSE_INTERVAL \div 2)

OtherQuerierPresentInterval ==
    QUERY_INTERVAL * ROBUSTNESS + (RESPONSE_INTERVAL \div 2)

LastMemberInterval == LAST_MEMBER_INTERVAL * ROBUSTNESS

-----------------------------------------------------------------------------
(* The table: a partial function from groups to memberships.               *)

Membership(mode, sources) ==
    [mode |-> mode, sources |-> sources, left |-> GroupMembershipInterval]

HasGroup(t, g) == g \in DOMAIN t

ActiveGroups(t) == DOMAIN t

Without(f, k) == [x \in DOMAIN f \ {k} |-> f[x]]

Event(kind, g) == <<[kind |-> kind, group |-> g]>>

(* A leave drops nothing at once: it shortens the timer and asks the       *)
(* runner for group-specific queries.                                      *)
LeaveGroup(t, g) ==
    IF HasGroup(t, g)
    THEN [table |-> [t EXCEPT ![g].left = IF @ > LastMemberInterval
                                          THEN LastMemberInterval ELSE @],
          events |-> Event("querying", g)]
    ELSE [table |-> t, events |-> <<>>]

Expire(t) ==
    LET gone == {g \in DOMAIN t : t[g].left = 0}
    IN  [table |-> [g \in DOMAIN t \ gone |-> t[g]],
         events |-> FoldSet(LAMBDA g, es : es \o Event("left", g), <<>>, gone)]

Stored(t, g, m) ==
    [table |-> (g :> m) @@ t,
     events |-> Event(IF HasGroup(t, g) THEN "updated" ELSE "joined", g)]

Refreshed(t, g, sources) ==
    Stored(t, g, [t[g] EXCEPT !.sources = sources, !.left = GroupMembershipInterval])

AllowNew(t, g, sources) ==
    IF HasGroup(t, g)
    THEN Refreshed(t, g, IF t[g].mode = "include" THEN t[g].sources \cup sources
                                                  ELSE t[g].sources)
    ELSE Stored(t, g, Membership("include", sources))

BlockOld(t, g, sources) ==
    CASE ~HasGroup(t, g) -> [table |-> t, events |-> <<>>]
      [] HasGroup(t, g) /\ t[g].mode = "exclude" ->
             Refreshed(t, g, t[g].sources \cup sources)
      [] HasGroup(t, g) /\ t[g].mode = "include" ->
             LET rest == t[g].sources \ sources
             IN  IF rest = {} THEN LeaveGroup([t EXCEPT ![g].sources = {}], g)
                              ELSE Refreshed(t, g, rest)

ApplyRecord(t, g, rtype, sources) ==
    CASE g \in ControlGroups \/ rtype = "unknown" -> [table |-> t, events |-> <<>>]
      [] g \notin ControlGroups /\ rtype = "exclude" ->      \* IS_EX, TO_EX
             Stored(t, g, Membership("exclude", sources))
      [] g \notin ControlGroups /\ rtype = "include" ->      \* IS_IN, TO_IN
             IF sources = {} THEN LeaveGroup(t, g)
                             ELSE Stored(t, g, Membership("include", sources))
      [] g \notin ControlGroups /\ rtype = "allow" -> AllowNew(t, g, sources)
      [] g \notin ControlGroups /\ rtype = "block" -> BlockOld(t, g, sources)

JoinAnySource(t, g) == ApplyRecord(t, g, "exclude", {})

(* A report's records take effect one after another.                       *)
ApplyRecords(t, records) ==
    FoldLeft(LAMBDA acc, r :
                 LET one == ApplyRecord(acc.table, r.group, r.rtype, r.sources)
                 IN  [table |-> one.table, events |-> acc.events \o one.events],
             [table |-> t, events |-> <<>>], records)

(* IGMP: a v3 report, a v1 or v2 report, a v2 leave.                       *)
Apply(t, msg) ==
    CASE msg.kind = "v3report" -> ApplyRecords(t, msg.records)
      [] msg.kind = "v2report" -> JoinAnySource(t, msg.group)
      [] msg.kind = "leave"    -> LeaveGroup(t, msg.group)

(* MLD: a v2 report, a v1 report, a v1 done.                               *)
ApplyMld(t, msg) ==
    CASE msg.kind = "v2mldreport" -> ApplyRecords(t, msg.records)
      [] msg.kind = "v1mldreport" -> JoinAnySource(t, msg.group)
      [] msg.kind = "done"        -> LeaveGroup(t, msg.group)

-----------------------------------------------------------------------------
(* Querier election on one interface.                                      *)

NewQuerier == [is |-> TRUE, left |-> 0]

OnQuery(q, lower) ==
    IF lower THEN [is |-> FALSE, left |-> OtherQuerierPresentInterval] ELSE q

QuerierTick(q) == IF ~q.is /\ q.left = 0 THEN NewQuerier ELSE q

-----------------------------------------------------------------------------
(* The proxy: per group, the downstream interfaces that want it.           *)

WantedBy(p, l) == {g \in DOMAIN p : l \in p[g]}

(* Leaving upstream as soon as one interface loses its member.             *)
SyncDownstreamEager(p, l, wanted) ==
    LET gone == WantedBy(p, l) \ wanted
    IN  [proxy |-> [g \in (DOMAIN p \cup wanted) \ gone |->
                       (IF g \in DOMAIN p THEN p[g] ELSE {})
                           \cup (IF g \in wanted THEN {l} ELSE {})],
         join  |-> wanted \ DOMAIN p,
         leave |-> gone]

SyncDownstream(p, l, wanted) ==
    LET gone == {g \in WantedBy(p, l) \ wanted : p[g] = {l}}
    IN  [proxy |-> [g \in (DOMAIN p \cup wanted) \ gone |->
                       ((IF g \in DOMAIN p THEN p[g] ELSE {}) \ {l})
                           \cup (IF g \in wanted THEN {l} ELSE {})],
         join  |-> wanted \ DOMAIN p,
         leave |-> gone]

JoinedGroups(p) == DOMAIN p
=============================================================================
