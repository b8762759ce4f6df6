---------------------------- MODULE BgpDecision ----------------------------
(***************************************************************************)
(* The rules the BGP speaker applies to one path: the decision process of  *)
(* crates/wren-bgp/src/decision.rs and rib.rs, origin validation of        *)
(* rpki.rs, and from crates/wren-daemon/src/bgp.rs the loop checks, the    *)
(* RFC 8212 and RFC 9234 gates, the filters, and the attributes a path is  *)
(* built from and re-advertised with.                                      *)
(*                                                                         *)
(* AS numbers, router ids and addresses are numbers; an AS_PATH is the     *)
(* sequence of segments of the wire.  Every peer negotiated four-octet AS  *)
(* numbers, so AS4_PATH never occurs.                                      *)
(***************************************************************************)
EXTENDS Integers, Sequences, FiniteSets, SequencesExt, FiniteSetsExt

CONSTANTS
    PEER,           \* the configured neighbours: address -> record of its settings
    SELF,          \* this speaker: [as, confed, members, id, cluster, next_hop6]
    IMPORT, EXPORT, \* the route-maps of the neighbours that have one
    FAMILY,         \* "v4" or "v6", for every prefix
    COVERS,         \* <<a, b>>: prefix a holds the strictly more specific prefix b
    VRP_COVERS,     \* <<v, x>>: ROA prefix v is x or holds it
    MAX_PATHS,      \* the multipath limit
    None            \* absent: no attribute, no path, no setting

DEFAULT_LOCAL_PREF == 100

-----------------------------------------------------------------------------
(* Paths                                                                    *)

\* classify: same AS is iBGP, a configured member is confed-eBGP, the rest eBGP.
PeerType(p) ==
    CASE PEER[p].as = (IF PEER[p].local_as = None THEN SELF.as ELSE PEER[p].local_as) -> "ibgp"
      [] PEER[p].as \in SELF.members -> "confed"
      [] OTHER -> "ebgp"

\* The neighbour's own local-as, or the confederation's AS, or ours.
ExternalAs(p) == CASE PEER[p].local_as # None -> PEER[p].local_as
                   [] SELF.confed # None     -> SELF.confed
                   [] OTHER                   -> SELF.as

IsConfed(seg) == seg.kind \in {"confed_sequence", "confed_set"}

AsPathLen(path) ==
    FoldLeft(LAMBDA n, s : n + CASE s.kind = "sequence" -> Len(s.asns)
                                 [] s.kind = "set"      -> 1
                                 [] OTHER               -> 0,
             0, path.as_path)

\* The right-most AS; a set names its first member.
OriginAs(path) ==
    IF path.as_path = <<>> THEN path.peer_as
    ELSE LET s == Last(path.as_path)
         IN IF s.kind \in {"sequence", "confed_sequence"} THEN Last(s.asns) ELSE Head(s.asns)

\* The path an UPDATE's attributes make; LOCAL_PREF of a true eBGP peer is ignored.
BuildPath(p, attrs) ==
    [ origin        |-> attrs.origin,
      as_path       |-> attrs.as_path,
      next_hop      |-> attrs.next_hop,
      local_pref    |-> IF attrs.local_pref = None \/ PeerType(p) = "ebgp"
                        THEN DEFAULT_LOCAL_PREF ELSE attrs.local_pref,
      med           |-> IF attrs.med = None THEN 0 ELSE attrs.med,
      from_ebgp     |-> PeerType(p) = "ebgp",
      from_confed   |-> PeerType(p) = "confed",
      from_client   |-> PEER[p].client,
      peer_as       |-> PEER[p].as,
      peer_id       |-> PEER[p].id,
      peer_addr     |-> p,
      originator_id |-> attrs.originator_id,
      cluster_list  |-> attrs.cluster_list,
      communities   |-> attrs.communities,
      otc           |-> attrs.otc ]

-----------------------------------------------------------------------------
(* The decision process                                                     *)

OriginRank == [igp |-> 0, egp |-> 1, incomplete |-> 2]

\* The first comparison that tells the two sides apart is for the first.
FirstDecides(steps) ==
    \E i \in DOMAIN steps :
        /\ steps[i][1] < steps[i][2]
        /\ \A j \in 1..(i - 1) : steps[j][1] = steps[j][2]

\* is_better: lower first in every comparison.  The step on igp_metric is left out: the
\* daemon gives every candidate the metric 0.
IsBetter(a, b) ==
    LET Ident(x) == IF x.originator_id = None THEN x.peer_id ELSE x.originator_id
        Inner(x) == IF x.from_ebgp THEN 0 ELSE 1
    IN FirstDecides(<< <<b.local_pref, a.local_pref>>,
                       <<AsPathLen(a), AsPathLen(b)>>,
                       <<OriginRank[a.origin], OriginRank[b.origin]>>,
                       IF a.peer_as = b.peer_as THEN <<a.med, b.med>> ELSE <<0, 0>>,
                       <<Inner(a), Inner(b)>>,
                       <<Len(a.cluster_list), Len(b.cluster_list)>>,
                       <<Ident(a), Ident(b)>>,
                       <<a.peer_addr, b.peer_addr>> >>)

MultipathEligible(a, b) ==
    /\ a.local_pref = b.local_pref
    /\ a.as_path = b.as_path
    /\ a.origin = b.origin
    /\ a.med = b.med
    /\ a.from_ebgp = b.from_ebgp

\* The first of the best, in the order given.
Reduce(paths) == FoldLeft(LAMBDA b, p : IF IsBetter(p, b) THEN p ELSE b, Head(paths), Tail(paths))

\* A slip, for the mutants: one pass over all candidates.
SelectBestOnePass(paths) == IF paths = <<>> THEN None ELSE Reduce(paths)

\* select_best: within each neighbouring AS first, then across the winners.
SelectBest(paths) ==
    IF paths = <<>> THEN None
    ELSE LET ases == SetToSortSeq({paths[i].peer_as : i \in DOMAIN paths}, <)
         IN Reduce([k \in DOMAIN ases |->
                       Reduce(SelectSeq(paths, LAMBDA p : p.peer_as = ases[k]))])

\* The equal-cost next hops: the winner's, then the eligible ones, without
\* repetition, up to the limit.
Hops(best, paths) ==
    LET Add(hs, p) == IF /\ p # best /\ MultipathEligible(best, p)
                         /\ Len(hs) < MAX_PATHS /\ p.next_hop \notin ToSet(hs)
                      THEN Append(hs, p.next_hop) ELSE hs
    IN IF best = None THEN <<>> ELSE FoldLeft(Add, <<best.next_hop>>, paths)

-----------------------------------------------------------------------------
(* What is let in                                                           *)

IsAsPathLoop(attrs)     == \E s \in ToSet(attrs.as_path) : ~IsConfed(s) /\ SELF.as \in ToSet(s.asns)
IsConfedLoop(attrs)     == \E s \in ToSet(attrs.as_path) : IsConfed(s) /\ SELF.as \in ToSet(s.asns)
IsReflectionLoop(attrs) == \/ attrs.originator_id = SELF.id
                           \/ SELF.cluster \in ToSet(attrs.cluster_list)

Rfc8212Deny(p, policies) == PEER[p].require_policy /\ PeerType(p) = "ebgp" /\ p \notin DOMAIN policies

\* The peer's role towards us is the complement of ours towards it.
Complement == [provider |-> "customer", customer |-> "provider", rs |-> "rs_client",
               rs_client |-> "rs", peer |-> "peer", none |-> "none"]
RemoteRole(p) == Complement[PEER[p].role]

OtcReject(p, otc) == otc # None /\ \/ RemoteRole(p) \in {"customer", "rs_client"}
                                   \/ RemoteRole(p) = "peer" /\ otc # PEER[p].as
OtcStamp(p, otc) == IF otc = None /\ RemoteRole(p) \in {"provider", "peer", "rs"}
                    THEN PEER[p].as ELSE otc

\* Whether a ROA table (records [prefix, max, as]) finds the route invalid;
\* max is the set of prefixes short enough for it.
Validate(roas, x, as) ==
    LET covering == {r \in roas : <<r.prefix, x>> \in VRP_COVERS}
    IN CASE \E r \in covering : x \in r.max /\ r.as = as -> "valid"
         [] covering # {} -> "invalid"
         [] OTHER -> "notfound"

\* A route-map refuses some prefixes and sets LOCAL_PREF or communities on the rest.
FilterPath(filters, p, x, path) ==
    CASE p \notin DOMAIN filters -> path
      [] x \in filters[p].deny   -> None
      [] OTHER -> [path EXCEPT !.local_pref = IF filters[p].pref = None THEN @ ELSE filters[p].pref,
                               !.communities = @ \cup filters[p].tags]

-----------------------------------------------------------------------------
(* What is let out                                                          *)

ShouldAdvertise(communities, p) ==
    /\ "no_advertise" \notin communities
    /\ PeerType(p) \in {"confed", "ebgp"} => "no_export_subconfed" \notin communities
    /\ PeerType(p) = "ebgp" => "no_export" \notin communities

ShouldPropagate(path, p) ==
    /\ path.peer_addr # p
    /\ \/ path.from_ebgp \/ path.from_confed \/ path.from_client
       \/ PEER[p].client \/ PeerType(p) # "ibgp"
    /\ ShouldAdvertise(path.communities, p)

OtcEgressAdd(p)   == RemoteRole(p) \in {"customer", "peer", "rs_client"}
OtcEgressBlock(p) == RemoteRole(p) \in {"provider", "peer", "rs"}

PrependAs(kind, segs, as) ==
    IF segs # <<>> /\ Head(segs).kind = kind
    THEN <<[kind |-> kind, asns |-> <<as>> \o Head(segs).asns]>> \o Tail(segs)
    ELSE <<[kind |-> kind, asns |-> <<as>>]>> \o segs

\* propagated_base_attrs: a learned path as peer p is to see it.
PropagatedAttrs(path, p) ==
    LET reflected == PeerType(p) = "ibgp" /\ ~path.from_ebgp /\ ~path.from_confed
    IN [ origin        |-> path.origin,
         as_path       |-> CASE PeerType(p) = "ebgp" ->
                                  PrependAs("sequence", SelectSeq(path.as_path, LAMBDA s : ~IsConfed(s)),
                                          ExternalAs(p))
                             [] PeerType(p) = "confed" ->
                                  PrependAs("confed_sequence", path.as_path, SELF.as)
                             [] OTHER -> path.as_path,
         local_pref    |-> IF PeerType(p) = "ebgp" THEN None ELSE path.local_pref,
         med           |-> IF PeerType(p) = "ebgp" \/ path.med = 0 THEN None ELSE path.med,
         originator_id |-> IF ~reflected THEN None
                           ELSE IF path.originator_id = None THEN path.peer_id ELSE path.originator_id,
         cluster_list  |-> IF reflected THEN <<SELF.cluster>> \o path.cluster_list ELSE <<>>,
         communities   |-> path.communities,
         next_hop      |-> IF PeerType(p) = "ebgp" THEN "self" ELSE path.next_hop,
         otc           |-> None ]

\* The next hop must suit the family the route is carried in; a next hop is a
\* record with its own family, or this speaker's.
Carried(x, p, path) ==
    IF FAMILY[x] = "v4" THEN PeerType(p) = "ebgp" \/ path.next_hop.family = "v4"
    ELSE /\ PEER[p].ipv6
         /\ IF PeerType(p) = "ebgp" THEN SELF.next_hop6 ELSE path.next_hop.family = "v6"

\* Session::propagate_routes on one route: what p is sent, or None for a route
\* it skips.
PropagateRoute(x, best, p) ==
    LET path == FilterPath(EXPORT, p, x, best)
    IN IF \/ Rfc8212Deny(p, EXPORT)
          \/ ~ShouldPropagate(best, p)
          \/ OtcEgressBlock(p) /\ best.otc # None
          \/ path = None
          \/ path # None /\ ~Carried(x, p, path)
       THEN None
       ELSE [PropagatedAttrs(path, p) EXCEPT
                !.otc = IF path.otc = None /\ OtcEgressAdd(p) THEN ExternalAs(p) ELSE path.otc]

\* propagate_addpath and Session::advertise_add_path on one candidate path.
AddPathRoute(x, cand, p) ==
    LET path == FilterPath(EXPORT, p, x, cand)
    IN IF \/ Rfc8212Deny(p, EXPORT)
          \/ ~ShouldPropagate(cand, p)
          \/ path = None
          \/ path # None /\ ~Carried(x, p, path)
       THEN None
       ELSE PropagatedAttrs(path, p)

\* Session::advertise on one originated route (base_path_attrs).
OriginatedRoute(x, tags, p) ==
    LET denied == p \in DOMAIN EXPORT /\ x \in EXPORT[p].deny
        all    == IF p \in DOMAIN EXPORT THEN tags \cup EXPORT[p].tags ELSE tags
    IN IF \/ Rfc8212Deny(p, EXPORT)
          \/ denied
          \/ ~ShouldAdvertise(all, p)
          \/ FAMILY[x] = "v6" /\ ~(PEER[p].ipv6 /\ SELF.next_hop6)
       THEN None
       ELSE [ origin        |-> "igp",
              as_path       |-> CASE PeerType(p) = "ebgp" -> PrependAs("sequence", <<>>, ExternalAs(p))
                                  [] PeerType(p) = "confed" -> PrependAs("confed_sequence", <<>>, SELF.as)
                                  [] OTHER -> <<>>,
              local_pref    |-> IF PeerType(p) = "ebgp" THEN None ELSE DEFAULT_LOCAL_PREF,
              med           |-> None,
              originator_id |-> None,
              cluster_list  |-> <<>>,
              communities   |-> all,
              next_hop      |-> "self",
              otc           |-> IF OtcEgressAdd(p) THEN ExternalAs(p) ELSE None ]

\* effective_origination: aggregates appear with their first contributor, and
\* with summary-only stand in for them.
EffectiveOrigination(originated, aggregates) ==
    LET Contributors(a) == {x \in DOMAIN originated : <<a.prefix, x>> \in COVERS}
        active   == {a \in aggregates : Contributors(a) # {}}
        hidden   == UNION {Contributors(a) : a \in {b \in active : b.summary_only}}
        agg      == {a.prefix : a \in active}
    IN [x \in ((DOMAIN originated \ hidden) \cup agg) |->
           IF x \in agg THEN {} ELSE originated[x].tags]
=============================================================================
