------------------------------- MODULE PimTree -------------------------------
(* wren-pim's Tree Information Base and neighbour table.  An entry is      *)
(* keyed by <<source, group>>, with Star for the shared tree; rpf[target]  *)
(* is the interface the unicast routes use towards a source or the RP, or  *)
(* Local when the target is this router or has no route.  A received Join  *)
(* keeps the time left until its holdtime ends.                            *)
EXTENDS Integers, Sequences, SequencesExt, FiniteSets, TLC

CONSTANTS Star,           \* the wildcard source of a shared-tree entry
          RP,             \* the static rendezvous point
          Local,          \* "no RPF interface"
          JOIN_HOLDTIME,
          HELLO_HOLDTIME,
          INFINITE        \* the holdtime that never ends

Target(key) == IF key[1] = Star THEN RP ELSE key[1]

NewEntry(iif) ==
    [local |-> {}, joins |-> <<>>, iif |-> iif, joined |-> FALSE]

Oifs(e) == (e.local \cup DOMAIN e.joins) \ {e.iif}

(* Keeping an entry nobody wants any more.                                 *)
NeverEmpty(e) == FALSE

IsEmpty(e) == e.local = {} /\ DOMAIN e.joins = {}

Drop(f, keys) == [k \in DOMAIN f \ keys |-> f[k]]

EnsureEntry(tib, key, rpf) ==
    IF key \in DOMAIN tib THEN tib ELSE (key :> NewEntry(rpf[Target(key)])) @@ tib

JoinPrune(join, key, via) == <<[join |-> join, key |-> key, via |-> via]>>

(* Look the RPF interface up again, take it out of the outgoing ones, and  *)
(* join or prune upstream when the first outgoing interface appears or     *)
(* the last one goes.  With a local target nothing is held upstream.       *)
Reconcile(tib, key, rpf) ==
    IF key \notin DOMAIN tib THEN [tib |-> tib, actions |-> <<>>]
    ELSE LET iif == rpf[Target(key)]
             e == [tib[key] EXCEPT !.iif = iif, !.local = @ \ {iif},
                                   !.joins = Drop(@, {iif})]
             want == Oifs(e) # {}
         IN  [tib |-> IF IsEmpty(e) THEN Drop(tib, {key})
                      ELSE [tib EXCEPT ![key] = [e EXCEPT !.joined = want /\ iif # Local]],
              actions |-> IF iif # Local /\ want # e.joined
                          THEN JoinPrune(want, key, iif) ELSE <<>>]

OnMembership(tib, i, key, present, rpf) ==
    LET there == EnsureEntry(tib, key, rpf)
    IN  CASE present -> Reconcile([there EXCEPT ![key].local = @ \cup {i}], key, rpf)
          [] ~present /\ key \in DOMAIN tib ->
                 Reconcile([tib EXCEPT ![key].local = @ \ {i}], key, rpf)
          [] ~present /\ key \notin DOMAIN tib -> [tib |-> tib, actions |-> <<>>]

(* A Join on the incoming interface is not an outgoing one.                *)
OnReceivedJoin(tib, i, key, rpf) ==
    LET there == EnsureEntry(tib, key, rpf)
    IN  Reconcile(IF there[key].iif = i THEN there
                  ELSE [there EXCEPT ![key].joins = (i :> JOIN_HOLDTIME) @@ @],
                  key, rpf)

(* Taking the interface off without looking at what is left.               *)
OnReceivedPruneForgets(tib, i, key, rpf) ==
    [tib |-> IF key \in DOMAIN tib /\ DOMAIN tib[key].joins \ {i} # {}
             THEN [tib EXCEPT ![key].joins = Drop(@, {i})] ELSE Drop(tib, {key}),
     actions |-> <<>>]

OnReceivedPrune(tib, i, key, rpf) ==
    IF key \in DOMAIN tib
    THEN Reconcile([tib EXCEPT ![key].joins = Drop(@, {i})], key, rpf)
    ELSE [tib |-> tib, actions |-> <<>>]

Expired(e) == {i \in DOMAIN e.joins : e.joins[i] = 0}

(* Every entry is aged and reconciled, whether or not one of its Joins     *)
(* ran out.                                                                *)
ExpireJoins(tib, rpf) ==
    FoldSet(LAMBDA key, acc :
                LET aged == [acc.tib EXCEPT ![key].joins = Drop(@, Expired(acc.tib[key]))]
                    one  == Reconcile(aged, key, rpf)
                IN  [tib |-> one.tib, actions |-> acc.actions \o one.actions],
            [tib |-> tib, actions |-> <<>>], DOMAIN tib)

RefreshJoins(tib, rpf) ==
    FoldSet(LAMBDA key, as :
                IF Oifs(tib[key]) # {} /\ rpf[Target(key)] # Local
                THEN as \o JoinPrune(TRUE, key, rpf[Target(key)]) ELSE as,
            <<>>, DOMAIN tib)

(* The interfaces an (S,G) packet is copied to.                            *)
OifsFor(tib, s, g, arrived) ==
    UNION {Oifs(tib[k]) : k \in {<<s, g>>, <<Star, g>>} \cap DOMAIN tib} \ {arrived}

-----------------------------------------------------------------------------
(* The neighbours of one interface.                                        *)

OnHello(nbrs, src, hold, gen) ==
    IF hold = 0
    THEN [nbrs |-> Drop(nbrs, {src}),
          event |-> IF src \in DOMAIN nbrs THEN "down" ELSE "none"]
    ELSE [nbrs |-> (src :> [gen |-> gen, left |-> hold]) @@ nbrs,
          event |-> CASE src \notin DOMAIN nbrs -> "up"
                      [] src \in DOMAIN nbrs /\ nbrs[src].gen # gen -> "restarted"
                      [] OTHER -> "none"]

ExpireNeighbors(nbrs) == Drop(nbrs, {n \in DOMAIN nbrs : nbrs[n].left = 0})
=============================================================================
