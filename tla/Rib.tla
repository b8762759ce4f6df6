-------------------------------- MODULE Rib --------------------------------
(***************************************************************************)
(* The routing information base of wren-core: per (table, prefix) the list *)
(* of candidate routes in insertion order, best-path selection over it,    *)
(* and the forwarding-plane change that an announcement or a withdrawal    *)
(* implies.  A RIB is a function from keys to candidate lists; a key with  *)
(* no entry in the code's map is a key with the empty list here, because   *)
(* the code never keeps an entry without candidates.                       *)
(***************************************************************************)
EXTENDS Naturals, Sequences

CONSTANTS
    Tables,      \* kernel routing tables, one per VRF
    Prefixes,    \* destination prefixes
    Routes,      \* every route an engine, the configuration or a filter produces
    MaxU32,      \* the largest u32: tables, preferences and metrics are u32
    NoRoute      \* "no best path" (Option::None)

\* The origin protocols with their default preference; a filter or a static
\* route's distance may give a route another preference.
default_preference ==
    [connected |-> 240, static |-> 200, ospf |-> 150, isis |-> 145,
     rip |-> 120, babel |-> 115, bgp |-> 100, kernel |-> 10]

Protocols == DOMAIN default_preference

\* A route; `nh` stands for the next hops and the other attributes that take
\* no part in best-path selection but do make two routes differ.
RouteShape == [table: Tables, prefix: Prefixes, protocol: Protocols,
               source: Nat, preference: 0 .. MaxU32, metric: 0 .. MaxU32, nh: Nat]

ASSUME MaxU32Assumption == MaxU32 \in Nat
ASSUME TablesAssumption == Tables \subseteq 0 .. MaxU32
ASSUME RoutesAssumption == Routes \subseteq RouteShape
ASSUME NoRouteAssumption == NoRoute \notin Routes

Keys == Tables \X Prefixes

KeyOf(r) == <<r.table, r.prefix>>

\* Route::key: the identity a protocol replaces or withdraws its route by.
Owner(r) == <<r.protocol, r.source>>

RoutesAt(k) == {r \in Routes : KeyOf(r) = k}

----------------------------------------------------------------------------
(* Best-path selection *)

\* Route::is_better_than.
IsBetterThan(r, s) ==
    \/ r.preference > s.preference
    \/ r.preference = s.preference /\ r.metric < s.metric

\* What RibEntry::best promises: a candidate nobody strictly beats, and the
\* earliest such one, so that equals keep their insertion order.
IsBestIndex(cands, i) ==
    /\ i \in DOMAIN cands
    /\ \A j \in DOMAIN cands : ~IsBetterThan(cands[j], cands[i])
    /\ \A j \in DOMAIN cands : j < i => IsBetterThan(cands[i], cands[j])

Best(cands) ==
    IF cands = <<>> THEN NoRoute
    ELSE cands[CHOOSE i \in DOMAIN cands : IsBestIndex(cands, i)]

\* Mutant: the scan takes the later of two equals.
BestByScanLatest(cands) ==
    LET walk[n \in 0 .. Len(cands)] ==
            IF n = 0 THEN NoRoute
            ELSE IF walk[n-1] = NoRoute \/ ~IsBetterThan(walk[n-1], cands[n])
                 THEN cands[n]
                 ELSE walk[n-1]
    IN  walk[Len(cands)]

\* RibEntry::best as the code's loop computes it, kept for comparison with Best:
\* walk[n] is `best` after the first n candidates.
BestByScan(cands) ==
    LET walk[n \in 0 .. Len(cands)] ==
            IF n = 0 THEN NoRoute
            ELSE IF walk[n-1] = NoRoute \/ IsBetterThan(cands[n], walk[n-1])
                 THEN cands[n]
                 ELSE walk[n-1]
    IN  walk[Len(cands)]

----------------------------------------------------------------------------
(* Mutation *)

\* Rib::update on one entry: replace the slot with the same owner, or append.
\* (The code replaces the first such slot; owners are unique, see OwnersUnique.)
Announced(cands, r) ==
    IF \E i \in DOMAIN cands : Owner(cands[i]) = Owner(r)
    THEN [i \in DOMAIN cands |-> IF Owner(cands[i]) = Owner(r) THEN r ELSE cands[i]]
    ELSE Append(cands, r)

\* Mutant: the vacated slot is filled with the last candidate (swap_remove).
WithdrawnSwap(cands, owner) ==
    IF \E i \in DOMAIN cands : Owner(cands[i]) = owner
    THEN LET gone == CHOOSE i \in DOMAIN cands : Owner(cands[i]) = owner
         IN  [i \in 1 .. Len(cands) - 1 |-> IF i = gone THEN cands[Len(cands)] ELSE cands[i]]
    ELSE cands

\* Rib::withdraw on one entry: drop the candidate of that owner, keep the order
\* of the others.
Withdrawn(cands, owner) ==
    IF \E i \in DOMAIN cands : Owner(cands[i]) = owner
    THEN LET gone == CHOOSE i \in DOMAIN cands : Owner(cands[i]) = owner
         IN  [i \in 1 .. Len(cands) - 1 |-> IF i < gone THEN cands[i] ELSE cands[i + 1]]
    ELSE cands

\* FibChange, with `none` for "the installed best route did not change".
NoChange   == [op |-> "none"]
Install(r) == [op |-> "install", route |-> r]
Remove     == [op |-> "remove"]
Changes    == {NoChange, Remove} \cup {Install(r) : r \in Routes}

\* Mutant: an announcement that keeps owner, preference and metric is taken for
\* "unchanged", so a new next hop never reaches the forwarding plane.
DiffByRank(before, after) ==
    IF after = NoRoute THEN IF before = NoRoute THEN NoChange ELSE Remove
    ELSE IF /\ before # NoRoute /\ Owner(before) = Owner(after)
            /\ before.preference = after.preference /\ before.metric = after.metric
         THEN NoChange
    ELSE Install(after)

\* Rib::diff.
Diff(before, after) ==
    IF after = before THEN NoChange
    ELSE IF after = NoRoute THEN Remove
    ELSE Install(after)

\* The change that brings the forwarding plane to the best path `best`
\* whatever it holds (retry_failed derives it from the RIB).
Desired(best) == IF best = NoRoute THEN Remove ELSE Install(best)

\* No two candidates of an entry have one owner.
OwnersUniqueIn(cands) ==
    \A i, j \in DOMAIN cands : Owner(cands[i]) = Owner(cands[j]) => i = j
============================================================================
