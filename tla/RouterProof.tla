---------------------------- MODULE RouterProof ----------------------------
(***************************************************************************)
(* Theorems about the RIB and the router task, for every set of routes,    *)
(* configurations and channel sizes: best-path selection always has a      *)
(* winner and the winner is a candidate, announcing or withdrawing keeps a *)
(* candidate list one, the forwarding plane follows, and so do the streams *)
(* of subscribers, the static routes and the redistribution targets.       *)
(***************************************************************************)
EXTENDS Router, TLAPS, WellFoundedInduction

----------------------------------------------------------------------------
(* The RIB *)

\* Every non-empty set of naturals has a least element.
LEMMA LeastNatural ==
    ASSUME NEW T \in SUBSET Nat, T # {}
    PROVE  \E m \in T : \A n \in T : m <= n
<1>1. PICK m \in T : \A n \in T : <<n, m>> \notin OpToRel(<, Nat)
  BY NatLessThanWellFounded, WFMin
<1>2. \A n \in T : ~(n < m)
  BY <1>1 DEF OpToRel
<1> QED BY <1>2

\* A non-empty candidate list has a best index: the walk of RibEntry::best over
\* a non-empty entry always ends with a route.
LEMMA BestIndexExists ==
    ASSUME NEW cands \in Seq(Routes), cands # <<>>
    PROVE  \E i \in DOMAIN cands : IsBestIndex(cands, i)
<1> DEFINE I == DOMAIN cands
<1>1. I = 1 .. Len(cands) /\ I # {} /\ I \subseteq Nat
  OBVIOUS
<1>2. \A i \in I : /\ cands[i] \in Routes
                   /\ cands[i].preference \in 0 .. MaxU32
                   /\ cands[i].metric \in Nat
  <2>1. ASSUME NEW i \in I
        PROVE  cands[i] \in Routes
    BY <1>1, <2>1
  <2>2. \A r \in Routes : r.preference \in 0 .. MaxU32 /\ r.metric \in 0 .. MaxU32
    BY RoutesAssumption DEF RouteShape
  <2> QED BY <2>1, <2>2, MaxU32Assumption
<1>3. PICK top \in I : \A j \in I : cands[j].preference <= cands[top].preference
  <2> DEFINE T == {MaxU32 - cands[i].preference : i \in I}
  <2>1. T \in SUBSET Nat /\ T # {}
    BY <1>1, <1>2, MaxU32Assumption
  <2>2. PICK m \in T : \A n \in T : m <= n
    BY <2>1, LeastNatural
  <2>3. PICK top \in I : m = MaxU32 - cands[top].preference
    BY <2>2
  <2>4. ASSUME NEW j \in I
        PROVE  cands[j].preference <= cands[top].preference
    <3>1. m <= MaxU32 - cands[j].preference
      BY <2>2
    <3> QED BY <3>1, <2>3, <1>2, MaxU32Assumption
  <2> QED BY <2>4
<1> DEFINE P == {i \in I : cands[i].preference = cands[top].preference}
<1>4. PICK low \in P : \A j \in P : cands[low].metric <= cands[j].metric
  <2> DEFINE T == {cands[i].metric : i \in P}
  <2>1. T \in SUBSET Nat /\ T # {}
    BY <1>2, <1>3
  <2>2. PICK m \in T : \A n \in T : m <= n
    BY <2>1, LeastNatural
  <2> QED BY <2>2
<1> DEFINE Q == {i \in P : cands[i].metric = cands[low].metric}
<1>5. PICK first \in Q : \A j \in Q : first <= j
  <2>1. Q \in SUBSET Nat /\ Q # {}
    BY <1>1, <1>4
  <2> QED BY <2>1, LeastNatural
<1>6. ASSUME NEW j \in I
      PROVE  ~IsBetterThan(cands[j], cands[first])
  BY <1>2, <1>3, <1>4, <1>5, <1>6 DEF IsBetterThan
<1>7. ASSUME NEW j \in I, j < first
      PROVE  IsBetterThan(cands[first], cands[j])
  <2>1. j \notin Q /\ j \in Nat /\ first \in Nat
    BY <1>1, <1>5, <1>7
  <2>2. CASE j \notin P
    BY <2>2, <1>2, <1>3, <1>5, <1>7 DEF IsBetterThan
  <2>3. CASE j \in P
    BY <2>1, <2>3, <1>2, <1>4, <1>5 DEF IsBetterThan
  <2> QED BY <2>2, <2>3
<1> QED BY <1>5, <1>6, <1>7 DEF IsBestIndex

\* The best path of an entry is one of its candidates, and there is none
\* exactly when the entry is empty.
LEMMA BestIsCandidate ==
    ASSUME NEW S \in SUBSET Routes, NEW cands \in Seq(S)
    PROVE  /\ Best(cands) = NoRoute <=> cands = <<>>
           /\ cands # <<>> => Best(cands) \in S
<1>1. CASE cands = <<>>
  BY <1>1 DEF Best
<1>2. CASE cands # <<>>
  <2>1. cands \in Seq(Routes)
    OBVIOUS
  <2>2. (CHOOSE i \in DOMAIN cands : IsBestIndex(cands, i)) \in DOMAIN cands
    BY <1>2, <2>1, BestIndexExists
  <2>3. Best(cands) \in S
    BY <1>2, <2>2 DEF Best
  <2> QED BY <1>2, <2>3, NoRouteAssumption
<1> QED BY <1>1, <1>2

\* A lone candidate is the best path.
LEMMA BestOfOne ==
    ASSUME NEW r \in Routes
    PROVE  Best(<<r>>) = r
<1>1. <<r>> \in Seq({r}) /\ <<r>> # <<>>
  OBVIOUS
<1>2. Best(<<r>>) \in {r}
  BY <1>1, BestIsCandidate, Zenon
<1> QED BY <1>2

\* Rib::update keeps a list of candidates of S one, and never leaves it empty.
LEMMA AnnouncedIsList ==
    ASSUME NEW S, NEW cands \in Seq(S), NEW r \in S
    PROVE  Announced(cands, r) \in Seq(S) /\ Announced(cands, r) # <<>>
<1>1. CASE \E i \in DOMAIN cands : Owner(cands[i]) = Owner(r)
  <2> DEFINE new == [i \in DOMAIN cands |-> IF Owner(cands[i]) = Owner(r) THEN r ELSE cands[i]]
  <2>1. \A i \in 1 .. Len(cands) : new[i] \in S
    OBVIOUS
  <2>2. new \in [1 .. Len(cands) -> S] /\ Len(cands) \in Nat
    BY <2>1
  <2>3. new \in Seq(S)
    BY <2>2
  <2>4. new # <<>>
    BY <1>1
  <2> QED BY <1>1, <2>3, <2>4 DEF Announced
<1>2. CASE ~\E i \in DOMAIN cands : Owner(cands[i]) = Owner(r)
  BY <1>2 DEF Announced
<1> QED BY <1>1, <1>2

\* Rib::withdraw keeps a list of candidates of S one.
LEMMA WithdrawnIsList ==
    ASSUME NEW S, NEW cands \in Seq(S), NEW o
    PROVE  Withdrawn(cands, o) \in Seq(S)
<1>1. CASE \E i \in DOMAIN cands : Owner(cands[i]) = o
  <2> DEFINE gone == CHOOSE i \in DOMAIN cands : Owner(cands[i]) = o
             new == [i \in 1 .. Len(cands) - 1 |-> IF i < gone THEN cands[i] ELSE cands[i + 1]]
  <2>1. gone \in 1 .. Len(cands)
    BY <1>1
  <2>2. Len(cands) - 1 \in Nat
    BY <2>1
  <2>3. \A i \in 1 .. Len(cands) - 1 : new[i] \in S
    BY <2>1
  <2>4. new \in [1 .. Len(cands) - 1 -> S]
    BY <2>3
  <2>5. new \in Seq(S)
    BY <2>2, <2>4
  <2> QED BY <1>1, <2>5 DEF Withdrawn
<1>2. CASE ~\E i \in DOMAIN cands : Owner(cands[i]) = o
  BY <1>2 DEF Withdrawn
<1> QED BY <1>1, <1>2

\* Route x is one of the candidates.
Holds(cands, x) == \E i \in DOMAIN cands : cands[i] = x

\* Rib::update puts its route in the place of its owner's and keeps the others.
LEMMA AnnouncedHolds ==
    ASSUME NEW cands \in Seq(Routes), NEW r \in Routes, OwnersUniqueIn(cands)
    PROVE  /\ OwnersUniqueIn(Announced(cands, r))
           /\ \A x : Holds(Announced(cands, r), x)
                        <=> x = r \/ (Holds(cands, x) /\ Owner(x) # Owner(r))
<1>1. CASE \E i \in DOMAIN cands : Owner(cands[i]) = Owner(r)
  <2> DEFINE new == [i \in DOMAIN cands |-> IF Owner(cands[i]) = Owner(r) THEN r ELSE cands[i]]
  <2>1. Announced(cands, r) = new /\ DOMAIN new = DOMAIN cands
    BY <1>1 DEF Announced
  <2>2. \A i \in DOMAIN cands : /\ Owner(cands[i]) = Owner(r) => new[i] = r
                                /\ Owner(cands[i]) # Owner(r) => new[i] = cands[i]
    OBVIOUS
  <2> HIDE DEF new
  <2>3. \A i \in DOMAIN cands : Owner(new[i]) = Owner(cands[i])
    BY <2>2
  <2>4. OwnersUniqueIn(new)
    BY <2>1, <2>3 DEF OwnersUniqueIn
  <2>5. \A x : Holds(new, x) <=> x = r \/ (Holds(cands, x) /\ Owner(x) # Owner(r))
    BY <1>1, <2>1, <2>2 DEF Holds
  <2> QED BY <2>1, <2>4, <2>5
<1>2. CASE ~\E i \in DOMAIN cands : Owner(cands[i]) = Owner(r)
  <2> DEFINE new == Append(cands, r)
             n == Len(cands)
  <2>1. /\ Announced(cands, r) = new /\ n \in Nat /\ DOMAIN cands = 1 .. n
        /\ DOMAIN new = 1 .. n + 1 /\ new[n + 1] = r
        /\ \A i \in 1 .. n : new[i] = cands[i]
    BY <1>2 DEF Announced
  <2> HIDE DEF new, n
  <2>2. OwnersUniqueIn(new)
    <3> SUFFICES ASSUME NEW i \in 1 .. n + 1, NEW j \in 1 .. n + 1,
                        Owner(new[i]) = Owner(new[j])
                 PROVE  i = j
      BY <2>1 DEF OwnersUniqueIn
    <3>1. CASE i \in 1 .. n /\ j \in 1 .. n
      BY <2>1, <3>1 DEF OwnersUniqueIn
    <3>2. CASE i = n + 1 \/ j = n + 1
      BY <1>2, <2>1, <3>2
    <3> QED BY <2>1, <3>1, <3>2
  <2>3. \A x : Holds(new, x) <=> x = r \/ Holds(cands, x)
    <3>1. \A i \in 1 .. n + 1 : i \in 1 .. n \/ i = n + 1
      BY <2>1
    <3>2. 1 .. n \subseteq 1 .. n + 1 /\ n + 1 \in 1 .. n + 1
      BY <2>1
    <3> QED BY <2>1, <3>1, <3>2 DEF Holds
  <2>4. \A x : Holds(cands, x) => Owner(x) # Owner(r)
    BY <1>2 DEF Holds
  <2> QED BY <2>1, <2>2, <2>3, <2>4
<1> QED BY <1>1, <1>2

\* Rib::withdraw drops the route of that owner and keeps the others.
LEMMA WithdrawnHolds ==
    ASSUME NEW cands \in Seq(Routes), NEW o, OwnersUniqueIn(cands)
    PROVE  /\ OwnersUniqueIn(Withdrawn(cands, o))
           /\ \A x : Holds(Withdrawn(cands, o), x) <=> Holds(cands, x) /\ Owner(x) # o
<1>1. CASE \E i \in DOMAIN cands : Owner(cands[i]) = o
  <2> DEFINE gone == CHOOSE i \in DOMAIN cands : Owner(cands[i]) = o
             n == Len(cands)
             new == [i \in 1 .. n - 1 |-> IF i < gone THEN cands[i] ELSE cands[i + 1]]
  <2>1. /\ gone \in 1 .. n /\ Owner(cands[gone]) = o /\ n \in Nat /\ DOMAIN cands = 1 .. n
        /\ Withdrawn(cands, o) = new /\ DOMAIN new = 1 .. n - 1
    BY <1>1 DEF Withdrawn
  <2>2. \A i \in 1 .. n - 1 : /\ i < gone => new[i] = cands[i]
                              /\ ~(i < gone) => new[i] = cands[i + 1]
    OBVIOUS
  <2> HIDE DEF gone, n, new
  <2>3. \A i \in 1 .. n : Owner(cands[i]) = o => i = gone
    BY <2>1 DEF OwnersUniqueIn
  <2>4. OwnersUniqueIn(new)
    <3> SUFFICES ASSUME NEW i \in 1 .. n - 1, NEW j \in 1 .. n - 1,
                        Owner(new[i]) = Owner(new[j])
                 PROVE  i = j
      BY <2>1 DEF OwnersUniqueIn
    <3>1. PICK a \in 1 .. n : a = (IF i < gone THEN i ELSE i + 1) /\ new[i] = cands[a]
      BY <2>1, <2>2
    <3>2. PICK b \in 1 .. n : b = (IF j < gone THEN j ELSE j + 1) /\ new[j] = cands[b]
      BY <2>1, <2>2
    <3>3. a = b
      BY <2>1, <3>1, <3>2 DEF OwnersUniqueIn
    <3> QED BY <2>1, <3>1, <3>2, <3>3
  <2>5. ASSUME NEW x, Holds(new, x)
        PROVE  Holds(cands, x) /\ Owner(x) # o
    <3> PICK i \in 1 .. n - 1 : new[i] = x
      BY <2>1, <2>5 DEF Holds
    <3>1. PICK a \in 1 .. n : a = (IF i < gone THEN i ELSE i + 1) /\ new[i] = cands[a]
      BY <2>1, <2>2
    <3>2. a # gone
      BY <2>1, <3>1
    <3> QED BY <2>1, <2>3, <3>1, <3>2 DEF Holds
  <2>6. ASSUME NEW x, Holds(cands, x), Owner(x) # o
        PROVE  Holds(new, x)
    <3> PICK a \in 1 .. n : cands[a] = x
      BY <2>1, <2>6 DEF Holds
    <3>1. a # gone
      BY <2>1, <2>6
    <3>2. CASE a < gone
      <4>1. a \in 1 .. n - 1
        BY <2>1, <3>2
      <4>2. new[a] = cands[a]
        BY <2>2, <3>2, <4>1
      <4> QED BY <2>1, <4>1, <4>2 DEF Holds
    <3>3. CASE a > gone
      <4>1. a - 1 \in 1 .. n - 1 /\ ~(a - 1 < gone) /\ (a - 1) + 1 = a
        BY <2>1, <3>3
      <4> QED BY <2>1, <2>2, <4>1 DEF Holds
    <3> QED BY <2>1, <3>1, <3>2, <3>3
  <2> QED BY <2>1, <2>4, <2>5, <2>6
<1>2. CASE ~\E i \in DOMAIN cands : Owner(cands[i]) = o
  BY <1>2 DEF Withdrawn, Holds
<1> QED BY <1>1, <1>2

----------------------------------------------------------------------------
(* The router *)

\* No two kinds of change are confused.
LEMMA ChangesDiffer ==
    /\ NoChange # Remove
    /\ \A r : Install(r) # NoChange /\ Install(r) # Remove
    /\ NoChange.op = "none" /\ Remove.op = "remove"
    /\ \A r : Install(r).op = "install" /\ Install(r).route = r
<1>1. NoChange.op = "none" /\ Remove.op = "remove" /\ \A r : Install(r).op = "install"
  BY DEF NoChange, Remove, Install
<1> QED BY <1>1 DEF Install

\* A pending install carries a route.
LEMMA ChangeShape ==
    ASSUME NEW ch \in Changes
    PROVE  /\ ch = NoChange \/ ch = Remove \/ \E r \in Routes : ch = Install(r)
           /\ ch.op = "install" => ch.route \in Routes /\ ch = Install(ch.route)
<1>1. CASE ch = NoChange \/ ch = Remove
  BY <1>1, ChangesDiffer
<1>2. CASE \E r \in Routes : ch = Install(r)
  BY <1>2, ChangesDiffer
<1> QED BY <1>1, <1>2 DEF Changes

\* The filters in force are filters of some configuration.
LEMMA ConfigFilters ==
    ASSUME NEW c \in Configs
    PROVE  /\ c.imports \in Filters /\ c.fib_export \in Filters
           /\ c.vrf_imports \in Filters /\ c.vrf_exports \in Filters
           /\ c.statics \in Seq({r \in Routes : r.protocol = "static"})
           /\ KeepsIdentity(c.imports) /\ KeepsIdentity(c.fib_export)
           /\ KeepsIdentity(c.vrf_imports) /\ KeepsIdentity(c.vrf_exports)
           /\ \A i \in DOMAIN c.statics : c.statics[i].source = 0
BY ConfigsAssumption DEF ConfigShape

\* A finite, non-empty set of naturals with an upper bound has a greatest one.
LEMMA NewestExists ==
    ASSUME NEW n \in Nat, NEW I \in SUBSET (0 .. n), I # {}
    PROVE  Newest(I) \in I
<1> DEFINE T == {n - i : i \in I}
<1>1. T \in SUBSET Nat /\ T # {}
  <2>1. \A i \in I : n - i \in Nat
    OBVIOUS
  <2> QED BY <2>1
<1>2. PICK m \in T : \A t \in T : m <= t
  BY <1>1, LeastNatural
<1>3. PICK top \in I : m = n - top
  BY <1>2
<1>4. \A j \in I : j <= top
  BY <1>2, <1>3
<1> QED BY <1>4 DEF Newest

LEMMA OldestExists ==
    ASSUME NEW I \in SUBSET Nat, I # {}
    PROVE  Oldest(I) \in I
BY LeastNatural DEF Oldest

\* The static routes of a key are static routes of that key, and start-up and
\* reload agree on whether there is one.
LEMMA StaticsOfKey ==
    ASSUME NEW c \in Configs, NEW k \in Keys
    PROVE  /\ LastStatic(c, k) \in MaybeRoutes /\ FirstStatic(c, k) \in MaybeRoutes
           /\ Seed(c, k) \in MaybeRoutes
           /\ LastStatic(c, k) # NoRoute => LastStatic(c, k) \in RoutesAt(k)
           /\ FirstStatic(c, k) = NoRoute <=> LastStatic(c, k) = NoRoute
<1> DEFINE A == AdmittedAt(c, k)
           B == SeededAt(c, k)
<1>1. /\ A \subseteq DOMAIN c.statics /\ B \subseteq A
      /\ DOMAIN c.statics = 1 .. Len(c.statics) /\ Len(c.statics) \in Nat
      /\ A \in SUBSET (0 .. Len(c.statics)) /\ B \in SUBSET (0 .. Len(c.statics))
  BY ConfigFilters DEF AdmittedAt, SeededAt
<1>2. \A i \in A : /\ c.statics[i] \in Routes
                   /\ c.vrf_imports[c.statics[i]] \in Routes
                   /\ c.vrf_imports[c.statics[i]] # NoRoute
                   /\ KeyOf(c.vrf_imports[c.statics[i]]) = k
  <2> SUFFICES ASSUME NEW i \in A
               PROVE  /\ c.statics[i] \in Routes
                      /\ c.vrf_imports[c.statics[i]] \in Routes
                      /\ c.vrf_imports[c.statics[i]] # NoRoute
                      /\ KeyOf(c.vrf_imports[c.statics[i]]) = k
    OBVIOUS
  <2>1. c.statics[i] \in Routes /\ KeyOf(c.statics[i]) = k
        /\ c.vrf_imports[c.statics[i]] # NoRoute
    <3>1. i \in 1 .. Len(c.statics) /\ KeyOf(c.statics[i]) = k
          /\ c.vrf_imports[c.statics[i]] # NoRoute
      BY <1>1 DEF AdmittedAt
    <3>2. c.statics \in Seq({r \in Routes : r.protocol = "static"})
      BY ConfigFilters
    <3> QED BY <3>1, <3>2
  <2> QED BY <2>1, ConfigFilters DEF Filters, KeepsIdentity
<1>3. \A i \in B : c.vrf_exports[c.vrf_imports[c.statics[i]]] \in Routes
  BY <1>1, <1>2, ConfigFilters DEF Filters, SeededAt
<1>4. A # {} => Newest(A) \in A /\ Oldest(A) \in A
  BY <1>1, NewestExists, OldestExists
<1>5. B # {} => Newest(B) \in B
  BY <1>1, NewestExists
<1> QED BY <1>2, <1>3, <1>4, <1>5 DEF LastStatic, FirstStatic, Seed, MaybeRoutes, RoutesAt

----------------------------------------------------------------------------
(* Type correctness *)

\* The filters in force map routes to routes of the same key and owner.
LEMMA FiltersInForce ==
    ASSUME TypeOK
    PROVE  /\ imports \in Filters /\ KeepsIdentity(imports)
           /\ fib_export \in Filters /\ KeepsIdentity(fib_export)
BY ConfigFilters DEF TypeOK

\* The best path of a key is a route of that key.
LEMMA BestAtKey ==
    ASSUME TypeOK, NEW k \in Keys
    PROVE  /\ BestAt(k) \in MaybeRoutes
           /\ BestAt(k) # NoRoute => BestAt(k) \in RoutesAt(k)
           /\ Desired(BestAt(k)) \in Changes /\ Desired(BestAt(k)) # NoChange
<1>1. RoutesAt(k) \in SUBSET Routes /\ rib[k] \in Seq(RoutesAt(k))
  BY DEF TypeOK, RoutesAt
<1>2. BestAt(k) = NoRoute \/ BestAt(k) \in RoutesAt(k)
  BY <1>1, BestIsCandidate DEF BestAt
<1> QED BY <1>1, <1>2, ChangesDiffer DEF MaybeRoutes, Desired, Changes

\* Rib::diff returns a change that its callers can program.
LEMMA DiffIsChange ==
    ASSUME NEW a \in MaybeRoutes, NEW b \in MaybeRoutes
    PROVE  /\ Diff(a, b) \in Changes
           /\ Diff(a, b) = NoChange <=> a = b
           /\ a # b => Diff(a, b) = Desired(b)
BY ChangesDiffer DEF Diff, Changes, MaybeRoutes, Desired

\* ingest keeps the candidates of a key.
LEMMA IngestedIsList ==
    ASSUME TypeOK, NEW m \in Messages
    PROVE  /\ MessageKey(m) \in Keys
           /\ Ingested(rib[MessageKey(m)], m) \in Seq(RoutesAt(MessageKey(m)))
<1> DEFINE k == MessageKey(m)
<1>1. CASE m.op = "withdraw"
  <2>1. m.key \in Keys /\ k = m.key
    BY <1>1 DEF Messages, MessageKey
  <2>2. rib[k] \in Seq(RoutesAt(k))
    BY <2>1 DEF TypeOK
  <2> HIDE DEF k
  <2> QED BY <1>1, <2>1, <2>2, WithdrawnIsList DEF Ingested, k
<1>2. CASE m.op # "withdraw"
  <2>1. m.route \in Routes /\ k = KeyOf(m.route)
    BY <1>2, EngineAssumption DEF Messages, MessageKey
  <2>2. k \in Keys
    BY <2>1, RoutesAssumption DEF RouteShape, KeyOf, Keys
  <2>3. rib[k] \in Seq(RoutesAt(k))
    BY <2>2 DEF TypeOK
  <2>4. imports[m.route] # NoRoute => imports[m.route] \in RoutesAt(k)
    BY <2>1, FiltersInForce DEF Filters, KeepsIdentity, RoutesAt
  <2> HIDE DEF k
  <2>5. Withdrawn(rib[k], Owner(m.route)) \in Seq(RoutesAt(k))
    BY <2>3, WithdrawnIsList
  <2>6. imports[m.route] # NoRoute => Announced(rib[k], imports[m.route]) \in Seq(RoutesAt(k))
    BY <2>3, <2>4, AnnouncedIsList
  <2> QED BY <1>2, <2>2, <2>5, <2>6 DEF Ingested, k
<1> QED BY <1>1, <1>2

\* reload_statics keeps the candidates of every key.
LEMMA ReloadedIsList ==
    ASSUME TypeOK, NEW c \in Configs, NEW k \in Keys,
           NEW next, next = [j \in Keys |-> LastStatic(c, j)]
    PROVE  Reloaded(k, next) \in Seq(RoutesAt(k))
<1>1. rib[k] \in Seq(RoutesAt(k)) /\ next[k] = LastStatic(c, k)
  BY DEF TypeOK
<1>2. next[k] # NoRoute => next[k] \in RoutesAt(k)
  BY <1>1, StaticsOfKey
<1>3. Withdrawn(rib[k], StaticOwner) \in Seq(RoutesAt(k))
  BY <1>1, WithdrawnIsList
<1>4. next[k] # NoRoute => Announced(rib[k], next[k]) \in Seq(RoutesAt(k))
  BY <1>1, <1>2, AnnouncedIsList
<1> QED BY <1>1, <1>3, <1>4 DEF Reloaded

SubscriberState == [st: {"closed", "dumping", "open"}, view: [Keys -> MaybeRoutes],
                    unread: 0 .. SUBSCRIBER_CAP]

LEMMA FreshIsState == Fresh \in SubscriberState /\ NoRoutes \in [Keys -> MaybeRoutes]
BY BoundsAssumption DEF Fresh, SubscriberState, NoRoutes, MaybeRoutes

\* A live event leaves every subscriber in a legal state.
LEMMA FanoutType ==
    ASSUME TypeOK, NEW k \in Keys, NEW r \in MaybeRoutes, Fanout(k, r)
    PROVE  subs' \in [Subscribers -> SubscriberState]
<1> SUFFICES ASSUME NEW s \in Subscribers
             PROVE  (IF subs[s].st # "open" THEN subs[s]
                     ELSE IF subs[s].unread < SUBSCRIBER_CAP
                          THEN [subs[s] EXCEPT !.view[k] = r, !.unread = @ + 1]
                          ELSE Fresh) \in SubscriberState
  BY DEF Fanout
<1>1. subs[s] \in SubscriberState
  BY DEF TypeOK, SubscriberState
<1>2. subs[s].unread < SUBSCRIBER_CAP =>
        [subs[s] EXCEPT !.view[k] = r, !.unread = @ + 1] \in SubscriberState
  <2> SUFFICES ASSUME subs[s].unread < SUBSCRIBER_CAP
               PROVE  [subs[s] EXCEPT !.view[k] = r, !.unread = @ + 1] \in SubscriberState
    OBVIOUS
  <2>1. [subs[s].view EXCEPT ![k] = r] \in [Keys -> MaybeRoutes]
    BY <1>1 DEF SubscriberState
  <2>2. subs[s].unread + 1 \in 0 .. SUBSCRIBER_CAP
    BY <1>1, BoundsAssumption DEF SubscriberState
  <2>3. [subs[s] EXCEPT !.view = [subs[s].view EXCEPT ![k] = r], !.unread = @ + 1]
          \in SubscriberState
    BY <1>1, <2>1, <2>2 DEF SubscriberState
  <2> QED BY <1>1, <2>3 DEF SubscriberState
<1> QED BY <1>1, <1>2, FreshIsState

\* Redistribution leaves every target with a route or none per prefix.
LEMMA RedistributeType ==
    ASSUME TypeOK, NEW k \in Keys, NEW ch \in Changes, Redistribute(k, ch)
    PROVE  origin' \in [Targets -> [Prefixes -> MaybeRoutes]]
<1>1. \A t \in Targets : Redistributed(t, ch) \in MaybeRoutes
  BY ChangeShape, TargetsAssumption DEF Redistributed, MaybeRoutes, Filters
<1>2. \A t \in Targets : [origin[t] EXCEPT ![k[2]] = Redistributed(t, ch)]
                           \in [Prefixes -> MaybeRoutes]
  BY <1>1 DEF TypeOK
<1> QED BY <1>2 DEF Redistribute

\* The bookkeeping that follows every programmed change.
LEMMA DoneType ==
    ASSUME TypeOK, NEW k \in Keys, Done(k)
    PROVE  /\ pc' \in Phases
           /\ work' \in [Keys -> Changes]
           /\ origin' \in [Targets -> [Prefixes -> MaybeRoutes]]
           /\ programmed_by' \in [Keys -> Filters]
           /\ UNCHANGED <<rib, current_statics, imports, fib_export, drained, dumping,
                          undumped, chans>>
<1>1. work[k] \in Changes /\ NoChange \in Changes
  BY DEF TypeOK, Changes
<1>2. origin' \in [Targets -> [Prefixes -> MaybeRoutes]]
  <2>1. CASE pc = "program"
    BY <1>1, <2>1, RedistributeType DEF Done
  <2>2. CASE pc # "program"
    BY <2>2 DEF Done, TypeOK
  <2> QED BY <2>1, <2>2
<1>3. work' \in [Keys -> Changes]
  BY <1>1 DEF Done, TypeOK
<1>4. programmed_by' \in [Keys -> Filters]
  BY FiltersInForce DEF Done, TypeOK
<1>5. pc' \in Phases
  BY DEF Done, TypeOK, Phases
<1> QED BY <1>2, <1>3, <1>4, <1>5 DEF Done

\* Programming a change keeps every variable in its type.
LEMMA ProgramType ==
    ASSUME TypeOK, NEW k \in Keys, NEW w \in Results, Program(k, w)
    PROVE  TypeOK'
<1>1. Done(k)
  BY DEF Program, ProgramConnected, ProgramRejectedIdle, ProgramRemoveIdle,
         ProgramInstall, ProgramRejected, ProgramRemove
<1>2. /\ exported' \in [Keys -> MaybeRoutes] /\ failed' \subseteq Keys
      /\ kernel' \in [Keys -> MaybeRoutes]
      /\ subs' \in [Subscribers -> SubscriberState]
  <2>1. CASE ProgramConnected(k) \/ ProgramRejectedIdle(k) \/ ProgramRemoveIdle(k)
    BY <2>1 DEF ProgramConnected, ProgramRejectedIdle, ProgramRemoveIdle, TypeOK,
                SubscriberState
  <2>2. CASE \E e \in Routes : ProgramInstall(k, e, w)
    <3> PICK e \in Routes : ProgramInstall(k, e, w)
      BY <2>2
    <3>1. e \in MaybeRoutes
      BY DEF MaybeRoutes
    <3>2. kernel' \in [Keys -> MaybeRoutes] /\ failed' \subseteq Keys
      BY <3>1 DEF ProgramInstall, Write, FailedAfter, TypeOK
    <3>3. CASE w = "ok"
      BY <3>1, <3>2, <3>3, FanoutType DEF ProgramInstall, TypeOK
    <3>4. CASE w # "ok"
      BY <3>2, <3>4 DEF ProgramInstall, TypeOK, SubscriberState
    <3> QED BY <3>3, <3>4
  <2>3. CASE ProgramRejected(k, w) \/ ProgramRemove(k, w)
    <3>1. Unprogram(k, w) /\ NoRoute \in MaybeRoutes
      BY <2>3 DEF ProgramRejected, ProgramRemove, MaybeRoutes
    <3> QED BY <3>1, FanoutType DEF Unprogram, Write, FailedAfter, TypeOK
  <2> QED BY <2>1, <2>2, <2>3 DEF Program
<1>3. /\ pc' \in Phases
      /\ work' \in [Keys -> Changes]
      /\ origin' \in [Targets -> [Prefixes -> MaybeRoutes]]
      /\ programmed_by' \in [Keys -> Filters]
      /\ UNCHANGED <<rib, current_statics, imports, fib_export, drained, dumping,
                     undumped, chans>>
  BY <1>1, DoneType
<1> QED BY <1>2, <1>3 DEF TypeOK, SubscriberState, chans

\* Taking an update off the channel keeps every variable in its type.
LEMMA IngestType ==
    ASSUME TypeOK, Ingest
    PROVE  /\ rib' \in [Keys -> Seq(Routes)]
           /\ \A k \in Keys : rib'[k] \in Seq(RoutesAt(k))
           /\ work' \in [Keys -> Changes]
           /\ updates' \in Seq(Messages) /\ Len(updates') <= UPDATE_QUEUE
<1> DEFINE m == Head(updates)
           k == MessageKey(m)
           cands == Ingested(rib[k], m)
           change == Diff(BestAt(k), Best(cands))
<1>1. m \in Messages /\ updates' = Tail(updates) /\ updates # <<>>
  BY DEF TypeOK, Ingest
<1>2. updates' \in Seq(Messages) /\ Len(updates') <= UPDATE_QUEUE
  BY <1>1, BoundsAssumption DEF TypeOK
<1>3. k \in Keys /\ cands \in Seq(RoutesAt(k))
  BY <1>1, IngestedIsList
<1>4. RoutesAt(k) \in SUBSET Routes
  BY DEF RoutesAt
<1> HIDE DEF m, k, cands
<1>5. Best(cands) \in MaybeRoutes
  BY <1>3, <1>4, BestIsCandidate DEF MaybeRoutes
<1>6. change \in Changes
  BY <1>3, <1>5, BestAtKey, DiffIsChange
<1>7. rib' = [rib EXCEPT ![k] = cands]
      /\ work' = IF change = NoChange THEN work ELSE [work EXCEPT ![k] = change]
  BY DEF Ingest, m, k, cands
<1>8. cands \in Seq(Routes)
  BY <1>3, <1>4
<1> QED BY <1>2, <1>3, <1>6, <1>7, <1>8 DEF TypeOK

\* Start-up seeds every variable with its type.
LEMMA StartType ==
    ASSUME TypeOK, NEW c \in Configs, NEW stuck \in StuckSets, Start(c, stuck)
    PROVE  TypeOK'
<1>1. kernel' \in [Keys -> MaybeRoutes]
  <2>1. \A k \in Keys : Reconciled(c, stuck)[k] \in MaybeRoutes
    BY DEF Reconciled, TypeOK, MaybeRoutes
  <2> QED BY <2>1, StaticsOfKey DEF Start
<1>2. rib' \in [Keys -> Seq(Routes)] /\ \A k \in Keys : rib'[k] \in Seq(RoutesAt(k))
  <2>1. ASSUME NEW k \in Keys
        PROVE  rib'[k] \in Seq(RoutesAt(k)) /\ rib'[k] \in Seq(Routes)
    <3>1. CASE LastStatic(c, k) = NoRoute
      BY <3>1 DEF Start
    <3>2. CASE LastStatic(c, k) # NoRoute
      <4>1. LastStatic(c, k) \in RoutesAt(k) /\ RoutesAt(k) \subseteq Routes
        BY <3>2, StaticsOfKey DEF RoutesAt
      <4> QED BY <3>2, <4>1 DEF Start
    <3> QED BY <3>1, <3>2
  <2> QED BY <2>1 DEF Start
<1>3. /\ current_statics' \in [Keys -> MaybeRoutes]
      /\ exported' \in [Keys -> MaybeRoutes]
  BY StaticsOfKey DEF Start
<1>4. origin' \in [Targets -> [Prefixes -> MaybeRoutes]]
  <2>1. ASSUME NEW t \in Targets, NEW p \in Prefixes
        PROVE  SeededOrigin(c, t, p) \in MaybeRoutes
    <3> DEFINE holders == {tb \in Tables : LastStatic(c, <<tb, p>>) # NoRoute}
    <3>1. CASE holders = {}
      BY <3>1 DEF SeededOrigin, MaybeRoutes
    <3>2. CASE holders # {}
      <4>1. Newest(holders) \in holders
        BY <3>2, NewestExists, TablesAssumption, MaxU32Assumption
      <4>2. <<Newest(holders), p>> \in Keys
            /\ LastStatic(c, <<Newest(holders), p>>) # NoRoute
        BY <4>1 DEF Keys
      <4>3. LastStatic(c, <<Newest(holders), p>>) \in Routes
        BY <4>2, StaticsOfKey DEF MaybeRoutes
      <4> HIDE DEF holders
      <4>4. Redistributed(t, Install(LastStatic(c, <<Newest(holders), p>>))) \in MaybeRoutes
        BY <4>3, ChangesDiffer, TargetsAssumption DEF Redistributed, MaybeRoutes, Filters
      <4> QED BY <3>2, <4>4 DEF SeededOrigin, holders
    <3> QED BY <3>1, <3>2
  <2> QED BY <2>1 DEF Start
<1>5. programmed_by' \in [Keys -> Filters]
  BY ConfigFilters DEF Start
<1>6. imports' \in {d.imports : d \in Configs} /\ fib_export' \in {d.fib_export : d \in Configs}
  BY DEF Start
<1> QED BY <1>1, <1>2, <1>3, <1>4, <1>5, <1>6 DEF Start, TypeOK, phase, chans, Phases

\* A snapshot step, a read or a disconnection keeps every variable in its type.
LEMMA StreamType ==
    ASSUME TypeOK, StreamStep
    PROVE  TypeOK'
<1> PICK s \in Subscribers :
        \/ Subscribe(s) \/ EndOfDump(s) \/ AbortDump(s) \/ Read(s) \/ Disconnect(s)
        \/ \E k \in Keys : DumpRoute(s, k)
  BY DEF StreamStep
<1>1. subs[s] \in SubscriberState /\ subs \in [Subscribers -> SubscriberState]
  BY DEF TypeOK, SubscriberState
<1>2. subs' \in [Subscribers -> SubscriberState]
  <2>1. CASE Subscribe(s)
    <3>1. [Fresh EXCEPT !.st = "dumping"] \in SubscriberState
      BY FreshIsState DEF SubscriberState
    <3> QED BY <1>1, <2>1, <3>1 DEF Subscribe
  <2>2. CASE EndOfDump(s)
    <3>1. [subs[s] EXCEPT !.st = "open", !.unread = @ + 1] \in SubscriberState
      BY <1>1, <2>2, BoundsAssumption DEF EndOfDump, SubscriberState
    <3>2. subs' = [subs EXCEPT ![s] = [subs[s] EXCEPT !.st = "open", !.unread = @ + 1]]
      BY <1>1, <2>2 DEF EndOfDump, SubscriberState
    <3> QED BY <1>1, <3>1, <3>2
  <2>3. CASE AbortDump(s) \/ Disconnect(s)
    BY <1>1, <2>3, FreshIsState DEF AbortDump, Disconnect
  <2>4. CASE Read(s)
    <3>1. [subs[s] EXCEPT !.unread = @ - 1] \in SubscriberState
      BY <1>1, <2>4, BoundsAssumption DEF Read, SubscriberState
    <3>2. subs' = [subs EXCEPT ![s] = [subs[s] EXCEPT !.unread = @ - 1]]
      BY <1>1, <2>4 DEF Read, SubscriberState
    <3> QED BY <1>1, <3>1, <3>2
  <2>5. CASE \E k \in Keys : DumpRoute(s, k)
    <3> PICK k \in Keys : DumpRoute(s, k)
      BY <2>5
    <3> DEFINE view == [subs[s].view EXCEPT ![k] = exported[k]]
    <3>1. view \in [Keys -> MaybeRoutes]
      BY <1>1 DEF SubscriberState, TypeOK
    <3>2. subs[s].unread + 1 \in 0 .. SUBSCRIBER_CAP
      <4>1. subs[s].unread < SUBSCRIBER_CAP
        BY DEF DumpRoute
      <4>2. subs[s].unread \in 0 .. SUBSCRIBER_CAP
        BY <1>1 DEF SubscriberState
      <4> QED BY <4>1, <4>2, BoundsAssumption
    <3>3. subs' = [subs EXCEPT ![s] = [subs[s] EXCEPT !.view = view, !.unread = @ + 1]]
      BY <1>1 DEF DumpRoute, SubscriberState
    <3> HIDE DEF view
    <3>4. [subs[s] EXCEPT !.view = view, !.unread = @ + 1] \in SubscriberState
      BY <1>1, <3>1, <3>2 DEF SubscriberState
    <3> QED BY <1>1, <3>3, <3>4
  <2> QED BY <2>1, <2>2, <2>3, <2>4, <2>5
<1>3. /\ pc' \in Phases /\ dumping' \in Subscribers \cup {Nobody} /\ undumped' \subseteq Keys
      /\ UNCHANGED <<state, work, drained, chans, kernel, origin, programmed_by>>
  BY DEF TypeOK, Subscribe, EndOfDump, AbortDump, Read, Disconnect, DumpRoute, phase, Phases
<1> QED BY <1>2, <1>3 DEF TypeOK, SubscriberState, state, chans

LEMMA InitType == Init => TypeOK
<1> SUFFICES ASSUME Init PROVE TypeOK
  OBVIOUS
<1>1. /\ subs \in [Subscribers -> SubscriberState]
      /\ exported \in [Keys -> MaybeRoutes]
  BY FreshIsState DEF Init
<1>2. programmed_by \in [Keys -> Filters]
  BY ConfigFilters DEF Init
<1>3. rib \in [Keys -> Seq(Routes)] /\ \A k \in Keys : rib[k] \in Seq(RoutesAt(k))
  BY DEF Init
<1>4. work \in [Keys -> Changes] /\ origin \in [Targets -> [Prefixes -> MaybeRoutes]]
  BY DEF Init, NoWork, Changes, MaybeRoutes
<1> QED BY <1>1, <1>2, <1>3, <1>4, BoundsAssumption, FreshIsState
        DEF Init, TypeOK, SubscriberState, Phases

\* Every step of the router and of its environment keeps the types.
LEMMA TypeStep == TypeOK /\ [Next]_vars => TypeOK'
<1> SUFFICES ASSUME TypeOK, [Next]_vars PROVE TypeOK'
  OBVIOUS
<1>1. CASE ReceiveFirst
  BY <1>1, IngestType, BoundsAssumption DEF ReceiveFirst, TypeOK, outside, Phases
<1>2. CASE ReceiveMore
  <2>1. drained' \in 0 .. MAX_COALESCE_BATCH
    BY <1>2, BoundsAssumption DEF ReceiveMore, TypeOK
  <2> QED BY <1>2, <2>1, IngestType DEF ReceiveMore, TypeOK, outside
<1>3. CASE EndDrain
  BY <1>3, BoundsAssumption DEF EndDrain, TypeOK, state, chans, outside, Phases
<1>4. CASE \E k \in Keys, w \in Results : Program(k, w)
  BY <1>4, ProgramType
<1>5. CASE ReloadStatics
  <2> DEFINE c == Head(reloads)
             next == [k \in Keys |-> LastStatic(c, k)]
             todo == [k \in Keys |-> Diff(BestAt(k), Best(Reloaded(k, next)))]
  <2>1. /\ c \in Configs /\ reloads' = Tail(reloads) /\ reloads # <<>>
        /\ rib' = [k \in Keys |-> Reloaded(k, next)]
        /\ current_statics' = next /\ work' = todo
        /\ pc' \in {"idle", "repair"}
        /\ UNCHANGED <<exported, failed, imports, fib_export, drained, dumping,
                       undumped, updates, filter_reloads, outside>>
    BY <1>5 DEF ReloadStatics, TypeOK
  <2>2. reloads' \in Seq(Configs) /\ Len(reloads') <= RELOAD_QUEUE
    BY <2>1, BoundsAssumption DEF TypeOK
  <2>3. next \in [Keys -> MaybeRoutes]
    BY <2>1, StaticsOfKey
  <2> HIDE DEF c
  <2>4. \A k \in Keys : Reloaded(k, next) \in Seq(RoutesAt(k))
    BY <2>1, ReloadedIsList
  <2> HIDE DEF next
  <2>5. \A k \in Keys : /\ Reloaded(k, next) \in Seq(Routes)
                         /\ Best(Reloaded(k, next)) \in MaybeRoutes
    <3> SUFFICES ASSUME NEW k \in Keys
                 PROVE  /\ Reloaded(k, next) \in Seq(Routes)
                        /\ Best(Reloaded(k, next)) \in MaybeRoutes
      OBVIOUS
    <3>1. RoutesAt(k) \in SUBSET Routes
      BY DEF RoutesAt
    <3> QED BY <2>4, <3>1, BestIsCandidate DEF MaybeRoutes
  <2>6. todo \in [Keys -> Changes]
    BY <2>5, BestAtKey, DiffIsChange
  <2> HIDE DEF todo
  <2> QED BY <2>1, <2>2, <2>3, <2>4, <2>5, <2>6 DEF TypeOK, outside, Phases
<1>6. CASE ReloadFilters
  <2>1. Head(filter_reloads) \in Configs /\ filter_reloads' \in Seq(Configs)
        /\ Len(filter_reloads') <= RELOAD_QUEUE
    BY <1>6, BoundsAssumption DEF ReloadFilters, TypeOK
  <2> QED BY <1>6, <2>1 DEF ReloadFilters, TypeOK, phase, outside
<1>7. CASE RetryFailed
  <2>1. work' \in [Keys -> Changes]
    BY <1>7, BestAtKey DEF RetryFailed, Changes
  <2> QED BY <1>7, <2>1 DEF RetryFailed, TypeOK, state, chans, outside, Phases
<1>8. CASE StreamStep
  BY <1>8, StreamType
<1>9. CASE Crash
  <2>1. /\ exported' \in [Keys -> MaybeRoutes] /\ current_statics' \in [Keys -> MaybeRoutes]
        /\ subs' \in [Subscribers -> SubscriberState]
    BY <1>9, FreshIsState DEF Crash
  <2>2. work' \in [Keys -> Changes] /\ origin' \in [Targets -> [Prefixes -> MaybeRoutes]]
    BY <1>9 DEF Crash, NoWork, Changes, MaybeRoutes
  <2> QED BY <1>9, <2>1, <2>2, BoundsAssumption DEF Crash, TypeOK, SubscriberState, Phases
<1>10. CASE \E c \in Configs, stuck \in StuckSets : Start(c, stuck)
  BY <1>10, StartType
<1>11. CASE \E c \in Configs, stuck \in StuckSets, done \in SUBSET Keys : StartFails(c, stuck, done)
  <2> PICK c \in Configs, stuck \in StuckSets, done \in SUBSET Keys : StartFails(c, stuck, done)
    BY <1>11
  <2>1. \A k \in Keys : Reconciled(c, stuck)[k] \in MaybeRoutes /\ Seed(c, k) \in MaybeRoutes
    BY StaticsOfKey DEF Reconciled, TypeOK, MaybeRoutes
  <2>2. kernel' \in [Keys -> MaybeRoutes]
    BY <2>1 DEF StartFails
  <2> QED BY <2>2 DEF StartFails, TypeOK, state, phase, chans
<1>12. CASE \E m \in Messages : Send(m)
  BY <1>12, BoundsAssumption DEF Send, TypeOK, state, phase, outside
<1>13. CASE \E c \in Configs : Sighup(c)
  BY <1>13, BoundsAssumption DEF Sighup, TypeOK, state, phase, outside
<1>14. CASE UNCHANGED vars
  BY <1>14 DEF vars, TypeOK, state, phase, chans, outside
<1> QED BY <1>1, <1>2, <1>3, <1>4, <1>5, <1>6, <1>7, <1>8, <1>9, <1>10, <1>11, <1>12,
           <1>13, <1>14 DEF Next, RouterStep, Lifecycle

\* Every reachable state of the router is well typed: in particular no handler
\* files a route under another key, and no channel exceeds its capacity.
THEOREM TypeCorrect == Spec => []TypeOK
BY InitType, TypeStep, PTL DEF Spec

----------------------------------------------------------------------------
(* What the router believes it has programmed *)

\* Configurations whose static routes take no detour at start-up: one definition
\* per key, never rejected by a VRF route-map and not rewritten on the way to the
\* forwarding plane.  (README.md lists what the code does with the others.)
PlainStatics ==
    \A c \in Configs :
        /\ \A r \in Routes : c.vrf_exports[r] = r
        /\ \A i \in DOMAIN c.statics : c.vrf_imports[c.statics[i]] # NoRoute
        /\ \A i, j \in DOMAIN c.statics :
             KeyOf(c.statics[i]) = KeyOf(c.statics[j]) => i = j

\* With plain statics, start-up installs, records and announces one route.
LEMMA PlainSeed ==
    ASSUME PlainStatics, NEW c \in Configs, NEW k \in Keys
    PROVE  /\ Seed(c, k) = LastStatic(c, k) /\ FirstStatic(c, k) = LastStatic(c, k)
           /\ k \in Kept(c) => LastStatic(c, k) # NoRoute
<1> DEFINE A == AdmittedAt(c, k)
<1>1. /\ A \subseteq DOMAIN c.statics
      /\ A \in SUBSET (0 .. Len(c.statics)) /\ Len(c.statics) \in Nat
      /\ DOMAIN c.statics = 1 .. Len(c.statics)
  BY ConfigFilters DEF AdmittedAt
<1>2. \A i, j \in A : i = j
  BY <1>1 DEF AdmittedAt, PlainStatics
<1>3. \A i \in DOMAIN c.statics : c.statics[i] \in Routes /\ c.vrf_imports[c.statics[i]] \in Routes
  <2> SUFFICES ASSUME NEW i \in DOMAIN c.statics
               PROVE  c.statics[i] \in Routes /\ c.vrf_imports[c.statics[i]] \in Routes
    OBVIOUS
  <2>1. c.statics[i] \in Routes
    <3>1. i \in 1 .. Len(c.statics)
      BY <1>1
    <3>2. c.statics \in Seq({r \in Routes : r.protocol = "static"})
      BY ConfigFilters
    <3> QED BY <3>1, <3>2
  <2>2. c.vrf_imports[c.statics[i]] # NoRoute
    BY DEF PlainStatics
  <2>3. c.vrf_imports \in [Routes -> Routes \cup {NoRoute}]
    BY ConfigFilters DEF Filters
  <2> QED BY <2>1, <2>2, <2>3
<1>4. SeededAt(c, k) = A
  <2>1. ASSUME NEW i \in A
        PROVE  c.vrf_exports[c.vrf_imports[c.statics[i]]] # NoRoute
    <3>1. c.vrf_imports[c.statics[i]] \in Routes
      BY <1>1, <1>3
    <3> QED BY <3>1, NoRouteAssumption DEF PlainStatics
  <2> QED BY <2>1 DEF SeededAt
<1>5. A # {} => Newest(A) \in A /\ Oldest(A) = Newest(A)
  <2>1. A # {} => Newest(A) \in A
    BY <1>1, NewestExists
  <2>2. A # {} => Oldest(A) \in A
    BY <1>1, OldestExists
  <2> HIDE DEF A
  <2> QED BY <1>2, <2>1, <2>2
<1>6. A # {} => /\ Newest(A) \in DOMAIN c.statics
                /\ c.vrf_exports[c.vrf_imports[c.statics[Newest(A)]]]
                     = c.vrf_imports[c.statics[Newest(A)]]
                /\ c.vrf_imports[c.statics[Newest(A)]] # NoRoute
  BY <1>1, <1>3, <1>5, NoRouteAssumption DEF PlainStatics
<1>7. k \in Kept(c) => A # {}
  BY DEF Kept, AdmittedAt, PlainStatics
<1> QED BY <1>4, <1>5, <1>6, <1>7 DEF Seed, LastStatic, FirstStatic

\* A step that leaves the belief and the forwarding plane alone.
LEMMA BeliefUntouched ==
    ASSUME TypeOK, Next, ~\E k \in Keys, w \in Results : Program(k, w),
           ~\E c \in Configs, stuck \in StuckSets : Start(c, stuck),
           pc' # "down"
    PROVE  pc # "down" /\ exported' = exported /\ kernel' = kernel
BY DEF Next, RouterStep, StreamStep, Lifecycle, ReceiveFirst, ReceiveMore, EndDrain,
       ReloadStatics, ReloadFilters, RetryFailed, Subscribe, EndOfDump, AbortDump, Read,
       Disconnect, DumpRoute, Crash, StartFails, Send, Sighup, state, outside, phase

\* Programming one change writes that key only.
LEMMA ProgramOneKey ==
    ASSUME TypeOK, NEW k \in Keys, NEW w \in Results, Program(k, w), NEW j \in Keys, j # k
    PROVE  /\ exported'[j] = exported[j] /\ kernel'[j] = kernel[j]
           /\ j \in failed' <=> j \in failed
           /\ work'[j] = work[j] /\ programmed_by'[j] = programmed_by[j]
<1>1. Done(k)
  BY DEF Program, ProgramConnected, ProgramRejectedIdle, ProgramRemoveIdle,
         ProgramInstall, ProgramRejected, ProgramRemove
<1>2. work'[j] = work[j] /\ programmed_by'[j] = programmed_by[j]
  BY <1>1 DEF Done, TypeOK
<1>3. exported'[j] = exported[j] /\ kernel'[j] = kernel[j] /\ (j \in failed' <=> j \in failed)
  BY DEF Program, ProgramConnected, ProgramRejectedIdle, ProgramRemoveIdle, ProgramInstall,
         ProgramRejected, ProgramRemove, Unprogram, Write, FailedAfter, TypeOK
<1> QED BY <1>2, <1>3

\* Programming one change with acknowledged writes: afterwards the key is out of
\* `exported`, or what is recorded is what the forwarding plane holds.
LEMMA ProgramBelief ==
    ASSUME TypeOK, ExportedInKernel, "unacked" \notin Faults,
           NEW k \in Keys, NEW w \in Results, Program(k, w)
    PROVE  exported'[k] # NoRoute => kernel'[k] = exported'[k]
<1>1. pc # "down"
  BY DEF Program, ProgramConnected, ProgramRejectedIdle, ProgramRemoveIdle,
         ProgramInstall, ProgramRejected, ProgramRemove, Done
<1>2. exported[k] # NoRoute => kernel[k] = exported[k]
  BY <1>1 DEF ExportedInKernel
<1>3. CASE ProgramConnected(k) \/ ProgramRejectedIdle(k) \/ ProgramRemoveIdle(k)
  BY <1>2, <1>3 DEF ProgramConnected, ProgramRejectedIdle, ProgramRemoveIdle
<1>4. CASE \E e \in Routes : ProgramInstall(k, e, w)
  <2> PICK e \in Routes : ProgramInstall(k, e, w)
    BY <1>4
  <2>1. w \in {"ok", "refused"}
    BY DEF ProgramInstall, WriteResults
  <2> QED BY <1>2, <2>1 DEF ProgramInstall, Write, TypeOK
<1>5. CASE ProgramRejected(k, w) \/ ProgramRemove(k, w)
  BY <1>5 DEF ProgramRejected, ProgramRemove, Unprogram, TypeOK
<1> QED BY <1>3, <1>4, <1>5 DEF Program

\* Whatever the engines, reloads, crashes and refused writes do, a route that the
\* router records as programmed is the route the forwarding plane holds, as long
\* as every write that takes effect is acknowledged.
THEOREM ExportedIsForwarded ==
    ASSUME PlainStatics, "unacked" \notin Faults
    PROVE  Spec => []ExportedInKernel
<1>1. Init => ExportedInKernel
  BY DEF Init, ExportedInKernel
<1>2. ASSUME TypeOK, ExportedInKernel, [Next]_vars
      PROVE  ExportedInKernel'
  <2> SUFFICES ASSUME pc' # "down", NEW j \in Keys, exported'[j] # NoRoute
               PROVE  kernel'[j] = exported'[j]
    BY DEF ExportedInKernel
  <2>1. CASE \E k \in Keys, w \in Results : Program(k, w)
    <3> PICK k \in Keys, w \in Results : Program(k, w)
      BY <2>1
    <3>1. pc # "down"
      BY DEF Program, ProgramConnected, ProgramRejectedIdle, ProgramRemoveIdle,
             ProgramInstall, ProgramRejected, ProgramRemove, Done
    <3>2. CASE j = k
      BY <1>2, <3>2, ProgramBelief
    <3>3. CASE j # k
      BY <1>2, <3>1, <3>3, ProgramOneKey DEF ExportedInKernel
    <3> QED BY <3>2, <3>3
  <2>2. CASE \E c \in Configs, stuck \in StuckSets : Start(c, stuck)
    <3> PICK c \in Configs, stuck \in StuckSets : Start(c, stuck)
      BY <2>2
    <3>1. exported'[j] = LastStatic(c, j) /\ Seed(c, j) = LastStatic(c, j)
      BY PlainSeed DEF Start
    <3> QED BY <3>1 DEF Start
  <2>3. CASE UNCHANGED vars
    BY <1>2, <2>3 DEF vars, state, outside, ExportedInKernel
  <2>4. CASE /\ Next /\ ~\E k \in Keys, w \in Results : Program(k, w)
             /\ ~\E c \in Configs, stuck \in StuckSets : Start(c, stuck)
    BY <1>2, <2>4, BeliefUntouched DEF ExportedInKernel
  <2> QED BY <1>2, <2>1, <2>2, <2>3, <2>4
<1> QED BY <1>1, <1>2, TypeCorrect, PTL DEF Spec

----------------------------------------------------------------------------
(* Convergence *)

\* While only installs may fail, the forwarding plane is exactly what is recorded.
PlaneIsExported == pc # "down" => \A k \in Keys : kernel[k] = exported[k]

\* A change waiting to be programmed leads to the current best path, and none
\* waits outside the phases that program.
WorkIsCurrent ==
    \A k \in Keys : work[k] # NoChange =>
        work[k] = Desired(BestAt(k)) /\ pc \in {"drain", "program", "repair"}

\* A key with no failed write is settled or has its change waiting.
SettledOrWaiting ==
    pc # "down" => \A k \in Keys \ failed : work[k] = NoChange => Settled(k)

\* The inductive invariant behind Converged.
SyncInv == TypeOK /\ PlaneIsExported /\ WorkIsCurrent /\ SettledOrWaiting

\* Programming one change settles its key or queues it for the next tick.
LEMMA ProgramSettles ==
    ASSUME SyncInv, Faults \subseteq {"install"},
           NEW k \in Keys, NEW w \in Results, Program(k, w)
    PROVE  /\ kernel'[k] = exported'[k]
           /\ k \notin failed' => Settled(k)'
<1>1. Done(k)
  BY DEF Program, ProgramConnected, ProgramRejectedIdle, ProgramRemoveIdle,
         ProgramInstall, ProgramRejected, ProgramRemove
<1>2. /\ pc # "down" /\ rib' = rib
      /\ programmed_by'[k] = fib_export
      /\ work[k] = Desired(BestAt(k)) /\ kernel[k] = exported[k]
      /\ BestAt(k)' = BestAt(k)
  BY <1>1 DEF Done, SyncInv, WorkIsCurrent, PlaneIsExported, TypeOK, BestAt
<1>3. /\ work[k].op = "install" => BestAt(k) # NoRoute /\ work[k].route = BestAt(k)
      /\ work[k].op = "remove" => BestAt(k) = NoRoute
  BY <1>2, ChangesDiffer DEF Desired
<1>4. TypeOK /\ BestAt(k) \in MaybeRoutes
  BY BestAtKey DEF SyncInv
<1>5. CASE ProgramConnected(k)
  BY <1>2, <1>3, <1>5 DEF ProgramConnected, Settled, ConnectedWins
<1>6. CASE ProgramRejectedIdle(k)
  BY <1>2, <1>3, <1>6 DEF ProgramRejectedIdle, Installs, Settled, Wanted
<1>7. CASE ProgramRemoveIdle(k)
  BY <1>2, <1>3, <1>7 DEF ProgramRemoveIdle, Settled, Wanted
<1>8. CASE \E e \in Routes : ProgramInstall(k, e, w)
  <2> PICK e \in Routes : ProgramInstall(k, e, w)
    BY <1>8
  <2>1. e = fib_export[BestAt(k)] /\ BestAt(k) # NoRoute
    BY <1>3 DEF ProgramInstall, Installs
  <2>2. w \in {"ok", "refused"}
    BY DEF ProgramInstall, WriteResults
  <2>3. CASE w = "ok"
    <3>1. kernel'[k] = e /\ exported'[k] = e
      BY <1>4, <2>3 DEF ProgramInstall, Write, TypeOK
    <3> QED BY <1>2, <2>1, <3>1 DEF Settled, Wanted
  <2>4. CASE w = "refused"
    BY <1>2, <2>4 DEF ProgramInstall, Write, FailedAfter
  <2> QED BY <2>2, <2>3, <2>4
<1>9. CASE ProgramRejected(k, w) \/ ProgramRemove(k, w)
  <2>1. Unprogram(k, w) /\ w = "ok"
    BY <1>9 DEF ProgramRejected, ProgramRemove, Unprogram, WriteResults
  <2>2. kernel'[k] = NoRoute /\ exported'[k] = NoRoute
    BY <1>4, <2>1 DEF Unprogram, Write, TypeOK
  <2>3. BestAt(k) = NoRoute \/ fib_export[BestAt(k)] = NoRoute
    BY <1>3, <1>9 DEF ProgramRejected, ProgramRemove, Installs
  <2> QED BY <1>2, <2>2, <2>3 DEF Settled, Wanted
<1> QED BY <1>5, <1>6, <1>7, <1>8, <1>9 DEF Program

\* Programming keeps the invariant.
LEMMA ProgramSync ==
    ASSUME SyncInv, Faults \subseteq {"install"},
           NEW k \in Keys, NEW w \in Results, Program(k, w)
    PROVE  PlaneIsExported' /\ WorkIsCurrent' /\ SettledOrWaiting'
<1>1. Done(k)
  BY DEF Program, ProgramConnected, ProgramRejectedIdle, ProgramRemoveIdle,
         ProgramInstall, ProgramRejected, ProgramRemove
<1>2. TypeOK /\ pc \in {"program", "repair"} /\ rib' = rib /\ work'[k] = NoChange
  BY <1>1 DEF Done, SyncInv, TypeOK
<1>3. \A j \in Keys : BestAt(j)' = BestAt(j)
  BY <1>2 DEF BestAt
<1>4. ASSUME NEW j \in Keys
      PROVE  kernel'[j] = exported'[j]
  <2>1. CASE j = k
    BY <2>1, ProgramSettles
  <2>2. CASE j # k
    BY <1>2, <2>2, ProgramOneKey DEF SyncInv, PlaneIsExported
  <2> QED BY <2>1, <2>2
<1>5. ASSUME NEW j \in Keys, work'[j] # NoChange
      PROVE  work'[j] = Desired(BestAt(j))' /\ pc' \in {"drain", "program", "repair"}
  <2>1. j # k
    BY <1>2, <1>5
  <2>2. work'[j] = work[j]
    BY <1>2, <2>1, ProgramOneKey
  <2>3. work[j] = Desired(BestAt(j))
    BY <1>5, <2>2 DEF SyncInv, WorkIsCurrent
  <2>4. pc' = pc
    BY <1>1, <1>5, <2>1, <2>2 DEF Done
  <2> QED BY <1>2, <1>3, <2>2, <2>3, <2>4 DEF Desired
<1>6. ASSUME NEW j \in Keys \ failed', work'[j] = NoChange
      PROVE  Settled(j)'
  <2>1. CASE j = k
    BY <1>6, <2>1, ProgramSettles
  <2>2. CASE j # k
    <3>1. /\ j \notin failed /\ work[j] = NoChange /\ kernel'[j] = kernel[j]
          /\ programmed_by'[j] = programmed_by[j]
      BY <1>2, <1>6, <2>2, ProgramOneKey
    <3>2. Settled(j)
      BY <1>2, <3>1 DEF SyncInv, SettledOrWaiting
    <3> QED BY <1>3, <3>1, <3>2 DEF Settled, ConnectedWins, Wanted
  <2> QED BY <2>1, <2>2
<1> QED BY <1>4, <1>5, <1>6 DEF PlaneIsExported, WorkIsCurrent, SettledOrWaiting

\* Folding an update in keeps the invariant: a key whose best path moves has the
\* move waiting, and the others are as they were.
LEMMA IngestSync ==
    ASSUME SyncInv, Ingest, pc \in {"idle", "drain"}, pc' = "drain",
           UNCHANGED <<exported, failed, outside>>
    PROVE  PlaneIsExported' /\ WorkIsCurrent' /\ SettledOrWaiting'
<1>1. TypeOK /\ Head(updates) \in Messages
  BY DEF SyncInv, TypeOK, Ingest
<1> PICK k \in Keys : k = MessageKey(Head(updates))
  BY <1>1, IngestedIsList
<1>2. PICK cands \in Seq(RoutesAt(k)) : cands = Ingested(rib[k], Head(updates))
  BY <1>1, IngestedIsList
<1>3. PICK change : change = Diff(BestAt(k), Best(cands))
  OBVIOUS
<1>4. /\ rib' = [rib EXCEPT ![k] = cands]
      /\ work' = IF change = NoChange THEN work ELSE [work EXCEPT ![k] = change]
  BY <1>2, <1>3 DEF Ingest
<1>5. Best(cands) \in MaybeRoutes /\ BestAt(k) \in MaybeRoutes
  <2>1. RoutesAt(k) \in SUBSET Routes
    BY DEF RoutesAt
  <2> QED BY <1>1, <2>1, BestIsCandidate, BestAtKey DEF MaybeRoutes
<1>6. BestAt(k)' = Best(cands) /\ \A j \in Keys \ {k} : BestAt(j)' = BestAt(j)
  BY <1>1, <1>4 DEF BestAt, TypeOK
<1>7. \A j \in Keys : j # k \/ change = NoChange =>
         work'[j] = work[j] /\ BestAt(j)' = BestAt(j)
  BY <1>1, <1>3, <1>4, <1>5, <1>6, DiffIsChange DEF TypeOK
<1>8. change # NoChange => work'[k] = Desired(BestAt(k)') /\ work'[k] # NoChange
  BY <1>1, <1>3, <1>4, <1>5, <1>6, DiffIsChange DEF TypeOK
<1>9. PlaneIsExported'
  BY DEF SyncInv, PlaneIsExported, outside
<1>10. WorkIsCurrent'
  BY <1>7, <1>8 DEF SyncInv, WorkIsCurrent, Desired
<1>11. SettledOrWaiting'
  <2> SUFFICES ASSUME NEW j \in Keys \ failed, work'[j] = NoChange
               PROVE  Settled(j)'
    BY DEF SettledOrWaiting
  <2>1. work'[j] = work[j] /\ BestAt(j)' = BestAt(j)
    BY <1>7, <1>8
  <2>2. Settled(j)
    BY <2>1 DEF SyncInv, SettledOrWaiting
  <2> QED BY <2>1, <2>2 DEF Settled, ConnectedWins, Wanted, outside
<1> QED BY <1>9, <1>10, <1>11

\* Start-up establishes the invariant, whatever a previous instance left behind.
LEMMA StartSync ==
    ASSUME SyncInv, PlainStatics, Faults \subseteq {"install"},
           NEW c \in Configs, NEW stuck \in StuckSets, Start(c, stuck)
    PROVE  PlaneIsExported' /\ WorkIsCurrent' /\ SettledOrWaiting'
<1>1. stuck = {}
  BY DEF StuckSets
<1>2. work' = work /\ \A k \in Keys : work[k] = NoChange
  BY DEF Start, SyncInv, WorkIsCurrent, phase
<1>3. ASSUME NEW k \in Keys
      PROVE  /\ kernel'[k] = LastStatic(c, k) /\ exported'[k] = LastStatic(c, k)
             /\ BestAt(k)' = LastStatic(c, k)
             /\ programmed_by'[k] = c.vrf_exports
  <2>1. /\ Seed(c, k) = LastStatic(c, k) /\ FirstStatic(c, k) = LastStatic(c, k)
        /\ k \in Kept(c) => LastStatic(c, k) # NoRoute
    BY PlainSeed
  <2>2. kernel'[k] = LastStatic(c, k)
    BY <1>1, <2>1 DEF Start, Reconciled
  <2>3. BestAt(k)' = LastStatic(c, k)
    <3>1. CASE LastStatic(c, k) = NoRoute
      BY <3>1 DEF Start, BestAt, Best
    <3>2. CASE LastStatic(c, k) # NoRoute
      <4>1. LastStatic(c, k) \in Routes /\ rib'[k] = <<LastStatic(c, k)>>
        BY <3>2, StaticsOfKey DEF Start, MaybeRoutes
      <4> QED BY <4>1, BestOfOne DEF BestAt
    <3> QED BY <3>1, <3>2
  <2> QED BY <2>1, <2>2, <2>3 DEF Start
<1>4. ASSUME NEW k \in Keys
      PROVE  Settled(k)'
  <2>1. LastStatic(c, k) # NoRoute => c.vrf_exports[LastStatic(c, k)] = LastStatic(c, k)
    BY StaticsOfKey DEF PlainStatics, MaybeRoutes
  <2> QED BY <1>3, <2>1 DEF Settled, Wanted
<1> QED BY <1>2, <1>3, <1>4 DEF PlaneIsExported, WorkIsCurrent, SettledOrWaiting

\* A reload puts the moves of its best paths up for programming.
LEMMA ReloadSync ==
    ASSUME SyncInv, ReloadStatics
    PROVE  PlaneIsExported' /\ WorkIsCurrent' /\ SettledOrWaiting'
<1> DEFINE c == Head(reloads)
           next == [k \in Keys |-> LastStatic(c, k)]
           todo == [k \in Keys |-> Diff(BestAt(k), Best(Reloaded(k, next)))]
<1>1. /\ TypeOK /\ c \in Configs
      /\ rib' = [k \in Keys |-> Reloaded(k, next)] /\ work' = todo
      /\ pc = "idle" /\ pc' = (IF todo = NoWork THEN "idle" ELSE "repair")
      /\ UNCHANGED <<exported, failed, outside>>
  BY DEF ReloadStatics, SyncInv, TypeOK
<1> HIDE DEF c
<1>2. \A k \in Keys : Reloaded(k, next) \in Seq(RoutesAt(k))
  BY <1>1, ReloadedIsList
<1> HIDE DEF next
<1>3. ASSUME NEW k \in Keys
      PROVE  /\ work'[k] = NoChange => BestAt(k)' = BestAt(k)
             /\ work'[k] # NoChange => work'[k] = Desired(BestAt(k))'
  <2>1. RoutesAt(k) \in SUBSET Routes
    BY DEF RoutesAt
  <2>2. Best(Reloaded(k, next)) \in MaybeRoutes
    BY <1>2, <2>1, BestIsCandidate DEF MaybeRoutes
  <2>3. BestAt(k)' = Best(Reloaded(k, next))
    BY <1>1 DEF BestAt
  <2>4. work'[k] = Diff(BestAt(k), Best(Reloaded(k, next)))
    BY <1>1
  <2>5. BestAt(k) \in MaybeRoutes
    BY <1>1, BestAtKey
  <2> QED BY <2>2, <2>3, <2>4, <2>5, DiffIsChange DEF Desired
<1>4. work # NoWork \/ \A k \in Keys : work[k] = NoChange
  BY DEF NoWork
<1>5. \A k \in Keys : work[k] = NoChange
  BY <1>1 DEF SyncInv, WorkIsCurrent
<1>6. (\E k \in Keys : work'[k] # NoChange) => pc' = "repair"
  BY <1>1 DEF NoWork
<1> HIDE DEF todo
<1>7. PlaneIsExported'
  BY <1>1 DEF SyncInv, PlaneIsExported, outside
<1>8. WorkIsCurrent'
  BY <1>3, <1>6 DEF WorkIsCurrent, Desired
<1>9. SettledOrWaiting'
  <2> SUFFICES ASSUME NEW k \in Keys \ failed, work'[k] = NoChange
               PROVE  Settled(k)'
    BY <1>1 DEF SettledOrWaiting
  <2>1. Settled(k) /\ BestAt(k)' = BestAt(k)
    BY <1>1, <1>3, <1>5 DEF SyncInv, SettledOrWaiting
  <2> QED BY <1>1, <2>1 DEF Settled, ConnectedWins, Wanted, outside
<1> QED BY <1>7, <1>8, <1>9

\* The invariant holds in every reachable state.
LEMMA SyncStep ==
    ASSUME SyncInv, PlainStatics, Faults \subseteq {"install"}, [Next]_vars
    PROVE  SyncInv'
<1>1. TypeOK'
  BY TypeStep DEF SyncInv
<1>2. PlaneIsExported' /\ WorkIsCurrent' /\ SettledOrWaiting'
  <2>1. CASE ReceiveFirst \/ ReceiveMore
    <3>1. Ingest /\ pc \in {"idle", "drain"} /\ pc' = "drain" /\ UNCHANGED <<exported, failed, outside>>
      BY <2>1 DEF ReceiveFirst, ReceiveMore
    <3> QED BY <3>1, IngestSync
  <2>2. CASE \E k \in Keys, w \in Results : Program(k, w)
    BY <2>2, ProgramSync
  <2>3. CASE \E c \in Configs, stuck \in StuckSets : Start(c, stuck)
    BY <2>3, StartSync
  <2>4. CASE ReloadStatics
    BY <2>4, ReloadSync
  <2>5. CASE EndDrain
    <3>1. UNCHANGED <<rib, exported, failed, work, kernel, programmed_by>>
          /\ pc = "drain" /\ pc' = (IF work = NoWork THEN "idle" ELSE "program")
      BY <2>5 DEF EndDrain, state, outside
    <3>2. \A k \in Keys : BestAt(k)' = BestAt(k)
      BY <3>1 DEF BestAt
    <3>3. \A k \in Keys : Settled(k)' <=> Settled(k)
      BY <3>1, <3>2 DEF Settled, ConnectedWins, Wanted
    <3>4. (\E k \in Keys : work[k] # NoChange) => pc' = "program"
      BY <3>1 DEF NoWork
    <3> QED BY <3>1, <3>2, <3>3, <3>4
            DEF SyncInv, PlaneIsExported, WorkIsCurrent, SettledOrWaiting, Desired
  <2>6. CASE RetryFailed
    <3>1. UNCHANGED <<rib, exported, failed, kernel, programmed_by>>
          /\ pc = "idle" /\ pc' = "repair"
          /\ work' = [k \in Keys |-> IF k \in failed THEN Desired(BestAt(k)) ELSE NoChange]
      BY <2>6 DEF RetryFailed, state, outside
    <3>2. \A k \in Keys : BestAt(k)' = BestAt(k)
      BY <3>1 DEF BestAt
    <3>3. \A k \in Keys : Settled(k)' <=> Settled(k)
      BY <3>1, <3>2 DEF Settled, ConnectedWins, Wanted
    <3>4. \A k \in Keys : work[k] = NoChange
      BY <3>1 DEF SyncInv, WorkIsCurrent
    <3>5. PlaneIsExported' /\ WorkIsCurrent'
      BY <3>1, <3>2 DEF SyncInv, PlaneIsExported, WorkIsCurrent, Desired
    <3>6. SettledOrWaiting'
      BY <3>1, <3>3, <3>4 DEF SyncInv, SettledOrWaiting
    <3> QED BY <3>5, <3>6
  <2>7. CASE Crash \/ \E c \in Configs, stuck \in StuckSets, done \in SUBSET Keys : StartFails(c, stuck, done)
    <3>1. pc' = "down"
      BY <2>7 DEF Crash, StartFails
    <3>2. \A k \in Keys : work'[k] = NoChange
      BY <2>7 DEF Crash, StartFails, NoWork, phase, SyncInv, WorkIsCurrent
    <3> QED BY <3>1, <3>2 DEF PlaneIsExported, WorkIsCurrent, SettledOrWaiting
  <2>8. CASE \/ StreamStep \/ ReloadFilters \/ UNCHANGED vars
             \/ \E m \in Messages : Send(m)
             \/ \E c \in Configs : Sighup(c)
    <3>1. UNCHANGED <<rib, exported, failed, work, kernel, programmed_by>>
          /\ (pc' = "down" <=> pc = "down")
          /\ (pc \in {"drain", "program", "repair"} => pc' = pc)
      BY <2>8 DEF StreamStep, ReloadFilters, Send, Sighup, Subscribe, EndOfDump, AbortDump,
                  Read, Disconnect, DumpRoute, vars, state, phase, outside
    <3>2. \A k \in Keys : BestAt(k)' = BestAt(k)
      BY <3>1 DEF BestAt
    <3>3. \A k \in Keys : Settled(k)' <=> Settled(k)
      BY <3>1, <3>2 DEF Settled, ConnectedWins, Wanted
    <3> QED BY <3>1, <3>2, <3>3
            DEF SyncInv, PlaneIsExported, WorkIsCurrent, SettledOrWaiting, Desired
  <2> QED BY <2>1, <2>2, <2>3, <2>4, <2>5, <2>6, <2>7, <2>8 DEF Next, RouterStep, Lifecycle
<1> QED BY <1>1, <1>2 DEF SyncInv

LEMMA SyncInit == Init => SyncInv
BY InitType DEF Init, SyncInv, PlaneIsExported, WorkIsCurrent, SettledOrWaiting, NoWork

\* When removes are never refused, nothing is left in the forwarding plane that
\* the router has forgotten: across batches, reloads and restarts.
THEOREM NothingOrphaned ==
    ASSUME PlainStatics, Faults \subseteq {"install"}
    PROVE  Spec => []NoOrphans
<1>1. SyncInv => NoOrphans
  BY DEF SyncInv, PlaneIsExported, NoOrphans
<1>2. SyncInv /\ [Next]_vars => SyncInv'
  BY SyncStep
<1> QED BY <1>1, <1>2, SyncInit, PTL DEF Spec

\* Between two batches the forwarding plane holds the best path of every key with
\* no failed install: no interleaving of engines, reloads, retries and restarts
\* makes coalescing lose a change.
THEOREM ForwardingConverges ==
    ASSUME PlainStatics, Faults \subseteq {"install"}
    PROVE  Spec => []Converged
<1>1. SyncInv => Converged
  BY DEF SyncInv, WorkIsCurrent, SettledOrWaiting, Converged
<1>2. SyncInv /\ [Next]_vars => SyncInv'
  BY SyncStep
<1> QED BY <1>1, <1>2, SyncInit, PTL DEF Spec

-----------------------------------------------------------------------------
(* The router's outputs besides the forwarding plane, whatever writes      *)
(* fail: the streams of its subscribers, the static routes the next reload *)
(* is compared with, and what the redistribution targets originate.        *)


\* Every way of programming a change ends it.
LEMMA ProgramIsDone ==
    ASSUME NEW k, NEW w, Program(k, w)
    PROVE  Done(k)
BY DEF Program, ProgramConnected, ProgramRejectedIdle, ProgramRemoveIdle,
       ProgramInstall, ProgramRejected, ProgramRemove

----------------------------------------------------------------------------
(* Route-export subscribers *)

\* A stream is being replayed exactly while the router is in its dump, and none is
\* open to a router that is down.
DumpMatches ==
    /\ \A s \in Subscribers : subs[s].st = "dumping" <=> (pc = "dump" /\ dumping = s)
    /\ pc = "down" => \A s \in Subscribers : subs[s].st = "closed"

\* What a subscriber has been sent: every route after its snapshot, and during the
\* replay those that are not waiting.
SentSoFar ==
    \A s \in Subscribers, k \in Keys :
        /\ subs[s].st = "open" => subs[s].view[k] = exported[k]
        /\ subs[s].st = "dumping" =>
             subs[s].view[k] = (IF k \in undumped THEN NoRoute ELSE exported[k])

\* The inductive invariant behind SubscriberMirrors.
MirrorInv == TypeOK /\ DumpMatches /\ SentSoFar

\* A step that touches neither the streams nor what they report.
LEMMA MirrorUntouched ==
    ASSUME MirrorInv, UNCHANGED <<exported, subs, dumping, undumped>>,
           pc' = pc \/ "dump" \notin {pc, pc'},
           pc' = "down" => pc = "down"
    PROVE  DumpMatches' /\ SentSoFar'
BY DEF MirrorInv, DumpMatches, SentSoFar

\* A live event reaches every open subscriber or drops it.
LEMMA FanoutMirrors ==
    ASSUME MirrorInv, pc \notin {"dump", "down"}, pc' \notin {"dump", "down"},
           NEW k \in Keys, NEW r \in MaybeRoutes, Fanout(k, r),
           exported' = [exported EXCEPT ![k] = r]
    PROVE  DumpMatches' /\ SentSoFar'
<1>1. ASSUME NEW s \in Subscribers
      PROVE  /\ subs'[s].st # "dumping"
             /\ subs'[s].st = "open" =>
                  \A j \in Keys : subs'[s].view[j] = exported'[j]
  <2>1. subs[s] \in SubscriberState /\ subs[s].st # "dumping"
    BY DEF MirrorInv, TypeOK, DumpMatches, SubscriberState
  <2>2. subs'[s] = IF subs[s].st # "open" THEN subs[s]
                   ELSE IF subs[s].unread < SUBSCRIBER_CAP
                        THEN [subs[s] EXCEPT !.view[k] = r, !.unread = @ + 1]
                        ELSE Fresh
    BY DEF Fanout
  <2>3. CASE subs[s].st # "open"
    BY <2>1, <2>2, <2>3
  <2>4. CASE subs[s].st = "open" /\ subs[s].unread < SUBSCRIBER_CAP
    <3>1. \A j \in Keys : subs[s].view[j] = exported[j]
      BY <2>4 DEF MirrorInv, SentSoFar
    <3>2. /\ subs'[s].st = "open"
          /\ subs'[s].view = [subs[s].view EXCEPT ![k] = r]
      BY <2>1, <2>2, <2>4 DEF SubscriberState
    <3>3. /\ subs[s].view \in [Keys -> MaybeRoutes] /\ exported \in [Keys -> MaybeRoutes]
      BY <2>1 DEF SubscriberState, MirrorInv, TypeOK
    <3> QED BY <3>1, <3>2, <3>3
  <2>5. CASE subs[s].st = "open" /\ ~(subs[s].unread < SUBSCRIBER_CAP)
    BY <2>2, <2>5 DEF Fresh
  <2> QED BY <2>3, <2>4, <2>5
<1> QED BY <1>1 DEF DumpMatches, SentSoFar

\* Programming a change tells every stream what it did.
LEMMA ProgramMirrors ==
    ASSUME MirrorInv, NEW k \in Keys, NEW w \in Results, Program(k, w)
    PROVE  DumpMatches' /\ SentSoFar'
<1>1. Done(k)
  BY ProgramIsDone
<1>2. /\ pc \notin {"dump", "down"} /\ pc' \notin {"dump", "down"}
      /\ UNCHANGED <<dumping, undumped>>
  BY <1>1 DEF Done
<1>3. CASE UNCHANGED <<exported, subs>>
  BY <1>2, <1>3, MirrorUntouched
<1>4. CASE \E e \in Routes : ProgramInstall(k, e, w)
  <2> PICK e \in Routes : ProgramInstall(k, e, w)
    BY <1>4
  <2>1. CASE w = "ok"
    <3>1. exported' = [exported EXCEPT ![k] = e] /\ Fanout(k, e) /\ e \in MaybeRoutes
      BY <2>1 DEF ProgramInstall, MaybeRoutes
    <3> QED BY <1>2, <3>1, FanoutMirrors
  <2>2. CASE w # "ok"
    BY <1>3, <2>2 DEF ProgramInstall
  <2> QED BY <2>1, <2>2
<1>5. CASE ProgramRejected(k, w) \/ ProgramRemove(k, w)
  <2>1. /\ exported' = [exported EXCEPT ![k] = NoRoute] /\ Fanout(k, NoRoute)
        /\ NoRoute \in MaybeRoutes
    BY <1>5 DEF ProgramRejected, ProgramRemove, Unprogram, MaybeRoutes
  <2> QED BY <1>2, <2>1, FanoutMirrors
<1>6. CASE ProgramConnected(k) \/ ProgramRejectedIdle(k) \/ ProgramRemoveIdle(k)
  BY <1>3, <1>6 DEF ProgramConnected, ProgramRejectedIdle, ProgramRemoveIdle
<1> QED BY <1>4, <1>5, <1>6 DEF Program

\* Opening, replaying, reading and ending a stream.
LEMMA StreamMirrors ==
    ASSUME MirrorInv, StreamStep
    PROVE  DumpMatches' /\ SentSoFar'
<1> PICK s \in Subscribers :
        \/ Subscribe(s) \/ EndOfDump(s) \/ AbortDump(s) \/ Read(s) \/ Disconnect(s)
        \/ \E k \in Keys : DumpRoute(s, k)
  BY DEF StreamStep
<1>1. /\ subs \in [Subscribers -> SubscriberState] /\ subs[s] \in SubscriberState
      /\ exported \in [Keys -> MaybeRoutes] /\ exported' = exported
  BY DEF MirrorInv, TypeOK, SubscriberState, Subscribe, EndOfDump, AbortDump, Read,
         Disconnect, DumpRoute, state
<1>2. \A t \in Subscribers \ {s} : subs'[t] = subs[t]
  BY <1>1 DEF Subscribe, EndOfDump, AbortDump, Read, Disconnect, DumpRoute
<1>3. CASE Subscribe(s)
  <2>1. subs'[s].st = "dumping" /\ subs'[s].view = NoRoutes
    BY <1>1, <1>3 DEF Subscribe, Fresh
  <2>2. \A t \in Subscribers : subs[t].st # "dumping"
    BY <1>3 DEF Subscribe, MirrorInv, DumpMatches
  <2>3. /\ pc = "idle" /\ pc' = "dump" /\ dumping' = s
        /\ undumped' = {k \in Keys : exported[k] # NoRoute}
    BY <1>3 DEF Subscribe
  <2>4. \A k \in Keys : NoRoutes[k] = (IF k \in undumped' THEN NoRoute ELSE exported'[k])
    BY <1>1, <2>3 DEF NoRoutes
  <2>5. SentSoFar'
    BY <1>1, <1>2, <2>1, <2>2, <2>4 DEF SentSoFar, MirrorInv
  <2> QED BY <1>2, <2>1, <2>2, <2>3, <2>5 DEF DumpMatches
<1>4. CASE EndOfDump(s)
  <2>1. /\ pc = "dump" /\ dumping = s /\ undumped = {} /\ pc' = "idle"
        /\ undumped' = undumped
    BY <1>4 DEF EndOfDump
  <2>2. subs'[s].st = "open" /\ subs'[s].view = subs[s].view
    BY <1>1, <1>4 DEF EndOfDump, SubscriberState
  <2>3. /\ subs[s].st = "dumping"
        /\ \A t \in Subscribers \ {s} : subs[t].st # "dumping"
    BY <2>1 DEF MirrorInv, DumpMatches
  <2>4. \A k \in Keys : subs'[s].view[k] = exported'[k]
    BY <1>1, <2>1, <2>2, <2>3 DEF MirrorInv, SentSoFar
  <2>5. SentSoFar'
    BY <1>1, <1>2, <2>2, <2>3, <2>4 DEF SentSoFar, MirrorInv
  <2> QED BY <1>2, <2>1, <2>2, <2>3, <2>5 DEF DumpMatches
<1>5. CASE AbortDump(s)
  <2>1. pc = "dump" /\ dumping = s /\ pc' = "idle" /\ subs'[s] = Fresh
    BY <1>1, <1>5 DEF AbortDump
  <2>2. \A t \in Subscribers : subs'[t].st # "dumping"
    BY <1>2, <2>1 DEF MirrorInv, DumpMatches, Fresh
  <2>3. SentSoFar'
    BY <1>1, <1>2, <2>1, <2>2 DEF SentSoFar, MirrorInv, Fresh
  <2> QED BY <2>1, <2>2, <2>3 DEF DumpMatches
<1>6. CASE Read(s)
  <2>1. /\ subs'[s].st = subs[s].st /\ subs'[s].view = subs[s].view
        /\ UNCHANGED <<pc, dumping, undumped>>
    BY <1>1, <1>6 DEF Read, SubscriberState, phase
  <2>2. \A t \in Subscribers : subs'[t].st = subs[t].st /\ subs'[t].view = subs[t].view
    BY <1>2, <2>1
  <2> QED BY <1>1, <2>1, <2>2 DEF MirrorInv, DumpMatches, SentSoFar
<1>7. CASE Disconnect(s)
  <2>1. /\ subs'[s] = Fresh /\ subs[s].st = "open"
        /\ UNCHANGED <<pc, dumping, undumped>>
    BY <1>1, <1>7 DEF Disconnect, phase
  <2>2. DumpMatches'
    BY <1>2, <2>1 DEF MirrorInv, DumpMatches, Fresh
  <2>3. SentSoFar'
    BY <1>1, <1>2, <2>1 DEF MirrorInv, SentSoFar, Fresh
  <2> QED BY <2>2, <2>3
<1>8. CASE \E k \in Keys : DumpRoute(s, k)
  <2> PICK k \in Keys : DumpRoute(s, k)
    BY <1>8
  <2>1. /\ pc = "dump" /\ dumping = s /\ undumped' = undumped \ {k} /\ k \in undumped
        /\ UNCHANGED <<pc, dumping>>
    BY DEF DumpRoute
  <2>2. subs'[s].st = subs[s].st /\ subs'[s].view = [subs[s].view EXCEPT ![k] = exported[k]]
    BY <1>1 DEF DumpRoute, SubscriberState
  <2>3. /\ subs[s].st = "dumping"
        /\ \A t \in Subscribers \ {s} : subs[t].st # "dumping"
    BY <2>1 DEF MirrorInv, DumpMatches
  <2>4. \A j \in Keys : subs[s].view[j] = (IF j \in undumped THEN NoRoute ELSE exported[j])
    BY <2>3 DEF MirrorInv, SentSoFar
  <2>5. subs[s].view \in [Keys -> MaybeRoutes]
    BY <1>1 DEF SubscriberState
  <2>6. \A j \in Keys : subs'[s].view[j] = (IF j \in undumped' THEN NoRoute ELSE exported'[j])
    BY <1>1, <2>1, <2>2, <2>4, <2>5
  <2>7. SentSoFar'
    <3> SUFFICES ASSUME NEW t \in Subscribers, NEW j \in Keys
                 PROVE  /\ subs'[t].st = "open" => subs'[t].view[j] = exported'[j]
                        /\ subs'[t].st = "dumping" =>
                             subs'[t].view[j] = (IF j \in undumped' THEN NoRoute ELSE exported'[j])
      BY DEF SentSoFar
    <3>1. CASE t = s
      BY <2>2, <2>3, <2>6, <3>1
    <3>2. CASE t # s
      <4>1. subs'[t] = subs[t] /\ subs[t].st # "dumping"
        BY <1>2, <2>3, <3>2
      <4> QED BY <1>1, <4>1 DEF MirrorInv, SentSoFar
    <3> QED BY <3>1, <3>2
  <2>8. DumpMatches'
    BY <1>2, <2>1, <2>2, <2>3 DEF MirrorInv, DumpMatches
  <2> QED BY <2>7, <2>8
<1> QED BY <1>3, <1>4, <1>5, <1>6, <1>7, <1>8

LEMMA MirrorStep == MirrorInv /\ [Next]_vars => MirrorInv'
<1> SUFFICES ASSUME MirrorInv, [Next]_vars PROVE MirrorInv'
  OBVIOUS
<1>1. TypeOK'
  BY TypeStep DEF MirrorInv
<1>2. DumpMatches' /\ SentSoFar'
  <2>1. CASE \E k \in Keys, w \in Results : Program(k, w)
    BY <2>1, ProgramMirrors
  <2>2. CASE StreamStep
    BY <2>2, StreamMirrors
  <2>3. CASE Crash
    BY <2>3 DEF Crash, DumpMatches, SentSoFar, Fresh
  <2>4. CASE \E c \in Configs, stuck \in StuckSets : Start(c, stuck)
    <3>1. /\ pc = "down" /\ pc' = "idle"
          /\ UNCHANGED <<subs, dumping, undumped>>
      BY <2>4 DEF Start, phase
    <3>2. \A s \in Subscribers : subs'[s].st = "closed"
      BY <3>1 DEF MirrorInv, DumpMatches
    <3> QED BY <3>1, <3>2 DEF DumpMatches, SentSoFar
  <2>5. CASE \/ ReceiveFirst \/ ReceiveMore \/ EndDrain \/ ReloadStatics \/ ReloadFilters
             \/ RetryFailed \/ UNCHANGED vars
             \/ \E c \in Configs, stuck \in StuckSets, done \in SUBSET Keys :
                  StartFails(c, stuck, done)
             \/ \E m \in Messages : Send(m)
             \/ \E c \in Configs : Sighup(c)
    <3>1. /\ UNCHANGED <<exported, subs, dumping, undumped>>
          /\ pc' = pc \/ "dump" \notin {pc, pc'}
          /\ pc' = "down" => pc = "down"
      BY <2>5 DEF ReceiveFirst, ReceiveMore, EndDrain, ReloadStatics, ReloadFilters,
                  RetryFailed, StartFails, Send, Sighup, vars, state, phase, outside
    <3> QED BY <3>1, MirrorUntouched
  <2> QED BY <2>1, <2>2, <2>3, <2>4, <2>5 DEF Next, RouterStep, Lifecycle
<1> QED BY <1>1, <1>2 DEF MirrorInv

\* Once its snapshot is complete, a subscriber that keeps up has exactly the routes
\* the router has programmed, whatever arrives during the replay, however often it
\* comes back and whichever writes fail (subscribe_routes, fanout).
THEOREM StreamsMirror == Spec => []SubscriberMirrors
<1>1. Init => MirrorInv
  BY InitType DEF Init, MirrorInv, DumpMatches, SentSoFar, Fresh
<1>2. MirrorInv => SubscriberMirrors
  <2> SUFFICES ASSUME MirrorInv, NEW s \in Subscribers, subs[s].st = "open"
               PROVE  subs[s].view = exported
    BY DEF SubscriberMirrors
  <2>1. subs[s].view \in [Keys -> MaybeRoutes] /\ exported \in [Keys -> MaybeRoutes]
    BY DEF MirrorInv, TypeOK
  <2>2. \A k \in Keys : subs[s].view[k] = exported[k]
    BY DEF MirrorInv, SentSoFar
  <2> QED BY <2>1, <2>2
<1> QED BY <1>1, <1>2, MirrorStep, PTL DEF Spec

----------------------------------------------------------------------------
(* The static routes the next reload is compared with *)

\* A candidate list with one route per owner whose static route is cur, if any.
Tracks(cands, cur) ==
    /\ OwnersUniqueIn(cands)
    /\ \A x : Holds(cands, x) /\ x.protocol = "static" <=> x = cur /\ cur # NoRoute

\* Every static route wren handles belongs to one owner.
OneStaticOwner ==
    \A k \in Keys : current_statics[k] # NoRoute => Owner(current_statics[k]) = StaticOwner

\* The inductive invariant behind StaticsTracked.
TrackInv ==
    TypeOK /\ OneStaticOwner /\ \A k \in Keys : Tracks(rib[k], current_statics[k])

\* An engine's route replaces, and an engine's withdrawal removes, no static route.
LEMMA EngineTracks ==
    ASSUME NEW cands \in Seq(Routes), NEW cur, Tracks(cands, cur)
    PROVE  /\ \A r \in Routes : r.protocol # "static" => Tracks(Announced(cands, r), cur)
           /\ \A r \in Routes : r.protocol # "static" => Tracks(Withdrawn(cands, Owner(r)), cur)
<1> SUFFICES ASSUME NEW r \in Routes, r.protocol # "static"
             PROVE  Tracks(Announced(cands, r), cur) /\ Tracks(Withdrawn(cands, Owner(r)), cur)
  OBVIOUS
<1>1. OwnersUniqueIn(cands) /\ \A x : x.protocol = "static" => Owner(x) # Owner(r)
  BY DEF Tracks, Owner
<1>2. /\ OwnersUniqueIn(Announced(cands, r))
      /\ \A x : Holds(Announced(cands, r), x)
                   <=> x = r \/ (Holds(cands, x) /\ Owner(x) # Owner(r))
  BY <1>1, AnnouncedHolds
<1>3. /\ OwnersUniqueIn(Withdrawn(cands, Owner(r)))
      /\ \A x : Holds(Withdrawn(cands, Owner(r)), x) <=> Holds(cands, x) /\ Owner(x) # Owner(r)
  BY <1>1, WithdrawnHolds
<1> QED BY <1>1, <1>2, <1>3 DEF Tracks

\* A reload leaves exactly the static route of the new configuration.
LEMMA ReloadTracks ==
    ASSUME TrackInv, NEW k \in Keys, NEW next \in [Keys -> MaybeRoutes],
           next[k] # NoRoute => Owner(next[k]) = StaticOwner
    PROVE  Tracks(Reloaded(k, next), next[k])
<1>1. /\ rib[k] \in Seq(Routes) /\ Tracks(rib[k], current_statics[k])
      /\ OwnersUniqueIn(rib[k])
      /\ current_statics[k] # NoRoute => Owner(current_statics[k]) = StaticOwner
  BY DEF TrackInv, TypeOK, Tracks, OneStaticOwner
<1>2. CASE next[k] = current_statics[k]
  BY <1>1, <1>2 DEF Reloaded
<1>3. CASE next[k] # current_statics[k] /\ next[k] = NoRoute
  <2>1. Reloaded(k, next) = Withdrawn(rib[k], StaticOwner)
    BY <1>3 DEF Reloaded
  <2>2. /\ OwnersUniqueIn(Withdrawn(rib[k], StaticOwner))
        /\ \A x : Holds(Withdrawn(rib[k], StaticOwner), x)
                     <=> Holds(rib[k], x) /\ Owner(x) # StaticOwner
    BY <1>1, WithdrawnHolds
  <2> QED BY <1>1, <1>3, <2>1, <2>2 DEF Tracks
<1>4. CASE next[k] # current_statics[k] /\ next[k] # NoRoute
  <2>1. /\ Reloaded(k, next) = Announced(rib[k], next[k]) /\ next[k] \in Routes
        /\ Owner(next[k]) = StaticOwner /\ next[k].protocol = "static"
    BY <1>4 DEF Reloaded, MaybeRoutes, Owner, StaticOwner
  <2>2. /\ OwnersUniqueIn(Announced(rib[k], next[k]))
        /\ \A x : Holds(Announced(rib[k], next[k]), x)
                     <=> x = next[k] \/ (Holds(rib[k], x) /\ Owner(x) # Owner(next[k]))
    BY <1>1, <2>1, AnnouncedHolds
  <2> QED BY <1>1, <1>4, <2>1, <2>2 DEF Tracks
<1> QED BY <1>2, <1>3, <1>4

\* The static route of a key in a configuration belongs to the one static owner.
LEMMA LastStaticOwner ==
    ASSUME NEW c \in Configs, NEW k \in Keys, LastStatic(c, k) # NoRoute
    PROVE  Owner(LastStatic(c, k)) = StaticOwner
<1> DEFINE i == Newest(AdmittedAt(c, k))
<1>1. /\ DOMAIN c.statics = 1 .. Len(c.statics) /\ Len(c.statics) \in Nat
      /\ AdmittedAt(c, k) \in SUBSET (0 .. Len(c.statics)) /\ AdmittedAt(c, k) # {}
  BY ConfigFilters DEF AdmittedAt, LastStatic
<1>2. i \in AdmittedAt(c, k)
  BY <1>1, NewestExists
<1> HIDE DEF i
<1>3. i \in 1 .. Len(c.statics) /\ c.vrf_imports[c.statics[i]] # NoRoute
  BY <1>1, <1>2 DEF AdmittedAt
<1>4. c.statics[i] \in {r \in Routes : r.protocol = "static"}
  <2>1. c.statics \in Seq({r \in Routes : r.protocol = "static"})
    BY ConfigFilters
  <2> QED BY <1>3, <2>1
<1>5. Owner(c.statics[i]) = StaticOwner
  BY <1>1, <1>3, <1>4, ConfigFilters DEF Owner, StaticOwner
<1>6. Owner(c.vrf_imports[c.statics[i]]) = Owner(c.statics[i])
  BY <1>3, <1>4, ConfigFilters DEF KeepsIdentity
<1>7. LastStatic(c, k) = c.vrf_imports[c.statics[i]]
  BY <1>1 DEF LastStatic, i
<1> QED BY <1>5, <1>6, <1>7

\* Folding an engine's update in touches no static route.
LEMMA IngestTracks ==
    ASSUME TrackInv, Ingest, NEW k \in Keys
    PROVE  Tracks(rib'[k], current_statics[k])
<1>1. TypeOK /\ Head(updates) \in Messages
  BY DEF TrackInv, TypeOK, Ingest
<1> PICK m \in Messages : m = Head(updates)
  BY <1>1
<1>2. MessageKey(m) \in Keys /\ rib' = [rib EXCEPT ![MessageKey(m)] = Ingested(rib[MessageKey(m)], m)]
  BY <1>1, IngestedIsList DEF Ingest
<1>3. rib \in [Keys -> Seq(Routes)] /\ rib[k] \in Seq(Routes) /\ Tracks(rib[k], current_statics[k])
  BY DEF TrackInv, TypeOK
<1>4. CASE k # MessageKey(m)
  BY <1>2, <1>3, <1>4
<1>5. CASE k = MessageKey(m)
  <2>1. rib'[k] = Ingested(rib[k], m)
    BY <1>2, <1>3, <1>5
  <2>2. CASE m.op = "withdraw"
    <3>1. PICK r \in EngineRoutes : m.owner = Owner(r)
      BY <2>2 DEF Messages
    <3>2. r \in Routes /\ r.protocol # "static"
      BY EngineAssumption
    <3>3. Ingested(rib[k], m) = Withdrawn(rib[k], Owner(r))
      BY <2>2, <3>1 DEF Ingested
    <3> QED BY <1>3, <2>1, <3>2, <3>3, EngineTracks
  <2>3. CASE m.op # "withdraw"
    <3>1. m.route \in Routes /\ m.route.protocol # "static"
      BY <2>3, EngineAssumption DEF Messages
    <3>2. CASE imports[m.route] = NoRoute
      <4>1. Ingested(rib[k], m) = Withdrawn(rib[k], Owner(m.route))
        BY <2>3, <3>2 DEF Ingested
      <4> QED BY <1>3, <2>1, <3>1, <4>1, EngineTracks
    <3>3. CASE imports[m.route] # NoRoute
      <4>1. imports \in Filters /\ KeepsIdentity(imports)
        BY <1>1, FiltersInForce
      <4>2. imports[m.route] \in Routes /\ Owner(imports[m.route]) = Owner(m.route)
        BY <3>1, <3>3, <4>1 DEF Filters, KeepsIdentity
      <4>3. imports[m.route].protocol # "static"
        BY <3>1, <4>2 DEF Owner
      <4>4. Ingested(rib[k], m) = Announced(rib[k], imports[m.route])
        BY <2>3, <3>3 DEF Ingested
      <4> QED BY <1>3, <2>1, <4>2, <4>3, <4>4, EngineTracks
    <3> QED BY <3>2, <3>3
  <2> QED BY <2>2, <2>3
<1> QED BY <1>4, <1>5

\* The empty list, and a list of one static route.
LEMMA FewTracks ==
    /\ Tracks(<<>>, NoRoute)
    /\ \A r \in Routes : r.protocol = "static" => Tracks(<<r>>, r)
<1>1. Tracks(<<>>, NoRoute)
  BY DEF Tracks, Holds, OwnersUniqueIn
<1>2. ASSUME NEW r \in Routes, r.protocol = "static"
      PROVE  Tracks(<<r>>, r)
  <2>1. DOMAIN <<r>> = {1} /\ <<r>>[1] = r
    OBVIOUS
  <2> QED BY <1>2, <2>1, NoRouteAssumption DEF Tracks, Holds, OwnersUniqueIn
<1> QED BY <1>1, <1>2

LEMMA TrackStep == TrackInv /\ [Next]_vars => TrackInv'
<1> SUFFICES ASSUME TrackInv, [Next]_vars PROVE TrackInv'
  OBVIOUS
<1>1. TypeOK /\ TypeOK'
  BY TypeStep DEF TrackInv
<1>2. OneStaticOwner' /\ \A k \in Keys : Tracks(rib[k], current_statics[k])'
  <2>1. CASE ReceiveFirst \/ ReceiveMore
    <3>1. Ingest /\ current_statics' = current_statics
      BY <2>1 DEF ReceiveFirst, ReceiveMore
    <3> QED BY <3>1, IngestTracks DEF TrackInv, OneStaticOwner
  <2>2. CASE ReloadStatics
    <3> DEFINE c == Head(reloads)
               next == [k \in Keys |-> LastStatic(c, k)]
    <3>1. /\ c \in Configs /\ rib' = [k \in Keys |-> Reloaded(k, next)]
          /\ current_statics' = next
      BY <1>1, <2>2 DEF ReloadStatics, TypeOK
    <3> HIDE DEF c
    <3>2. \A k \in Keys : /\ next[k] \in MaybeRoutes
                          /\ next[k] # NoRoute => Owner(next[k]) = StaticOwner
      BY <3>1, StaticsOfKey, LastStaticOwner
    <3>3. next \in [Keys -> MaybeRoutes]
      BY <3>2
    <3> HIDE DEF next
    <3> QED BY <3>1, <3>2, <3>3, ReloadTracks DEF OneStaticOwner
  <2>3. CASE \E c \in Configs, stuck \in StuckSets : Start(c, stuck)
    <3> PICK c \in Configs, stuck \in StuckSets : Start(c, stuck)
      BY <2>3
    <3>1. ASSUME NEW k \in Keys
          PROVE  /\ current_statics'[k] # NoRoute => Owner(current_statics'[k]) = StaticOwner
                 /\ Tracks(rib'[k], current_statics'[k])
      <4>1. /\ current_statics'[k] = LastStatic(c, k)
            /\ rib'[k] = IF LastStatic(c, k) = NoRoute THEN <<>> ELSE <<LastStatic(c, k)>>
        BY DEF Start
      <4>2. CASE LastStatic(c, k) = NoRoute
        BY <4>1, <4>2, FewTracks
      <4>3. CASE LastStatic(c, k) # NoRoute
        <5>1. LastStatic(c, k) \in Routes /\ Owner(LastStatic(c, k)) = StaticOwner
          BY <4>3, StaticsOfKey, LastStaticOwner DEF MaybeRoutes
        <5>2. LastStatic(c, k).protocol = "static"
          BY <5>1 DEF Owner, StaticOwner
        <5> QED BY <4>1, <4>3, <5>1, <5>2, FewTracks
      <4> QED BY <4>2, <4>3
    <3> QED BY <3>1 DEF OneStaticOwner
  <2>4. CASE Crash
    <3>1. \A k \in Keys : rib'[k] = <<>> /\ current_statics'[k] = NoRoute
      BY <2>4 DEF Crash, NoRoutes
    <3> QED BY <3>1, FewTracks DEF OneStaticOwner
  <2>5. CASE \E k \in Keys, w \in Results : Program(k, w)
    <3>1. UNCHANGED <<rib, current_statics>>
      BY <2>5, ProgramIsDone DEF Done
    <3> QED BY <3>1 DEF TrackInv, OneStaticOwner
  <2>6. CASE \/ EndDrain \/ ReloadFilters \/ RetryFailed \/ StreamStep \/ UNCHANGED vars
             \/ \E c \in Configs, stuck \in StuckSets, done \in SUBSET Keys :
                  StartFails(c, stuck, done)
             \/ \E m \in Messages : Send(m)
             \/ \E c \in Configs : Sighup(c)
    <3>1. UNCHANGED <<rib, current_statics>>
      BY <2>6 DEF EndDrain, ReloadFilters, RetryFailed, StreamStep, Subscribe, EndOfDump,
                  AbortDump, Read, Disconnect, DumpRoute, StartFails, Send, Sighup, vars, state
    <3> QED BY <3>1 DEF TrackInv, OneStaticOwner
  <2> QED BY <2>1, <2>2, <2>3, <2>4, <2>5, <2>6 DEF Next, RouterStep, Lifecycle
<1> QED BY <1>1, <1>2 DEF TrackInv

\* The RIB holds one route per key and owner, and of each key's static routes
\* exactly the one `current_statics` names: no order of engine updates, rejected
\* announcements, reloads and restarts leaves a static route that a later reload
\* cannot find, or loses one (ingest, reload_statics).
THEOREM StaticsStayTracked == Spec => []StaticsTracked
<1>1. Init => TrackInv
  <2> SUFFICES ASSUME Init PROVE TrackInv
    OBVIOUS
  <2>1. \A k \in Keys : rib[k] = <<>> /\ current_statics[k] = NoRoute
    BY DEF Init, NoRoutes
  <2> QED BY <2>1, InitType, FewTracks DEF TrackInv, OneStaticOwner
<1>2. TrackInv => StaticsTracked
  <2> SUFFICES ASSUME TrackInv, NEW k \in Keys
               PROVE  /\ OwnersUniqueIn(rib[k])
                      /\ {rib[k][i] : i \in {j \in DOMAIN rib[k] : rib[k][j].protocol = "static"}}
                           = {current_statics[k]} \ {NoRoute}
    BY DEF StaticsTracked
  <2>1. Tracks(rib[k], current_statics[k])
    BY DEF TrackInv
  <2> QED BY <2>1 DEF Tracks, Holds
<1> QED BY <1>1, <1>2, TrackStep, PTL DEF Spec

----------------------------------------------------------------------------
(* Redistribution *)

\* Redistribution messages name a prefix and no table.
OneTable == \A a, b \in Tables : a = b

\* Reloads that leave the static routes alone: reload_statics does not redistribute
\* (README.md shows what that does to a redistributed static).
SameStatics ==
    \A c, d \in Configs, k \in Keys : LastStatic(c, k) = LastStatic(d, k)

StaticsFixed ==
    pc # "down" => \A c \in Configs, k \in Keys : current_statics[k] = LastStatic(c, k)

\* A target has heard of the best path of every key without a change waiting; a
\* repair has nothing new to tell.
OriginCurrent ==
    pc # "down" =>
        \A t \in Targets, k \in Keys : work[k] = NoChange \/ pc = "repair" =>
            origin[t][k[2]] = Redistributed(t, Desired(BestAt(k)))

\* The inductive invariant behind RedistCurrent.
RedistInv == TypeOK /\ WorkIsCurrent /\ StaticsFixed /\ OriginCurrent

\* With one table a prefix is a key.
LEMMA PrefixIsKey ==
    ASSUME OneTable, NEW j \in Keys, NEW k \in Keys, j # k
    PROVE  j[2] # k[2] /\ j[2] \in Prefixes
BY DEF OneTable, Keys

\* Programming a change in a batch tells every target its new best path.
LEMMA ProgramRedist ==
    ASSUME RedistInv, OneTable, NEW k \in Keys, NEW w \in Results, Program(k, w)
    PROVE  WorkIsCurrent' /\ StaticsFixed' /\ OriginCurrent'
<1>1. Done(k)
  BY ProgramIsDone
<1>2. /\ TypeOK /\ pc \in {"program", "repair"} /\ rib' = rib /\ work'[k] = NoChange
      /\ current_statics' = current_statics /\ pc' \in {pc, "idle"}
      /\ work[k] = Desired(BestAt(k)) /\ work \in [Keys -> Changes]
  BY <1>1 DEF Done, RedistInv, TypeOK, WorkIsCurrent
<1>3. \A j \in Keys : BestAt(j)' = BestAt(j)
  BY <1>2 DEF BestAt
<1>4. \A j \in Keys \ {k} : work'[j] = work[j]
  BY <1>1, <1>2 DEF Done
<1>5. ASSUME NEW j \in Keys, work'[j] # NoChange
      PROVE  work'[j] = Desired(BestAt(j))' /\ pc' \in {"drain", "program", "repair"}
  <2>1. j # k /\ work'[j] = work[j]
    BY <1>2, <1>4, <1>5
  <2>2. work[j] = Desired(BestAt(j))
    BY <1>5, <2>1 DEF RedistInv, WorkIsCurrent
  <2>3. pc' = pc
    BY <1>1, <1>5, <2>1 DEF Done
  <2> QED BY <1>2, <1>3, <2>1, <2>2, <2>3 DEF Desired
<1>6. ASSUME NEW t \in Targets, NEW j \in Keys, work'[j] = NoChange \/ pc' = "repair"
      PROVE  origin'[t][j[2]] = Redistributed(t, Desired(BestAt(j)))
  <2>1. origin[t] \in [Prefixes -> MaybeRoutes] /\ k[2] \in Prefixes /\ j[2] \in Prefixes
    BY <1>2 DEF TypeOK, Keys
  <2>2. CASE pc = "repair"
    BY <1>1, <2>2 DEF Done, RedistInv, OriginCurrent
  <2>3. CASE pc = "program"
    <3>1. origin'[t] = [origin[t] EXCEPT ![k[2]] = Redistributed(t, work[k])]
      BY <1>1, <2>3 DEF Done, Redistribute
    <3>2. CASE j = k
      BY <1>2, <2>1, <3>1, <3>2
    <3>3. CASE j # k
      <4>1. work[j] = NoChange
        BY <1>2, <1>4, <1>6, <2>3, <3>3
      <4>2. origin[t][j[2]] = Redistributed(t, Desired(BestAt(j)))
        BY <1>2, <4>1 DEF RedistInv, OriginCurrent
      <4>3. j[2] # k[2]
        BY <3>3, PrefixIsKey
      <4> QED BY <2>1, <3>1, <4>2, <4>3
    <3> QED BY <3>2, <3>3
  <2> QED BY <1>2, <2>2, <2>3
<1>7. OriginCurrent'
  <2> SUFFICES ASSUME NEW t \in Targets, NEW j \in Keys, work'[j] = NoChange \/ pc' = "repair"
               PROVE  origin'[t][j[2]] = Redistributed(t, Desired(BestAt(j)))'
    BY DEF OriginCurrent
  <2> QED BY <1>3, <1>6 DEF Redistributed, Desired
<1>8. StaticsFixed'
  BY <1>2 DEF RedistInv, StaticsFixed
<1> QED BY <1>5, <1>7, <1>8 DEF WorkIsCurrent

\* Folding an update in: a key whose best path moves has the move waiting.
LEMMA IngestRedist ==
    ASSUME RedistInv, Ingest, pc \in {"idle", "drain"}, pc' = "drain",
           UNCHANGED <<current_statics, origin>>
    PROVE  WorkIsCurrent' /\ StaticsFixed' /\ OriginCurrent'
<1>1. TypeOK /\ Head(updates) \in Messages
  BY DEF RedistInv, TypeOK, Ingest
<1> PICK k \in Keys : k = MessageKey(Head(updates))
  BY <1>1, IngestedIsList
<1>2. PICK cands \in Seq(RoutesAt(k)) : cands = Ingested(rib[k], Head(updates))
  BY <1>1, IngestedIsList
<1>3. PICK change : change = Diff(BestAt(k), Best(cands))
  OBVIOUS
<1>4. /\ rib' = [rib EXCEPT ![k] = cands]
      /\ work' = IF change = NoChange THEN work ELSE [work EXCEPT ![k] = change]
  BY <1>2, <1>3 DEF Ingest
<1>5. Best(cands) \in MaybeRoutes /\ BestAt(k) \in MaybeRoutes
  <2>1. RoutesAt(k) \in SUBSET Routes
    BY DEF RoutesAt
  <2> QED BY <1>1, <2>1, BestIsCandidate, BestAtKey DEF MaybeRoutes
<1>6. BestAt(k)' = Best(cands) /\ \A j \in Keys \ {k} : BestAt(j)' = BestAt(j)
  BY <1>1, <1>4 DEF BestAt, TypeOK
<1>7. \A j \in Keys : j # k \/ change = NoChange =>
         work'[j] = work[j] /\ BestAt(j)' = BestAt(j)
  BY <1>1, <1>3, <1>4, <1>5, <1>6, DiffIsChange DEF TypeOK
<1>8. change # NoChange => work'[k] = Desired(BestAt(k)') /\ work'[k] # NoChange
  BY <1>1, <1>3, <1>4, <1>5, <1>6, DiffIsChange DEF TypeOK
<1>9. WorkIsCurrent'
  BY <1>7, <1>8 DEF RedistInv, WorkIsCurrent, Desired
<1>10. OriginCurrent'
  <2> SUFFICES ASSUME NEW t \in Targets, NEW j \in Keys, work'[j] = NoChange
               PROVE  origin'[t][j[2]] = Redistributed(t, Desired(BestAt(j)))'
    BY DEF OriginCurrent
  <2>1. work[j] = NoChange /\ BestAt(j)' = BestAt(j)
    BY <1>7, <1>8
  <2>2. origin[t][j[2]] = Redistributed(t, Desired(BestAt(j)))
    BY <2>1 DEF RedistInv, OriginCurrent
  <2> QED BY <2>1, <2>2 DEF Redistributed, Desired
<1>11. StaticsFixed'
  BY DEF RedistInv, StaticsFixed
<1> QED BY <1>9, <1>10, <1>11

\* redistribute_seed tells every target the statics that start-up announced.
LEMMA StartRedist ==
    ASSUME RedistInv, OneTable, SameStatics,
           NEW c \in Configs, NEW stuck \in StuckSets, Start(c, stuck)
    PROVE  WorkIsCurrent' /\ StaticsFixed' /\ OriginCurrent'
<1>1. work' = work /\ \A k \in Keys : work[k] = NoChange
  BY DEF Start, RedistInv, WorkIsCurrent, phase
<1>2. ASSUME NEW k \in Keys
      PROVE  BestAt(k)' = LastStatic(c, k)
  <2>1. CASE LastStatic(c, k) = NoRoute
    BY <2>1 DEF Start, BestAt, Best
  <2>2. CASE LastStatic(c, k) # NoRoute
    <3>1. LastStatic(c, k) \in Routes /\ rib'[k] = <<LastStatic(c, k)>>
      BY <2>2, StaticsOfKey DEF Start, MaybeRoutes
    <3> QED BY <3>1, BestOfOne DEF BestAt
  <2> QED BY <2>1, <2>2
<1>3. ASSUME NEW t \in Targets, NEW tb \in Tables, NEW p \in Prefixes
      PROVE  SeededOrigin(c, t, p) = Redistributed(t, Desired(LastStatic(c, <<tb, p>>)))
  <2> DEFINE holders == {a \in Tables : LastStatic(c, <<a, p>>) # NoRoute}
  <2>1. CASE LastStatic(c, <<tb, p>>) = NoRoute
    <3>1. holders = {}
      BY <2>1 DEF OneTable
    <3>2. SeededOrigin(c, t, p) = NoRoute
      BY <3>1 DEF SeededOrigin
    <3>3. Redistributed(t, Remove) = NoRoute
      BY ChangesDiffer DEF Redistributed
    <3> QED BY <2>1, <3>2, <3>3 DEF Desired
  <2>2. CASE LastStatic(c, <<tb, p>>) # NoRoute
    <3>1. holders = {tb}
      BY <2>2 DEF OneTable
    <3>2. tb \in Nat
      BY TablesAssumption, MaxU32Assumption
    <3>3. Newest({tb}) = tb
      BY <3>2 DEF Newest
    <3>4. SeededOrigin(c, t, p) = Redistributed(t, Install(LastStatic(c, <<tb, p>>)))
      BY <3>1, <3>3 DEF SeededOrigin
    <3> QED BY <2>2, <3>4 DEF Desired
  <2> QED BY <2>1, <2>2
<1>4. ASSUME NEW t \in Targets, NEW k \in Keys
      PROVE  origin'[t][k[2]] = Redistributed(t, Desired(BestAt(k)))'
  <2>1. PICK tb \in Tables, p \in Prefixes : k = <<tb, p>> /\ k[2] = p
    BY DEF Keys
  <2>2. origin'[t][p] = SeededOrigin(c, t, p)
    BY DEF Start
  <2>3. origin'[t][k[2]] = Redistributed(t, Desired(LastStatic(c, k)))
    BY <1>3, <2>1, <2>2
  <2> QED BY <1>2, <2>3 DEF Redistributed, Desired
<1>5. StaticsFixed'
  BY DEF Start, StaticsFixed, SameStatics
<1> QED BY <1>1, <1>4, <1>5 DEF WorkIsCurrent, OriginCurrent

\* A reload that leaves the static routes alone moves no best path.
LEMMA ReloadRedist ==
    ASSUME RedistInv, SameStatics, ReloadStatics
    PROVE  UNCHANGED <<rib, current_statics, origin>> /\ pc' = pc /\ work' = NoWork
<1> DEFINE c == Head(reloads)
           next == [k \in Keys |-> LastStatic(c, k)]
           todo == [k \in Keys |-> Diff(BestAt(k), Best(Reloaded(k, next)))]
<1>1. /\ TypeOK /\ c \in Configs
      /\ rib' = [k \in Keys |-> Reloaded(k, next)] /\ work' = todo
      /\ current_statics' = next
      /\ pc = "idle" /\ pc' = (IF todo = NoWork THEN "idle" ELSE "repair")
      /\ origin' = origin
  BY DEF ReloadStatics, RedistInv, TypeOK, outside
<1> HIDE DEF c
<1>2. \A k \in Keys : next[k] = current_statics[k]
  BY <1>1 DEF RedistInv, StaticsFixed
<1>3. next = current_statics
  BY <1>1, <1>2 DEF TypeOK
<1> HIDE DEF next
<1>4. \A k \in Keys : Reloaded(k, next) = rib[k]
  BY <1>2 DEF Reloaded
<1>5. rib' = rib
  BY <1>1, <1>4 DEF TypeOK
<1>6. todo = NoWork
  BY <1>4 DEF NoWork, Diff, BestAt
<1> HIDE DEF todo
<1> QED BY <1>1, <1>3, <1>5, <1>6

\* A step that moves no best path and leaves waiting changes waiting.
LEMMA RedistUntouched ==
    ASSUME RedistInv, UNCHANGED <<rib, current_statics, origin>>,
           \A k \in Keys : work'[k] = work[k] \/ (pc = "idle" /\ work'[k] = NoChange),
           pc' = "down" <=> pc = "down",
           pc' = "repair" => pc = "repair",
           pc \in {"drain", "program", "repair"} =>
               pc' \in {"drain", "program", "repair"} \/ work = NoWork
    PROVE  WorkIsCurrent' /\ StaticsFixed' /\ OriginCurrent'
<1>1. \A k \in Keys : BestAt(k)' = BestAt(k)
  BY DEF BestAt
<1>2. pc = "idle" => \A k \in Keys : work[k] = NoChange
  BY DEF RedistInv, WorkIsCurrent
<1>3. WorkIsCurrent'
  BY <1>1, <1>2 DEF RedistInv, WorkIsCurrent, NoWork, Desired
<1>4. StaticsFixed'
  BY DEF RedistInv, StaticsFixed
<1>5. OriginCurrent'
  <2> SUFFICES ASSUME pc' # "down", NEW t \in Targets, NEW k \in Keys,
                      work'[k] = NoChange \/ pc' = "repair"
               PROVE  origin'[t][k[2]] = Redistributed(t, Desired(BestAt(k)))'
    BY DEF OriginCurrent
  <2>1. pc # "down" /\ (work[k] = NoChange \/ pc = "repair")
    BY <1>2
  <2>2. origin[t][k[2]] = Redistributed(t, Desired(BestAt(k)))
    BY <2>1 DEF RedistInv, OriginCurrent
  <2> QED BY <1>1, <2>2 DEF Redistributed, Desired
<1> QED BY <1>3, <1>4, <1>5

LEMMA RedistStep ==
    ASSUME RedistInv, OneTable, SameStatics, [Next]_vars
    PROVE  RedistInv'
<1>1. TypeOK'
  BY TypeStep DEF RedistInv
<1>2. WorkIsCurrent' /\ StaticsFixed' /\ OriginCurrent'
  <2>1. CASE ReceiveFirst \/ ReceiveMore
    <3>1. /\ Ingest /\ pc \in {"idle", "drain"} /\ pc' = "drain"
          /\ UNCHANGED <<current_statics, origin>>
      BY <2>1 DEF ReceiveFirst, ReceiveMore, outside
    <3> QED BY <3>1, IngestRedist
  <2>2. CASE \E k \in Keys, w \in Results : Program(k, w)
    BY <2>2, ProgramRedist
  <2>3. CASE \E c \in Configs, stuck \in StuckSets : Start(c, stuck)
    BY <2>3, StartRedist
  <2>4. CASE ReloadStatics
    <3>1. UNCHANGED <<rib, current_statics, origin>> /\ pc' = pc /\ work' = NoWork
          /\ pc = "idle"
      BY <2>4, ReloadRedist DEF ReloadStatics
    <3>2. \A k \in Keys : work'[k] = NoChange
      BY <3>1 DEF NoWork
    <3> QED BY <3>1, <3>2, RedistUntouched
  <2>5. CASE EndDrain
    <3>1. /\ UNCHANGED <<rib, current_statics, origin, work>>
          /\ pc = "drain" /\ pc' = (IF work = NoWork THEN "idle" ELSE "program")
      BY <2>5 DEF EndDrain, state, outside
    <3>2. \A k \in Keys : work'[k] = work[k]
      BY <3>1
    <3> QED BY <3>1, <3>2, RedistUntouched
  <2>6. CASE RetryFailed
    <3>1. /\ UNCHANGED <<rib, current_statics, origin>> /\ pc = "idle" /\ pc' = "repair"
          /\ work' = [k \in Keys |-> IF k \in failed THEN Desired(BestAt(k)) ELSE NoChange]
      BY <2>6 DEF RetryFailed, state, outside
    <3>2. \A k \in Keys : BestAt(k)' = BestAt(k) /\ work[k] = NoChange
      BY <3>1 DEF BestAt, RedistInv, WorkIsCurrent
    <3>3. WorkIsCurrent' /\ StaticsFixed'
      BY <3>1, <3>2 DEF RedistInv, WorkIsCurrent, StaticsFixed, Desired
    <3>4. \A t \in Targets, k \in Keys :
             origin[t][k[2]] = Redistributed(t, Desired(BestAt(k)))
      BY <3>1, <3>2 DEF RedistInv, OriginCurrent
    <3>5. OriginCurrent'
      BY <3>1, <3>2, <3>4 DEF OriginCurrent, Redistributed, Desired
    <3> QED BY <3>3, <3>5
  <2>7. CASE Crash \/ \E c \in Configs, stuck \in StuckSets, done \in SUBSET Keys : StartFails(c, stuck, done)
    <3>1. pc' = "down"
      BY <2>7 DEF Crash, StartFails
    <3>2. \A k \in Keys : work'[k] = NoChange
      BY <2>7 DEF Crash, StartFails, NoWork, phase, RedistInv, WorkIsCurrent
    <3> QED BY <3>1, <3>2 DEF StaticsFixed, WorkIsCurrent, OriginCurrent
  <2>8. CASE \/ StreamStep \/ ReloadFilters \/ UNCHANGED vars
             \/ \E m \in Messages : Send(m)
             \/ \E c \in Configs : Sighup(c)
    <3>1. /\ UNCHANGED <<rib, current_statics, origin, work>>
          /\ (pc' = "down" <=> pc = "down") /\ (pc' = "repair" => pc = "repair")
          /\ (pc \in {"drain", "program", "repair"} => pc' = pc)
      BY <2>8 DEF StreamStep, ReloadFilters, Send, Sighup, Subscribe, EndOfDump, AbortDump,
                  Read, Disconnect, DumpRoute, vars, state, phase, outside
    <3>2. \A k \in Keys : work'[k] = work[k]
      BY <3>1
    <3> QED BY <3>1, <3>2, RedistUntouched
  <2> QED BY <2>1, <2>2, <2>3, <2>4, <2>5, <2>6, <2>7, <2>8 DEF Next, RouterStep, Lifecycle
<1> QED BY <1>1, <1>2 DEF RedistInv

\* Between two batches every target originates, for each prefix, the best path its
\* sources and filter let through, whatever is coalesced, retried or restarted and
\* whichever writes fail (redistribute, redistribute_seed); with one table, and with
\* reloads that leave the static routes alone.
THEOREM RedistributionCurrent ==
    ASSUME OneTable, SameStatics
    PROVE  Spec => []RedistCurrent
<1>1. Init => RedistInv
  BY InitType DEF Init, RedistInv, WorkIsCurrent, StaticsFixed, OriginCurrent, NoWork
<1>2. RedistInv => RedistCurrent
  BY DEF RedistInv, WorkIsCurrent, OriginCurrent, RedistCurrent
<1>3. RedistInv /\ [Next]_vars => RedistInv'
  BY RedistStep
<1> QED BY <1>1, <1>2, <1>3, PTL DEF Spec
============================================================================
