----------------------------- MODULE IsisProof ------------------------------
(***************************************************************************)
(* For any routers, links, priorities and checksums, and however often     *)
(* PDUs are lost, engines stopped and neighbours dropped: the IS-IS        *)
(* engines keep the promise of a link-state database (LinkStateDb).        *)
(*                                                                         *)
(* Every handler either has to do with the LSPs of its own system (Step)   *)
(* or takes up one instance it was sent (Learns); both are Progress, and   *)
(* Progress keeps the invariant DbInv and is a step of LinkStateDb.        *)
(***************************************************************************)
EXTENDS Isis, FiniteSetTheorems, WellFoundedInduction, TLAPS

-----------------------------------------------------------------------------
(* The election *)

\* The order of elect_dis on <<SNPA, priority>>.
Outranks(c, d) == d[2] < c[2] \/ (d[2] = c[2] /\ d[1] <= c[1])

\* elect_dis elects one of the candidates.
LEMMA Elected ==
    ASSUME NEW cands \in SUBSET (Nat \X Nat), IsFiniteSet(cands), cands # {}
    PROVE  ElectDis(cands) \in cands
<1> DEFINE Won(S) == \E c \in S : \A d \in S : Outranks(c, d)
           Bad == {S \in SUBSET cands : S # {} /\ ~Won(S)}
<1>1. IsWellFoundedOn(StrictSubsetOrdering(cands), SUBSET cands)
    BY FS_StrictSubsetOrderingWellFounded, FS_FiniteSubsetsOfFinite
<1>2. Bad = {}
  <2>1. SUFFICES ASSUME Bad # {} PROVE FALSE
    OBVIOUS
  <2>2. PICK S \in Bad : \A T \in Bad : <<T, S>> \notin StrictSubsetOrdering(cands)
    BY <1>1, <2>1, WFMin
  <2>3. PICK x \in S : TRUE
    OBVIOUS
  <2>4. S \ {x} \notin Bad
    BY <2>2, <2>3 DEF StrictSubsetOrdering
  <2>5. x \in Nat \X Nat /\ S \subseteq Nat \X Nat
    BY <2>3
  <2>6. S = (S \ {x}) \cup {x}
    BY <2>3
  <2>7. CASE S \ {x} = {}
    BY <2>3, <2>5, <2>6, <2>7 DEF Outranks
  <2>8. CASE S \ {x} # {}
    <3>1. PICK c \in S \ {x} : \A d \in S \ {x} : Outranks(c, d)
      BY <2>4, <2>8
    <3>2. Outranks(c, x) \/ (Outranks(x, c) /\ Outranks(x, x))
      BY <2>5, <3>1 DEF Outranks
    <3>3. ASSUME Outranks(x, c) PROVE \A d \in S \ {x} : Outranks(x, d)
      BY <2>5, <3>1, <3>3 DEF Outranks
    <3> QED
      BY <2>3, <2>6, <3>1, <3>2, <3>3
  <2> QED
    BY <2>7, <2>8
<1>3. Won(cands)
    BY <1>2
<1> QED
    BY <1>3 DEF ElectDis, Outranks

-----------------------------------------------------------------------------
(* Types *)

LanIds == {<<0, 0>>} \cup (Routers \X {PN})

Neighbours == UNION {[Q -> [up : BOOLEAN, prio : Nat, lan : LanIds]] : Q \in SUBSET Routers}

Interface == [nb : Neighbours, dis : {<<>>} \cup LanIds, isDis : BOOLEAN, pn : Nat]

Lsdb == UNION {[K -> LSP] : K \in SUBSET Keys}

LspPdus == {LspPdu(k, x) : k \in Keys, x \in LSP}
Csnps   == UNION {{CsnpFragments(db)[i] : i \in DOMAIN CsnpFragments(db)} : db \in Lsdb}
Psnps   == {[type |-> "psnp", keys |-> K] : K \in SUBSET Keys}
Pdu     == LspPdus \cup Csnps \cup Psnps

Engine(r) ==
    [up : BOOLEAN, prio : Nat, seq : Nat, db : Lsdb, ext : BOOLEAN,
     out : [Ports(r) -> Seq(Pdu)], ifs : [LinksOf(r) -> Interface]]

EnginesTyped ==
    /\ net \in TOPOLOGIES
    /\ DOMAIN rt = Routers /\ \A r \in Routers : rt[r] \in Engine(r)

TypeInv == EnginesTyped /\ issued \in [Keys -> LSP \cup {None}]

-----------------------------------------------------------------------------
(* Instances *)

\* x is the instance of k in the database of an engine, or on its way from it.
Sends(s, k, x) == \E p \in DOMAIN s.out : \E i \in 1 .. Len(s.out[p]) : s.out[p][i] = LspPdu(k, x)
Has(s, k, x)   == (k \in DOMAIN s.db /\ s.db[k] = x) \/ Sends(s, k, x)

\* The instance of k in t's database is the one in s's; or it is more recent, or k has
\* been forgotten.
SameDb(s, t, k)   == /\ k \in DOMAIN s.db <=> k \in DOMAIN t.db
                     /\ k \in DOMAIN s.db => t.db[k] = s.db[k]
Advances(s, t, k) == k \in DOMAIN s.db \cap DOMAIN t.db =>
                        t.db[k] = s.db[k] \/ CmpRecency(t.db[k], s.db[k])

\* From s to t an engine has to do with the keys K only, and makes at most one new
\* instance of each.
Step(s, t, K) ==
    /\ t.up = s.up
    /\ \A k \in Keys \ K : SameDb(s, t, k) /\ \A x : Has(t, k, x) => Has(s, k, x)
    /\ \A k \in K : Advances(s, t, k) /\ \E y \in LSP : \A x : Has(t, k, x) => Has(s, k, x) \/ x = y

\* From s to t it takes up the instance lsp of k.
Learns(s, t, k, lsp) ==
    /\ t.up = s.up
    /\ \A j \in Keys \ {k} : SameDb(s, t, j)
    /\ Advances(s, t, k)
    /\ \A j \in Keys : \A x : Has(t, j, x) => Has(s, j, x) \/ (j = k /\ x = lsp)

\* A router's two keys are keys, differ, and are its own.
LEMMA Numbers ==
    ASSUME NEW r \in Routers
    PROVE  /\ OwnKey(r) \in Keys /\ PnKey(r) \in Keys /\ OwnKey(r) # PnKey(r)
           /\ Owner(OwnKey(r)) = r /\ Owner(PnKey(r)) = r
           /\ r \in Nat
<1>1. r \in Nat
    BY IsisAssumption
<1>2. (10 * r) \div 10 = r /\ (10 * r + 1) \div 10 = r /\ 10 * r + 0 = 10 * r
    BY <1>1
<1> QED
    BY <1>1, <1>2 DEF OwnKey, PnKey, Keys, NodeId, PN, Owner

\* cmp_recency orders the instances of a key.
LEMMA Recency ==
    ASSUME NEW a \in LSP, NEW b \in LSP, NEW c \in LSP
    PROVE  /\ CmpRecency(a, b) <=> MoreRecent(a, b)
           /\ ~CmpRecency(a, a)
           /\ ~(CmpRecency(a, b) /\ CmpRecency(b, a))
           /\ CmpRecency(a, b) /\ CmpRecency(b, c) => CmpRecency(a, c)
           /\ a # b => CmpRecency(a, b) \/ CmpRecency(b, a)
<1>1. /\ a = [seq |-> a.seq, body |-> a.body, live |-> a.live]
      /\ b = [seq |-> b.seq, body |-> b.body, live |-> b.live]
      /\ a.seq \in Nat /\ b.seq \in Nat /\ a.body \in Nat /\ b.body \in Nat
      /\ a.live \in BOOLEAN /\ b.live \in BOOLEAN
      /\ c.seq \in Nat /\ c.body \in Nat /\ c.live \in BOOLEAN
    BY DEF LSP
<1>2. CmpRecency(a, b) <=> MoreRecent(a, b)
  <2> DEFINE Rank(x) == <<x.seq, IF x.live THEN 0 ELSE 1, x.body>>
  <2>1. /\ Rank(a)[1] = a.seq /\ Rank(a)[2] = (IF a.live THEN 0 ELSE 1) /\ Rank(a)[3] = a.body
        /\ Rank(b)[1] = b.seq /\ Rank(b)[2] = (IF b.live THEN 0 ELSE 1) /\ Rank(b)[3] = b.body
    OBVIOUS
  <2>2. MoreRecent(a, b) <=>
           \/ Rank(a)[1] > Rank(b)[1]
           \/ Rank(a)[2] > Rank(b)[2] /\ Rank(a)[1] = Rank(b)[1]
           \/ Rank(a)[3] > Rank(b)[3] /\ Rank(a)[1] = Rank(b)[1] /\ Rank(a)[2] = Rank(b)[2]
    <3>1. /\ 1 .. 3 = {1, 2, 3}
          /\ 1 .. (1 - 1) = {} /\ 1 .. (2 - 1) = {1} /\ 1 .. (3 - 1) = {1, 2}
      OBVIOUS
    <3> HIDE DEF Rank
    <3>2. MoreRecent(a, b) <=>
            \E i \in 1 .. 3 :
                Rank(a)[i] > Rank(b)[i] /\ \A j \in 1 .. i - 1 : Rank(a)[j] = Rank(b)[j]
      BY DEF MoreRecent, Rank
    <3> QED
      BY <3>1, <3>2
  <2> HIDE DEF Rank
  <2> QED
    BY <1>1, <2>1, <2>2 DEF CmpRecency
<1>3. /\ ~CmpRecency(a, a)
      /\ ~(CmpRecency(a, b) /\ CmpRecency(b, a))
      /\ CmpRecency(a, b) /\ CmpRecency(b, c) => CmpRecency(a, c)
    BY <1>1 DEF CmpRecency
<1>4. ~CmpRecency(a, b) /\ ~CmpRecency(b, a) => a.seq = b.seq /\ a.live = b.live /\ a.body = b.body
    BY <1>1 DEF CmpRecency
<1> QED
    BY <1>1, <1>2, <1>3, <1>4

\* Two steps of one handler that have to do with different keys.
LEMMA Compose ==
    ASSUME NEW s, NEW t, NEW u, NEW K \in SUBSET Keys, NEW L \in SUBSET Keys,
           K \cap L = {}, Step(s, t, K), Step(t, u, L)
    PROVE  Step(s, u, K \cup L)
<1>1. ASSUME NEW k \in Keys \ (K \cup L)
      PROVE  SameDb(s, u, k) /\ \A x : Has(u, k, x) => Has(s, k, x)
    BY <1>1 DEF Step, SameDb
<1>2. ASSUME NEW k \in K \cup L
      PROVE  /\ Advances(s, u, k)
             /\ \E y \in LSP : \A x : Has(u, k, x) => Has(s, k, x) \/ x = y
  <2>1. CASE k \in K
    <3>1. PICK y \in LSP : \A x : Has(t, k, x) => Has(s, k, x) \/ x = y
      BY <2>1 DEF Step
    <3>2. Advances(s, t, k) /\ SameDb(t, u, k) /\ \A x : Has(u, k, x) => Has(t, k, x)
      BY <2>1 DEF Step
    <3> QED
      BY <3>1, <3>2 DEF SameDb, Advances
  <2>2. CASE k \in L
    <3>1. PICK y \in LSP : \A x : Has(u, k, x) => Has(t, k, x) \/ x = y
      BY <2>2 DEF Step
    <3>2. Advances(t, u, k) /\ SameDb(s, t, k) /\ \A x : Has(t, k, x) => Has(s, k, x)
      BY <2>2 DEF Step
    <3> QED
      BY <3>1, <3>2 DEF SameDb, Advances
  <2> QED
    BY <1>2, <2>1, <2>2
<1> QED
    BY <1>1, <1>2 DEF Step

-----------------------------------------------------------------------------
(* The wire *)

\* What is in a queue that grows or loses its head.
LEMMA Queue ==
    ASSUME NEW q \in Seq(Pdu), NEW m \in Seq(Pdu), NEW e \in Pdu
    PROVE  /\ q \o m \in Seq(Pdu)
           /\ \A i \in 1 .. Len(q \o m) :
                \/ i \in 1 .. Len(q) /\ (q \o m)[i] = q[i]
                \/ \E j \in 1 .. Len(m) : (q \o m)[i] = m[j]
           /\ Append(q, e) \in Seq(Pdu)
           /\ \A i \in 1 .. Len(Append(q, e)) :
                (i \in 1 .. Len(q) /\ Append(q, e)[i] = q[i]) \/ Append(q, e)[i] = e
           /\ q # <<>> => /\ Tail(q) \in Seq(Pdu) /\ Head(q) = q[1] /\ 1 \in 1 .. Len(q)
                          /\ \A i \in 1 .. Len(Tail(q)) :
                                i + 1 \in 1 .. Len(q) /\ Tail(q)[i] = q[i + 1]
<1>1. /\ q \o m \in Seq(Pdu) /\ Len(q \o m) = Len(q) + Len(m)
      /\ Len(q) \in Nat /\ Len(m) \in Nat
    OBVIOUS
<1>2. ASSUME NEW i \in 1 .. Len(q \o m)
      PROVE  \/ i \in 1 .. Len(q) /\ (q \o m)[i] = q[i]
             \/ \E j \in 1 .. Len(m) : (q \o m)[i] = m[j]
  <2>1. CASE i <= Len(q)
    BY <1>1, <1>2, <2>1
  <2>2. CASE i > Len(q)
    <3>1. i - Len(q) \in 1 .. Len(m) /\ (q \o m)[i] = m[i - Len(q)]
      BY <1>1, <1>2, <2>2
    <3> QED
      BY <3>1
  <2> QED
    BY <1>1, <1>2, <2>1, <2>2
<1>3. Append(q, e) \in Seq(Pdu) /\ Len(Append(q, e)) = Len(q) + 1
    OBVIOUS
<1>4. \A i \in 1 .. Len(Append(q, e)) :
         (i \in 1 .. Len(q) /\ Append(q, e)[i] = q[i]) \/ Append(q, e)[i] = e
    BY <1>1, <1>3
<1>5. q # <<>> => /\ Tail(q) \in Seq(Pdu) /\ Head(q) = q[1] /\ 1 \in 1 .. Len(q)
                  /\ \A i \in 1 .. Len(Tail(q)) :
                        i + 1 \in 1 .. Len(q) /\ Tail(q)[i] = q[i + 1]
    BY <1>1
<1> QED
    BY <1>1, <1>2, <1>3, <1>4, <1>5

\* An LSP PDU names one LSP.
LEMMA LspPduType ==
    ASSUME NEW k \in Keys, NEW x \in LSP
    PROVE  /\ LspPdu(k, x) \in Pdu
           /\ \A j, y : LspPdu(j, y) = LspPdu(k, x) => j = k /\ y = x
<1>1. ASSUME NEW j, NEW y, LspPdu(j, y) = LspPdu(k, x)
      PROVE  j = k /\ y = x
  <2>1. LspPdu(j, y).k = j /\ LspPdu(j, y).lsp = y /\ LspPdu(k, x).k = k /\ LspPdu(k, x).lsp = x
    BY DEF LspPdu
  <2> QED
    BY <1>1, <2>1
<1> QED
    BY <1>1 DEF Pdu, LspPdus

\* An engine whose messages are replaced by others.
LEMMA Rewired ==
    ASSUME NEW r \in Routers, NEW s \in Engine(r), NEW w \in [Ports(r) -> Seq(Pdu)]
    PROVE  /\ [s EXCEPT !.out = w] \in Engine(r)
           /\ [s EXCEPT !.out = w].out = w /\ [s EXCEPT !.out = w].db = s.db
           /\ [s EXCEPT !.out = w].up = s.up
BY DEF Engine

\* flood sends the LSP and nothing else.
LEMMA Flooded ==
    ASSUME NEW r \in Routers, NEW s \in Engine(r), NEW k \in Keys, NEW lsp \in LSP, NEW except
    PROVE  /\ Flood(s, k, lsp, except) \in Engine(r)
           /\ Flood(s, k, lsp, except).db = s.db /\ Flood(s, k, lsp, except).up = s.up
           /\ \A j, x : Has(Flood(s, k, lsp, except), j, x) =>
                           Has(s, j, x) \/ (j = k /\ x = lsp)
<1> DEFINE w == [p \in DOMAIN s.out |->
                    IF p[1] \in except THEN s.out[p] ELSE Append(s.out[p], LspPdu(k, lsp))]
           t == Flood(s, k, lsp, except)
<1>1. s.out \in [Ports(r) -> Seq(Pdu)]
    BY DEF Engine
<1>2. LspPdu(k, lsp) \in Pdu
    BY LspPduType
<1>3. \A p \in Ports(r) : s.out[p] \in Seq(Pdu) /\ Append(s.out[p], LspPdu(k, lsp)) \in Seq(Pdu)
    BY <1>1, <1>2, Queue
<1>4. w \in [Ports(r) -> Seq(Pdu)]
    BY <1>1, <1>3
<1>5. t = [s EXCEPT !.out = w]
    BY DEF Flood
<1> HIDE DEF t
<1>6. t \in Engine(r) /\ t.out = w /\ t.db = s.db /\ t.up = s.up
  <2> HIDE DEF w
  <2> QED
    BY <1>4, <1>5, Rewired
<1>7. ASSUME NEW j, NEW x, Sends(t, j, x)
      PROVE  Sends(s, j, x) \/ (j = k /\ x = lsp)
  <2>1. PICK p \in DOMAIN w : \E i \in 1 .. Len(w[p]) : w[p][i] = LspPdu(j, x)
    BY <1>6, <1>7 DEF Sends
  <2>2. PICK i \in 1 .. Len(w[p]) : w[p][i] = LspPdu(j, x)
    BY <2>1
  <2>3. p \in Ports(r) /\ p \in DOMAIN s.out
    BY <1>1, <2>1
  <2>4. \/ i \in 1 .. Len(s.out[p]) /\ w[p][i] = s.out[p][i]
        \/ w[p][i] = LspPdu(k, lsp)
    <3>1. CASE p[1] \in except
      BY <2>2, <2>3, <3>1
    <3>2. CASE p[1] \notin except
      <4>1. w[p] = Append(s.out[p], LspPdu(k, lsp))
        BY <2>3, <3>2
      <4> QED
        BY <1>2, <1>3, <2>2, <2>3, <4>1, Queue
    <3> QED
      BY <3>1, <3>2
  <2> QED
    BY <2>2, <2>3, <2>4, LspPduType DEF Sends
<1> QED
    BY <1>6, <1>7 DEF Has, t

\* send_on sends what it is given.
LEMMA SentOn ==
    ASSUME NEW r \in Routers, NEW s \in Engine(r), NEW l, NEW msgs \in Seq(Pdu)
    PROVE  /\ SendOn(s, l, msgs) \in Engine(r)
           /\ SendOn(s, l, msgs).db = s.db /\ SendOn(s, l, msgs).up = s.up
           /\ \A j, x : Has(SendOn(s, l, msgs), j, x) =>
                 Has(s, j, x) \/ \E i \in 1 .. Len(msgs) : msgs[i] = LspPdu(j, x)
<1> DEFINE w == [p \in DOMAIN s.out |-> IF p[1] = l THEN s.out[p] \o msgs ELSE s.out[p]]
           t == SendOn(s, l, msgs)
<1>1. s.out \in [Ports(r) -> Seq(Pdu)]
    BY DEF Engine
<1>2. \A p \in Ports(r) : s.out[p] \in Seq(Pdu) /\ s.out[p] \o msgs \in Seq(Pdu)
    BY <1>1
<1>3. w \in [Ports(r) -> Seq(Pdu)]
    BY <1>1, <1>2
<1>4. t = [s EXCEPT !.out = w]
    BY DEF SendOn
<1> HIDE DEF t
<1>5. t \in Engine(r) /\ t.out = w /\ t.db = s.db /\ t.up = s.up
  <2> HIDE DEF w
  <2> QED
    BY <1>3, <1>4, Rewired
<1>6. ASSUME NEW j, NEW x, Sends(t, j, x)
      PROVE  Sends(s, j, x) \/ \E i \in 1 .. Len(msgs) : msgs[i] = LspPdu(j, x)
  <2>1. PICK p \in DOMAIN w : \E i \in 1 .. Len(w[p]) : w[p][i] = LspPdu(j, x)
    BY <1>5, <1>6 DEF Sends
  <2>2. PICK i \in 1 .. Len(w[p]) : w[p][i] = LspPdu(j, x)
    BY <2>1
  <2>3. p \in Ports(r) /\ p \in DOMAIN s.out
    BY <1>1, <2>1
  <2>4. CASE p[1] = l
    <3>1. w[p] = s.out[p] \o msgs
      BY <2>3, <2>4
    <3>2. \/ i \in 1 .. Len(s.out[p]) /\ w[p][i] = s.out[p][i]
          \/ \E m \in 1 .. Len(msgs) : w[p][i] = msgs[m]
      <4>1. ASSUME NEW e \in Pdu
            PROVE  \/ i \in 1 .. Len(s.out[p]) /\ w[p][i] = s.out[p][i]
                   \/ \E m \in 1 .. Len(msgs) : w[p][i] = msgs[m]
        BY <1>2, <2>2, <2>3, <3>1, Queue
      <4>2. \E e : e \in Pdu
        <5>1. [type |-> "psnp", keys |-> {}] \in Pdu
          BY DEF Pdu, Psnps
        <5> QED
          BY <5>1
      <4> QED
        BY <4>1, <4>2
    <3> QED
      BY <2>2, <2>3, <3>2 DEF Sends
  <2>5. CASE p[1] # l
    BY <2>2, <2>3, <2>5 DEF Sends
  <2> QED
    BY <2>4, <2>5
<1> QED
    BY <1>5, <1>6 DEF Has, t

-----------------------------------------------------------------------------
(* The database *)

\* A database maps keys to LSPs.
LEMMA DbType ==
    ASSUME NEW db \in Lsdb
    PROVE  /\ DOMAIN db \in SUBSET Keys /\ db \in [DOMAIN db -> LSP]
           /\ \A k \in DOMAIN db : db[k] \in LSP
BY DEF Lsdb

\* install takes an instance up when it is more recent than the one it replaces.
LEMMA Installed ==
    ASSUME NEW db \in Lsdb, NEW k \in Keys, NEW lsp \in LSP
    PROVE  /\ Install(db, k, lsp) \in Lsdb
           /\ DOMAIN Install(db, k, lsp) = DOMAIN db \cup {k}
           /\ \A j \in DOMAIN db \ {k} : Install(db, k, lsp)[j] = db[j]
           /\ \/ Changed(db, k, lsp) /\ Install(db, k, lsp)[k] = lsp
              \/ k \in DOMAIN db /\ Install(db, k, lsp)[k] = db[k]
<1>1. CASE Changed(db, k, lsp)
  <2> DEFINE d == [j \in DOMAIN db \cup {k} |-> IF j = k THEN lsp ELSE db[j]]
  <2>1. Install(db, k, lsp) = d
    BY <1>1 DEF Install, Put
  <2>2. d \in [DOMAIN db \cup {k} -> LSP] /\ DOMAIN db \cup {k} \in SUBSET Keys
    BY DbType
  <2> QED
    BY <1>1, <2>1, <2>2 DEF Lsdb
<1>2. CASE ~Changed(db, k, lsp)
    BY <1>2 DEF Install, Changed
<1> QED
    BY <1>1, <1>2

\* Remove forgets one key.
LEMMA Removed ==
    ASSUME NEW db \in Lsdb, NEW k
    PROVE  /\ Remove(db, k) \in Lsdb
           /\ DOMAIN Remove(db, k) = DOMAIN db \ {k}
           /\ \A j \in DOMAIN db \ {k} : Remove(db, k)[j] = db[j]
<1>1. Remove(db, k) \in [DOMAIN db \ {k} -> LSP] /\ DOMAIN db \ {k} \in SUBSET Keys
    BY DbType DEF Remove
<1> QED
    BY <1>1 DEF Lsdb, Remove

\* An engine whose database is replaced by another.
LEMMA Refiled ==
    ASSUME NEW r \in Routers, NEW s \in Engine(r), NEW d \in Lsdb
    PROVE  /\ [s EXCEPT !.db = d] \in Engine(r)
           /\ [s EXCEPT !.db = d].db = d /\ [s EXCEPT !.db = d].out = s.out
           /\ [s EXCEPT !.db = d].up = s.up
           /\ \A j, x : Has([s EXCEPT !.db = d], j, x) =>
                 Has(s, j, x) \/ (j \in DOMAIN d /\ x = d[j])
BY DEF Engine, Has, Sends

\* A router stores an instance and floods it.
LEMMA Stored ==
    ASSUME NEW r \in Routers, NEW s \in Engine(r), NEW k \in Keys, NEW lsp \in LSP, NEW except
    PROVE  LET t == Flood([s EXCEPT !.db = Install(@, k, lsp)], k, lsp, except)
               u == [s EXCEPT !.db = Install(@, k, lsp)]
           IN  t \in Engine(r) /\ u \in Engine(r) /\ Learns(s, t, k, lsp) /\ Learns(s, u, k, lsp)
<1> DEFINE d == Install(s.db, k, lsp)
           u == [s EXCEPT !.db = d]
           t == Flood(u, k, lsp, except)
<1>1. s.db \in Lsdb
    BY DEF Engine
<1>2. /\ d \in Lsdb /\ DOMAIN d = DOMAIN s.db \cup {k}
      /\ \A j \in DOMAIN s.db \ {k} : d[j] = s.db[j]
      /\ \/ Changed(s.db, k, lsp) /\ d[k] = lsp
         \/ k \in DOMAIN s.db /\ d[k] = s.db[k]
    BY <1>1, Installed
<1> HIDE DEF d
<1>3. /\ u \in Engine(r) /\ u.db = d /\ u.up = s.up
      /\ \A j, x : Has(u, j, x) => Has(s, j, x) \/ (j \in DOMAIN d /\ x = d[j])
    BY <1>2, Refiled
<1> HIDE DEF u
<1>4. /\ t \in Engine(r) /\ t.db = d /\ t.up = s.up
      /\ \A j, x : Has(t, j, x) => Has(u, j, x) \/ (j = k /\ x = lsp)
    BY <1>3, Flooded
<1> HIDE DEF t
<1>5. \A j, x : j \in DOMAIN d /\ x = d[j] => Has(s, j, x) \/ (j = k /\ x = lsp)
    BY <1>2 DEF Has
<1>6. Learns(s, t, k, lsp) /\ Learns(s, u, k, lsp)
    BY <1>2, <1>3, <1>4, <1>5 DEF Learns, SameDb, Advances, Changed
<1>7. u = [s EXCEPT !.db = Install(@, k, lsp)]
    BY DEF u, d
<1> QED
    BY <1>3, <1>4, <1>6, <1>7 DEF t

\* Taking up an instance of k has to do with k only.
LEMMA LearnsSteps ==
    ASSUME NEW s, NEW t, NEW k \in Keys, NEW lsp \in LSP, Learns(s, t, k, lsp)
    PROVE  Step(s, t, {k})
BY DEF Learns, Step

\* A handler that touches neither the database nor the wire.
LEMMA Untouched ==
    ASSUME NEW s, NEW t, t.db = s.db, t.out = s.out, t.up = s.up
    PROVE  Step(s, t, {})
BY DEF Step, SameDb, Has, Sends

\* A step may be said to have to do with more keys than it has.
LEMMA Widen ==
    ASSUME NEW s, NEW t, NEW K \in SUBSET Keys, NEW L \in SUBSET Keys, K \subseteq L, Step(s, t, K)
    PROVE  Step(s, t, L)
<1>1. [seq |-> 1, body |-> 0, live |-> TRUE] \in LSP
    BY DEF LSP
<1>2. ASSUME NEW k \in L
      PROVE  /\ Advances(s, t, k)
             /\ \E y \in LSP : \A x : Has(t, k, x) => Has(s, k, x) \/ x = y
  <2>1. CASE k \in K
    BY <2>1 DEF Step
  <2>2. CASE k \notin K
    <3>1. SameDb(s, t, k) /\ \A x : Has(t, k, x) => Has(s, k, x)
      BY <1>2, <2>2 DEF Step
    <3> QED
      BY <1>1, <3>1 DEF SameDb, Advances
  <2> QED
    BY <2>1, <2>2
<1> QED
    BY <1>2 DEF Step

-----------------------------------------------------------------------------
(* Origination *)

\* The fields of an interface.
LEMMA InterfaceType ==
    ASSUME NEW i \in Interface
    PROVE  /\ DOMAIN i.nb \in SUBSET Routers
           /\ \A q \in DOMAIN i.nb : /\ i.nb[q] \in [up : BOOLEAN, prio : Nat, lan : LanIds]
                                     /\ i.nb[q].up \in BOOLEAN /\ i.nb[q].prio \in Nat
                                     /\ i.nb[q].lan \in LanIds
           /\ i.dis \in {<<>>} \cup LanIds /\ i.isDis \in BOOLEAN /\ i.pn \in Nat
<1>1. i.nb \in Neighbours /\ i.dis \in {<<>>} \cup LanIds /\ i.isDis \in BOOLEAN /\ i.pn \in Nat
    BY DEF Interface
<1>2. PICK Q \in SUBSET Routers : i.nb \in [Q -> [up : BOOLEAN, prio : Nat, lan : LanIds]]
    BY <1>1 DEF Neighbours
<1> QED
    BY <1>1, <1>2

\* Node IDs are keys, or the null LAN ID.
LEMMA NodeType ==
    /\ \A q \in Routers : NodeId(q, 0) \in Keys
    /\ \A d \in LanIds : NodeId(d[1], d[2]) \in Keys \cup {NodeId(0, 0)}
<1>1. \A q \in Routers : NodeId(q, 0) \in Keys /\ NodeId(q, PN) \in Keys
    BY DEF Keys, OwnKey, PnKey
<1> QED
    BY <1>1 DEF LanIds

\* An LSP we build has a checksum.
LEMMA Built ==
    ASSUME NEW r \in Routers, NEW s \in Engine(r)
    PROVE  BuildOurLsp(s, r) \in Nat
<1> DEFINE Reach(l) ==
               IF net[l].type = "p2p" THEN {NodeId(q, 0) : q \in UpNeighbors(s, l)}
               ELSE {NodeId(d[1], d[2]) : d \in {s.ifs[l].dis} \ {<<>>}}
<1>1. \A l \in LinksOf(r) : s.ifs[l] \in Interface
    BY DEF Engine
<1>2. ASSUME NEW l \in LinksOf(r)
      PROVE  Reach(l) \subseteq Keys \cup {NodeId(0, 0)}
  <2>1. UpNeighbors(s, l) \subseteq Routers /\ s.ifs[l].dis \in {<<>>} \cup LanIds
    BY <1>1, InterfaceType DEF UpNeighbors
  <2> QED
    BY <2>1, NodeType
<1>3. UNION {Reach(l) : l \in LinksOf(r)} \in SUBSET (Keys \cup {NodeId(0, 0)})
  <2> HIDE DEF Reach
  <2> QED
    BY <1>2
<1>4. s.ext \in BOOLEAN
    BY DEF Engine
<1>5. BuildOurLsp(s, r) = Checksum(UNION {Reach(l) : l \in LinksOf(r)}, s.ext)
    BY DEF BuildOurLsp
<1> HIDE DEF Reach
<1> QED
    BY <1>3, <1>4, <1>5, IsisAssumption

\* A new instance of our own LSP is the only one made.
LEMMA Reoriginated ==
    ASSUME NEW r \in Routers, NEW s \in Engine(r)
    PROVE  /\ Reoriginate(s, r) \in Engine(r)
           /\ Step(s, Reoriginate(s, r), {OwnKey(r)})
<1> DEFINE s1 == [s EXCEPT !.seq = s.seq + 1]
           lsp == Lsp(s.seq + 1, BuildOurLsp(s, r), TRUE)
           t == Reoriginate(s, r)
<1>1. s.seq \in Nat
    BY DEF Engine
<1>2. s1 \in Engine(r) /\ s1.db = s.db /\ s1.out = s.out /\ s1.up = s.up
    BY <1>1 DEF Engine
<1>3. lsp \in LSP /\ OwnKey(r) \in Keys
    BY <1>1, Built, Numbers DEF Lsp, LSP
<1>4. t = Flood([s1 EXCEPT !.db = Install(@, OwnKey(r), lsp)], OwnKey(r), lsp, {})
    BY DEF Reoriginate, StoreAndFlood
<1> HIDE DEF s1, lsp, t
<1>5. t \in Engine(r) /\ Learns(s1, t, OwnKey(r), lsp)
    BY <1>2, <1>3, <1>4, Stored
<1>6. Step(s, s1, {}) /\ Step(s1, t, {OwnKey(r)})
    BY <1>2, <1>3, <1>5, Untouched, LearnsSteps
<1>7. Step(s, t, {} \cup {OwnKey(r)})
    BY <1>3, <1>6, Compose
<1>8. {} \cup {OwnKey(r)} = {OwnKey(r)}
    OBVIOUS
<1> QED
    BY <1>5, <1>7, <1>8 DEF t

\* flush_lsp makes a purge of the LSP it forgets.
LEMMA Flushed ==
    ASSUME NEW r \in Routers, NEW s \in Engine(r), NEW k \in Keys
    PROVE  FlushLsp(s, k) \in Engine(r) /\ Step(s, FlushLsp(s, k), {k})
<1>1. CASE k \in DOMAIN s.db
  <2> DEFINE d == Remove(s.db, k)
             u == [s EXCEPT !.db = d]
             purge == Lsp(s.db[k].seq + 1, s.db[k].body, FALSE)
             t == FlushLsp(s, k)
  <2>1. s.db \in Lsdb /\ s.db[k] \in LSP
    BY <1>1, DbType DEF Engine
  <2>2. purge \in LSP
    BY <2>1 DEF Lsp, LSP
  <2>3. /\ d \in Lsdb /\ DOMAIN d = DOMAIN s.db \ {k} 
        /\ \A j \in DOMAIN s.db \ {k} : d[j] = s.db[j]
    BY <2>1, Removed
  <2>4. t = Flood(u, k, purge, {})
    BY <1>1 DEF FlushLsp
  <2> HIDE DEF d, purge, t
  <2>5. /\ u \in Engine(r) /\ u.db = d /\ u.up = s.up
        /\ \A j, x : Has(u, j, x) => Has(s, j, x) \/ (j \in DOMAIN d /\ x = d[j])
    BY <2>3, Refiled
  <2> HIDE DEF u
  <2>6. /\ t \in Engine(r) /\ t.db = d /\ t.up = s.up
        /\ \A j, x : Has(t, j, x) => Has(u, j, x) \/ (j = k /\ x = purge)
    BY <2>2, <2>4, <2>5, Flooded
  <2>7. \A j, x : j \in DOMAIN d /\ x = d[j] => Has(s, j, x)
    BY <2>3 DEF Has
  <2>8. Step(s, t, {k})
    BY <2>2, <2>3, <2>5, <2>6, <2>7 DEF Step, SameDb, Advances
  <2> QED
    BY <2>6, <2>8 DEF t
<1>2. CASE k \notin DOMAIN s.db
  <2>1. FlushLsp(s, k) = s
    BY <1>2 DEF FlushLsp
  <2>2. Step(s, s, {})
    BY Untouched
  <2> QED
    BY <2>1, <2>2, Widen
<1> QED
    BY <1>1, <1>2

\* An engine one of whose interfaces is replaced by another.
LEMMA Rewritten ==
    ASSUME NEW r \in Routers, NEW s \in Engine(r), NEW l \in LinksOf(r), NEW i \in Interface
    PROVE  /\ [s EXCEPT !.ifs[l] = i] \in Engine(r)
           /\ [s EXCEPT !.ifs[l] = i].db = s.db /\ [s EXCEPT !.ifs[l] = i].out = s.out
           /\ [s EXCEPT !.ifs[l] = i].ifs[l] = i /\ [s EXCEPT !.ifs[l] = i].prio = s.prio
           /\ Step(s, [s EXCEPT !.ifs[l] = i], {})
<1> DEFINE t == [s EXCEPT !.ifs[l] = i]
<1>1. s.ifs \in [LinksOf(r) -> Interface] /\ [s.ifs EXCEPT ![l] = i] \in [LinksOf(r) -> Interface]
    BY DEF Engine
<1>2. t = [s EXCEPT !.ifs = [s.ifs EXCEPT ![l] = i]]
    OBVIOUS
<1>3. t \in Engine(r) /\ t.db = s.db /\ t.out = s.out /\ t.up = s.up
      /\ t.ifs[l] = i /\ t.prio = s.prio
    BY <1>1, <1>2 DEF Engine
<1> HIDE DEF t
<1>4. Step(s, t, {})
    BY <1>3, Untouched
<1> QED
    BY <1>3, <1>4 DEF t

\* The DIS makes an instance of the pseudonode's LSP, any other router a purge.
LEMMA PseudonodeOriginated ==
    ASSUME NEW r \in Routers, NEW s \in Engine(r), NEW l \in LinksOf(r)
    PROVE  /\ ReoriginatePseudonode(s, r, l) \in Engine(r)
           /\ Step(s, ReoriginatePseudonode(s, r, l), {PnKey(r)})
<1> DEFINE members == {NodeId(q, 0) : q \in UpNeighbors(s, l) \cup {r}}
           seq == s.ifs[l].pn + 1
           lsp == Lsp(seq, Checksum(members, FALSE), TRUE)
           i == [s.ifs[l] EXCEPT !.pn = seq]
           s1 == [s EXCEPT !.ifs[l] = i]
           t == ReoriginatePseudonode(s, r, l)
<1>1. s.ifs[l] \in Interface
    BY DEF Engine
<1>2. PnKey(r) \in Keys
    BY Numbers
<1>3. CASE ~s.ifs[l].isDis
    BY <1>2, <1>3, Flushed DEF ReoriginatePseudonode
<1>4. CASE s.ifs[l].isDis
  <2>1. seq \in Nat \ {0} /\ i \in Interface
    BY <1>1 DEF Interface
  <2>2. s1 \in Engine(r) /\ Step(s, s1, {})
    <3> HIDE DEF i
    <3> QED
      BY <2>1, Rewritten
  <2>3. UpNeighbors(s, l) \subseteq Routers
    BY <1>1, InterfaceType DEF UpNeighbors
  <2>4. members \in SUBSET (Keys \cup {NodeId(0, 0)})
    BY <2>3, NodeType
  <2>5. lsp \in LSP
    <3> HIDE DEF members, seq
    <3>1. Checksum(members, FALSE) \in Nat
      BY <2>4, IsisAssumption
    <3> QED
      BY <2>1, <3>1 DEF Lsp, LSP
  <2>6. t = Flood([s1 EXCEPT !.db = Install(@, PnKey(r), lsp)], PnKey(r), lsp, {})
    BY <1>4 DEF ReoriginatePseudonode, StoreAndFlood
  <2> HIDE DEF s1, lsp, t
  <2>7. t \in Engine(r) /\ Learns(s1, t, PnKey(r), lsp)
    BY <1>2, <2>2, <2>5, <2>6, Stored
  <2>8. Step(s1, t, {PnKey(r)})
    BY <1>2, <2>5, <2>7, LearnsSteps
  <2>9. Step(s, t, {} \cup {PnKey(r)})
    BY <1>2, <2>2, <2>8, Compose
  <2>10. {} \cup {PnKey(r)} = {PnKey(r)}
    OBVIOUS
  <2> QED
    BY <2>7, <2>9, <2>10 DEF t
<1> QED
    BY <1>3, <1>4

-----------------------------------------------------------------------------
(* The election on an interface *)

\* The router or a neighbour that is up is elected.
LEMMA Winner ==
    ASSUME NEW r \in Routers, NEW s \in Engine(r), NEW l \in LinksOf(r)
    PROVE  ElectDis({<<r, s.prio>>} \cup {<<q, s.ifs[l].nb[q].prio>> : q \in UpNeighbors(s, l)})[1]
              \in UpNeighbors(s, l) \cup {r}
<1> DEFINE up == UpNeighbors(s, l)
           others == {<<q, s.ifs[l].nb[q].prio>> : q \in up}
           f == [q \in up |-> <<q, s.ifs[l].nb[q].prio>>]
           cands == {<<r, s.prio>>} \cup others
<1>1. s.ifs[l] \in Interface /\ s.prio \in Nat /\ r \in Nat
    BY Numbers DEF Engine
<1>2. up \subseteq Routers /\ \A q \in up : s.ifs[l].nb[q].prio \in Nat
    BY <1>1, InterfaceType DEF UpNeighbors
<1>3. cands \subseteq Nat \X Nat
  <2>1. \A q \in up : q \in Nat
    BY <1>2, IsisAssumption
  <2> QED
    BY <1>1, <1>2, <2>1
<1>4. IsFiniteSet(up)
    BY <1>2, FS_Subset, IsisAssumption
<1>5. f \in Surjection(up, others)
    BY DEF Surjection
<1>6. IsFiniteSet(others)
  <2> HIDE DEF f, others, up
  <2> QED
    BY <1>4, <1>5, FS_Surjection
<1>7. IsFiniteSet(cands)
  <2> HIDE DEF others
  <2>1. IsFiniteSet(others \cup {<<r, s.prio>>})
    BY <1>6, FS_AddElement
  <2>2. cands = others \cup {<<r, s.prio>>}
    OBVIOUS
  <2> QED
    BY <2>1, <2>2
<1>8. cands # {}
    OBVIOUS
<1>9. ElectDis(cands) \in cands
  <2> HIDE DEF cands
  <2> QED
    BY <1>3, <1>7, <1>8, Elected
<1>10. \A c \in cands : c[1] \in up \cup {r}
    OBVIOUS
<1> QED
    BY <1>9, <1>10

\* run_dis has to do with the pseudonode only.
LEMMA DisRun ==
    ASSUME NEW r \in Routers, NEW s \in Engine(r), NEW l \in LinksOf(r)
    PROVE  RunDis(s, r, l) \in Engine(r) /\ Step(s, RunDis(s, r, l), {PnKey(r)})
<1> DEFINE up == UpNeighbors(s, l)
           winner == ElectDis({<<r, s.prio>>} \cup {<<q, s.ifs[l].nb[q].prio>> : q \in up})[1]
           isDis == up # {} /\ winner = r
           dis == IF up = {} THEN <<>>
                  ELSE IF winner = r THEN <<r, PN>> ELSE s.ifs[l].nb[winner].lan
           i == [s.ifs[l] EXCEPT !.dis = dis, !.isDis = isDis]
           s1 == [s EXCEPT !.ifs[l] = i]
<1>1. s.ifs[l] \in Interface
    BY DEF Engine
<1>2. winner \in up \cup {r}
    BY Winner
<1> HIDE DEF winner
<1>3. dis \in {<<>>} \cup LanIds
  <2>1. \A q \in up : s.ifs[l].nb[q].lan \in LanIds
    BY <1>1, InterfaceType DEF UpNeighbors
  <2>2. <<r, PN>> \in LanIds
    BY DEF LanIds
  <2> QED
    BY <1>2, <2>1, <2>2
<1>4. i \in Interface
  <2> HIDE DEF dis
  <2> QED
    BY <1>1, <1>3 DEF Interface
<1>5. s1 \in Engine(r) /\ Step(s, s1, {})
  <2> HIDE DEF i
  <2> QED
    BY <1>4, Rewritten
<1>6. PnKey(r) \in Keys
    BY Numbers
<1>7. /\ ReoriginatePseudonode(s1, r, l) \in Engine(r)
      /\ Step(s1, ReoriginatePseudonode(s1, r, l), {PnKey(r)})
    BY <1>5, PseudonodeOriginated
<1>8. Step(s, s, {})
    BY Untouched
<1>9. RunDis(s, r, l) \in {s, s1, ReoriginatePseudonode(s1, r, l)}
    BY Zenon DEF RunDis, winner
<1> HIDE DEF s1
<1>10. {} \cup {PnKey(r)} = {PnKey(r)}
    OBVIOUS
<1>11. /\ Step(s, s, {PnKey(r)}) /\ Step(s, s1, {PnKey(r)})
       /\ Step(s, ReoriginatePseudonode(s1, r, l), {} \cup {PnKey(r)})
    BY <1>5, <1>6, <1>7, <1>8, Widen, Compose
<1> QED
    BY <1>5, <1>7, <1>9, <1>10, <1>11

-----------------------------------------------------------------------------
(* Hellos *)

Mine(r) == {OwnKey(r), PnKey(r)}

\* A handler that ends with an election, with a new LSP of our own, both or neither.
LEMMA Originates ==
    ASSUME NEW r \in Routers, NEW s, NEW s1 \in Engine(r), Step(s, s1, {}), NEW l \in LinksOf(r)
    PROVE  \A t \in {s1, RunDis(s1, r, l), Reoriginate(s1, r), Reoriginate(RunDis(s1, r, l), r)} :
              t \in Engine(r) /\ Step(s, t, Mine(r))
<1> DEFINE s2 == RunDis(s1, r, l)
           s3 == Reoriginate(s1, r)
           s4 == Reoriginate(s2, r)
<1>1. /\ OwnKey(r) \in Keys /\ PnKey(r) \in Keys /\ OwnKey(r) # PnKey(r)
      /\ {} \in SUBSET Keys /\ {OwnKey(r)} \in SUBSET Keys /\ {PnKey(r)} \in SUBSET Keys
      /\ {PnKey(r)} \cup {OwnKey(r)} = Mine(r) /\ Mine(r) \in SUBSET Keys
      /\ {} \cup {PnKey(r)} = {PnKey(r)} /\ {} \cup {OwnKey(r)} = {OwnKey(r)}
    BY Numbers DEF Mine
<1>2. s2 \in Engine(r) /\ Step(s1, s2, {PnKey(r)})
    BY DisRun
<1>3. s3 \in Engine(r) /\ Step(s1, s3, {OwnKey(r)})
    BY Reoriginated
<1> HIDE DEF s2, s3
<1>4. s4 \in Engine(r) /\ Step(s2, s4, {OwnKey(r)})
    BY <1>2, Reoriginated
<1> HIDE DEF s4
<1>5. Step(s, s2, {PnKey(r)})
    BY <1>1, <1>2, Compose
<1>6. Step(s, s3, {OwnKey(r)})
    BY <1>1, <1>3, Compose
<1>7. Step(s, s4, {PnKey(r)} \cup {OwnKey(r)})
    BY <1>1, <1>4, <1>5, Compose
<1>8. {} \subseteq Mine(r) /\ {PnKey(r)} \subseteq Mine(r) /\ {OwnKey(r)} \subseteq Mine(r)
    BY DEF Mine
<1>9. Step(s, s1, Mine(r)) /\ Step(s, s2, Mine(r)) /\ Step(s, s3, Mine(r)) /\ Step(s, s4, Mine(r))
    BY <1>1, <1>5, <1>6, <1>7, <1>8, Widen
<1> QED
    BY <1>2, <1>3, <1>4, <1>9 DEF s2, s3, s4

\* A Hello changes what is known of its sender, and through the election and the
\* reorigination no LSP but our own.
LEMMA HelloProcessed ==
    ASSUME NEW r \in Routers, NEW s \in Engine(r), NEW l \in LinksOf(r), NEW q \in Routers,
           NEW h, h.prio \in Nat, h.lan \in LanIds
    PROVE  /\ ProcessHello(s, r, l, q, h) \in Engine(r)
           /\ Step(s, ProcessHello(s, r, l, q, h), Mine(r))
<1> DEFINE nb == Heard(s.ifs[l].nb, r, q, h)
           i == [s.ifs[l] EXCEPT !.nb = nb]
           s1 == [s EXCEPT !.ifs[l] = i]
<1>1. s.ifs[l] \in Interface
    BY DEF Engine
<1>2. nb \in Neighbours
  <2>1. [up |-> r \in h.lists, prio |-> h.prio, lan |-> h.lan]
           \in [up : BOOLEAN, prio : Nat, lan : LanIds]
    OBVIOUS
  <2>2. nb \in [DOMAIN s.ifs[l].nb \cup {q} -> [up : BOOLEAN, prio : Nat, lan : LanIds]]
    BY <1>1, <2>1, InterfaceType DEF Heard, Put
  <2>3. DOMAIN s.ifs[l].nb \cup {q} \in SUBSET Routers
    BY <1>1, InterfaceType
  <2> QED
    BY <2>2, <2>3 DEF Neighbours
<1>3. i \in Interface
  <2> HIDE DEF nb
  <2> QED
    BY <1>1, <1>2 DEF Interface
<1>4. s1 \in Engine(r) /\ Step(s, s1, {})
  <2> HIDE DEF i
  <2> QED
    BY <1>3, Rewritten
<1>5. ProcessHello(s, r, l, q, h)
        \in {s1, RunDis(s1, r, l), Reoriginate(s1, r), Reoriginate(RunDis(s1, r, l), r)}
  <2>1. s1 = [s EXCEPT !.ifs[l].nb = Heard(@, r, q, h)]
    OBVIOUS
  <2> HIDE DEF s1
  <2>2. ProcessLanHello(s, r, l, q, h)
          \in {s1, RunDis(s1, r, l), Reoriginate(s1, r), Reoriginate(RunDis(s1, r, l), r)}
    BY <2>1 DEF ProcessLanHello
  <2>3. ProcessP2pHello(s, r, l, q, h) \in {s1, Reoriginate(s1, r)}
    BY <2>1 DEF ProcessP2pHello
  <2> QED
    BY <2>2, <2>3 DEF ProcessHello
<1> HIDE DEF s1
<1> QED
    BY <1>4, <1>5, Originates

\* The fields of a Hello.
LEMMA HelloType ==
    ASSUME NEW q \in Routers, NEW s \in Engine(q), NEW l \in LinksOf(q)
    PROVE  HelloOf(s, l).prio \in Nat /\ HelloOf(s, l).lan \in LanIds
<1>1. s.ifs[l] \in Interface /\ s.prio \in Nat
    BY DEF Engine
<1>2. s.ifs[l].dis \in {<<>>} \cup LanIds /\ <<0, 0>> \in LanIds
    BY <1>1, InterfaceType DEF LanIds
<1> QED
    BY <1>1, <1>2 DEF HelloOf

\* The loss of a neighbour has to do with our own LSPs only.
LEMMA NeighborRemoved ==
    ASSUME NEW r \in Routers, NEW s \in Engine(r), NEW l \in LinksOf(r), NEW q
    PROVE  /\ RemoveNeighbor(s, r, l, q) \in Engine(r)
           /\ Step(s, RemoveNeighbor(s, r, l, q), Mine(r))
<1> DEFINE nb == Remove(s.ifs[l].nb, q)
           i == [s.ifs[l] EXCEPT !.nb = nb]
           s1 == [s EXCEPT !.ifs[l] = i]
<1>1. s.ifs[l] \in Interface
    BY DEF Engine
<1>2. nb \in Neighbours
  <2>1. /\ nb \in [DOMAIN s.ifs[l].nb \ {q} -> [up : BOOLEAN, prio : Nat, lan : LanIds]]
        /\ DOMAIN s.ifs[l].nb \ {q} \in SUBSET Routers
    BY <1>1, InterfaceType DEF Remove
  <2> QED
    BY <2>1 DEF Neighbours
<1>3. i \in Interface
  <2> HIDE DEF nb
  <2> QED
    BY <1>1, <1>2 DEF Interface
<1>4. s1 \in Engine(r) /\ Step(s, s1, {})
  <2> HIDE DEF i
  <2> QED
    BY <1>3, Rewritten
<1>5. RemoveNeighbor(s, r, l, q)
        \in {s1, RunDis(s1, r, l), Reoriginate(s1, r), Reoriginate(RunDis(s1, r, l), r)}
  <2>1. s1 = [s EXCEPT !.ifs[l].nb = Remove(@, q)]
    OBVIOUS
  <2> HIDE DEF s1
  <2> QED
    BY <2>1 DEF RemoveNeighbor
<1> HIDE DEF s1
<1> QED
    BY <1>4, <1>5, Originates

-----------------------------------------------------------------------------
(* LSPs and sequence-number PDUs *)

\* process_lsp takes the instance up, or reclaims our LSP with a new one.
LEMMA LspProcessed ==
    ASSUME NEW r \in Routers, NEW s \in Engine(r), NEW l, NEW k \in Keys, NEW lsp \in LSP
    PROVE  LET t == ProcessLsp(s, r, l, k, lsp)
           IN  t \in Engine(r) /\ (Step(s, t, {OwnKey(r)}) \/ Learns(s, t, k, lsp))
<1> DEFINE s1 == [s EXCEPT !.seq = lsp.seq]
           u == [s EXCEPT !.db = Install(@, k, lsp)]
           t == ProcessLsp(s, r, l, k, lsp)
<1>1. CASE k = OwnKey(r) /\ lsp.seq > s.seq
  <2>1. s1 \in Engine(r) /\ s1.db = s.db /\ s1.out = s.out /\ s1.up = s.up
    BY DEF Engine, LSP
  <2>2. t = Reoriginate(s1, r)
    BY <1>1 DEF ProcessLsp
  <2> HIDE DEF s1, t
  <2>3. Step(s, s1, {}) /\ t \in Engine(r) /\ Step(s1, t, {OwnKey(r)})
    BY <2>1, <2>2, Untouched, Reoriginated
  <2>4. {} \in SUBSET Keys /\ {OwnKey(r)} \in SUBSET Keys /\ {} \cup {OwnKey(r)} = {OwnKey(r)}
    BY Numbers
  <2>5. Step(s, t, {OwnKey(r)})
    BY <2>3, <2>4, Compose
  <2> QED
    BY <2>3, <2>5 DEF t
<1>2. CASE ~(k = OwnKey(r) /\ lsp.seq > s.seq)
  <2>1. t \in {Flood(u, k, lsp, {l}), u}
    BY <1>2 DEF ProcessLsp
  <2> HIDE DEF t
  <2>2. /\ u \in Engine(r) /\ Flood(u, k, lsp, {l}) \in Engine(r)
        /\ Learns(s, u, k, lsp) /\ Learns(s, Flood(u, k, lsp, {l}), k, lsp)
    BY Stored
  <2> QED
    BY <2>1, <2>2 DEF t
<1> QED
    BY <1>1, <1>2

\* Finitely many keys.
LEMMA KeysFinite ==
    IsFiniteSet(Keys)
<1> DEFINE own == {OwnKey(r) : r \in Routers}
           pns == {PnKey(r) : r \in Routers}
           f == [r \in Routers |-> OwnKey(r)]
           g == [r \in Routers |-> PnKey(r)]
<1>1. f \in Surjection(Routers, own) /\ g \in Surjection(Routers, pns)
    BY DEF Surjection
<1>2. Keys = own \cup pns
    BY DEF Keys
<1> HIDE DEF f, g, own, pns
<1>3. IsFiniteSet(own) /\ IsFiniteSet(pns)
    BY <1>1, FS_Surjection, IsisAssumption
<1> QED
    BY <1>2, <1>3, FS_Union

\* SetToSeq lists the elements of a set of keys.
LEMMA Listed ==
    ASSUME NEW K \in SUBSET Keys
    PROVE  Cardinality(K) \in Nat /\ Seqs!SetToSeq(K) \in [1 .. Cardinality(K) -> K]
<1>1. IsFiniteSet(K)
    BY KeysFinite, FS_Subset
<1>2. Cardinality(K) \in Nat /\ ExistsBijection(1 .. Cardinality(K), K)
    BY <1>1, FS_CardinalityType
<1>3. PICK f \in Bijection(1 .. Cardinality(K), K) : TRUE
    BY <1>2 DEF ExistsBijection
<1>4. f \in [1 .. Cardinality(K) -> K] /\ Seqs!IsInjective(f)
    BY <1>3 DEF Bijection, Injection, Surjection, IsInjective, Seqs!IsInjective
<1>5. Seqs!Cardinality(K) = Cardinality(K)
    BY DEF Cardinality, Seqs!Cardinality
<1> QED
    BY <1>2, <1>4, <1>5 DEF Seqs!SetToSeq

\* What answers a CSNP or a PSNP are instances of the database.
LEMMA Answered ==
    ASSUME NEW r \in Routers, NEW s \in Engine(r), NEW K
    PROVE  /\ Pdus(s, K) \in Seq(Pdu)
           /\ \A i \in 1 .. Len(Pdus(s, K)) : \A j, x : Pdus(s, K)[i] = LspPdu(j, x) => Has(s, j, x)
<1> DEFINE D == K \cap DOMAIN s.db
           ids == Seqs!SetToSeq(D)
           n == Cardinality(D)
<1>1. s.db \in Lsdb
    BY DEF Engine
<1>2. D \in SUBSET Keys /\ \A k \in D : k \in DOMAIN s.db /\ s.db[k] \in LSP
    BY <1>1, DbType
<1>3. n \in Nat /\ ids \in [1 .. n -> D]
  <2> HIDE DEF D
  <2> QED
    BY <1>2, Listed
<1>4. Pdus(s, K) = [i \in DOMAIN ids |-> LspPdu(ids[i], s.db[ids[i]])]
    BY DEF Pdus
<1> HIDE DEF ids, n, D
<1>5. \A i \in 1 .. n : ids[i] \in Keys /\ ids[i] \in DOMAIN s.db /\ s.db[ids[i]] \in LSP
    BY <1>2, <1>3
<1>6. \A i \in 1 .. n : Pdus(s, K)[i] = LspPdu(ids[i], s.db[ids[i]])
    BY <1>3, <1>4
<1>7. Pdus(s, K) \in [1 .. n -> Pdu]
  <2>1. \A i \in 1 .. n : LspPdu(ids[i], s.db[ids[i]]) \in Pdu
    BY <1>5, LspPduType
  <2> QED
    BY <1>3, <1>4, <2>1
<1>8. Pdus(s, K) \in Seq(Pdu) /\ Len(Pdus(s, K)) = n
    BY <1>3, <1>7
<1>9. ASSUME NEW i \in 1 .. n, NEW j, NEW x, Pdus(s, K)[i] = LspPdu(j, x)
      PROVE  Has(s, j, x)
  <2>1. j = ids[i] /\ x = s.db[ids[i]]
    BY <1>5, <1>6, <1>9, LspPduType
  <2> QED
    BY <1>5, <2>1 DEF Has
<1> QED
    BY <1>8, <1>9

\* A step that only sends.
LEMMA Sending ==
    ASSUME NEW r \in Routers, NEW s \in Engine(r), NEW l, NEW msgs \in Seq(Pdu),
           \A i \in 1 .. Len(msgs) : \A j, x : msgs[i] = LspPdu(j, x) => Has(s, j, x)
    PROVE  SendOn(s, l, msgs) \in Engine(r) /\ Step(s, SendOn(s, l, msgs), {})
<1> DEFINE t == SendOn(s, l, msgs)
<1>1. /\ t \in Engine(r) /\ t.db = s.db /\ t.up = s.up
      /\ \A j, x : Has(t, j, x) => Has(s, j, x) \/ \E i \in 1 .. Len(msgs) : msgs[i] = LspPdu(j, x)
    BY SentOn
<1> HIDE DEF t
<1>2. \A j, x : Has(t, j, x) => Has(s, j, x)
    BY <1>1
<1>3. Step(s, t, {})
    BY <1>1, <1>2 DEF Step, SameDb
<1> QED
    BY <1>1, <1>3 DEF t

\* The number of fragments.
LEMMA Division ==
    ASSUME NEW a \in Nat, NEW b \in Nat \ {0}
    PROVE  (a + b - 1) \div b \in Nat
OBVIOUS

\* csnp_fragments are PDUs of their own type, and name keys.
LEMMA Fragments ==
    ASSUME NEW db \in Lsdb
    PROVE  /\ CsnpFragments(db) \in Seq(Csnps)
           /\ \A i \in DOMAIN CsnpFragments(db) :
                /\ CsnpFragments(db)[i].type = "csnp"
                /\ DOMAIN CsnpFragments(db)[i].entries \in SUBSET Keys
<1> DEFINE Rank(k) == Cardinality({j \in DOMAIN db : j <= k})
           n == (Cardinality(DOMAIN db) + MAX_CSNP_LSP_ENTRIES - 1) \div MAX_CSNP_LSP_ENTRIES
           In(i) == {k \in DOMAIN db : (Rank(k) - 1) \div MAX_CSNP_LSP_ENTRIES = i - 1}
           all == [type |-> "csnp", start |-> 0, end |-> Max(Keys), entries |-> NoLsps]
           Part(i) == [type |-> "csnp",
                       start |-> IF i = 1 THEN 0 ELSE Max(In(i - 1)),
                       end |-> IF i = n THEN Max(Keys) ELSE Max(In(i)),
                       entries |-> [k \in In(i) |-> db[k]]]
           frags == CsnpFragments(db)
<1>1. DOMAIN db \in SUBSET Keys
    BY DbType
<1>2. Cardinality(DOMAIN db) \in Nat
    BY <1>1, Listed
<1>3. n \in Nat
    BY <1>2, Division, IsisAssumption
<1>4. \A i : In(i) \in SUBSET Keys
    BY <1>1
<1>5. all.type = "csnp" /\ DOMAIN all.entries = {}
    BY DEF NoLsps
<1>6. \A i : Part(i).type = "csnp" /\ DOMAIN Part(i).entries = In(i)
  <2> HIDE DEF In, n
  <2> QED
    OBVIOUS
<1>7. frags = IF n = 0 THEN <<all>> ELSE [i \in 1 .. n |-> Part(i)]
    BY DEF CsnpFragments
<1> HIDE DEF frags, all, Part, In, n
<1>8. \E m \in Nat : frags \in [1 .. m -> {all} \cup {Part(i) : i \in 1 .. n}]
  <2>1. CASE n = 0
    <3>1. <<all>> \in [1 .. 1 -> {all} \cup {Part(i) : i \in 1 .. n}]
      OBVIOUS
    <3> QED
      BY <1>7, <2>1, <3>1
  <2>2. CASE n # 0
    BY <1>3, <1>7, <2>2
  <2> QED
    BY <2>1, <2>2
<1>9. \A i \in DOMAIN frags : frags[i].type = "csnp" /\ DOMAIN frags[i].entries \in SUBSET Keys
    BY <1>4, <1>5, <1>6, <1>8
<1>10. \A i \in DOMAIN frags : frags[i] \in Csnps
    BY DEF Csnps, frags
<1>11. frags \in Seq(Csnps)
    BY <1>8, <1>10
<1> QED
    BY <1>9, <1>11 DEF frags

\* process_csnp only sends what the database holds.
LEMMA CsnpProcessed ==
    ASSUME NEW r \in Routers, NEW s \in Engine(r), NEW l, NEW c \in Csnps
    PROVE  /\ c.type = "csnp"
           /\ ProcessCsnp(s, l, c) \in Engine(r) /\ Step(s, ProcessCsnp(s, l, c), {})
<1> DEFINE want == CsnpRequest(s.db, c)
           psnp == [type |-> "psnp", keys |-> want]
           req == IF want = {} THEN <<>> ELSE <<psnp>>
           pdus == Pdus(s, CsnpSend(s.db, c))
           msgs == pdus \o req
<1>1. c.type = "csnp" /\ DOMAIN c.entries \in SUBSET Keys
  <2>1. PICK db \in Lsdb : c \in {CsnpFragments(db)[i] : i \in DOMAIN CsnpFragments(db)}
    BY DEF Csnps
  <2> QED
    BY <2>1, Fragments
<1>2. want \in SUBSET Keys
    BY <1>1 DEF CsnpRequest
<1> HIDE DEF want
<1>3. psnp \in Pdu /\ \A j, x : psnp # LspPdu(j, x)
  <2>1. \A j, x : psnp.type # LspPdu(j, x).type
    BY DEF LspPdu
  <2> QED
    BY <1>2, <2>1 DEF Pdu, Psnps
<1> HIDE DEF psnp
<1>4. req \in Seq(Pdu) /\ \A i \in 1 .. Len(req) : req[i] = psnp
    BY <1>3
<1>5. /\ pdus \in Seq(Pdu)
      /\ \A i \in 1 .. Len(pdus) : \A j, x : pdus[i] = LspPdu(j, x) => Has(s, j, x)
    BY Answered
<1> HIDE DEF req, pdus
<1>6. msgs \in Seq(Pdu)
    BY <1>4, <1>5
<1>7. ASSUME NEW i \in 1 .. Len(msgs), NEW j, NEW x, msgs[i] = LspPdu(j, x)
      PROVE  Has(s, j, x)
  <2>1. \/ i \in 1 .. Len(pdus) /\ msgs[i] = pdus[i]
        \/ \E m \in 1 .. Len(req) : msgs[i] = req[m]
    BY <1>3, <1>4, <1>5, Queue
  <2> QED
    BY <1>3, <1>4, <1>5, <1>7, <2>1
<1>8. ProcessCsnp(s, l, c) = SendOn(s, l, msgs)
    BY DEF ProcessCsnp, want, psnp, req, pdus
<1> HIDE DEF msgs
<1> QED
    BY <1>1, <1>6, <1>7, <1>8, Sending

\* Whatever frame arrives, the engine takes up the instance in it, makes a new one of
\* its own, or does neither.
LEMMA FrameHandled ==
    ASSUME NEW r \in Routers, NEW s \in Engine(r), NEW l, NEW m \in Pdu
    PROVE  LET t == HandleFrame(s, r, l, m)
           IN  /\ t \in Engine(r)
               /\ \/ Step(s, t, Mine(r))
                  \/ \E k \in Keys, lsp \in LSP : m = LspPdu(k, lsp) /\ Learns(s, t, k, lsp)
<1> DEFINE t == HandleFrame(s, r, l, m)
<1>1. /\ {} \in SUBSET Keys /\ {OwnKey(r)} \in SUBSET Keys /\ Mine(r) \in SUBSET Keys
      /\ {} \subseteq Mine(r) /\ {OwnKey(r)} \subseteq Mine(r)
    BY Numbers DEF Mine
<1>2. CASE m \in LspPdus
  <2>1. PICK k \in Keys, lsp \in LSP : m = LspPdu(k, lsp)
    BY <1>2 DEF LspPdus
  <2>2. m.type = "lsp" /\ m.k = k /\ m.lsp = lsp
    BY <2>1 DEF LspPdu
  <2>3. t = ProcessLsp(s, r, l, k, lsp)
    BY <2>2 DEF HandleFrame
  <2>4. t \in Engine(r) /\ (Step(s, t, {OwnKey(r)}) \/ Learns(s, t, k, lsp))
    BY <2>3, LspProcessed
  <2> HIDE DEF t
  <2>5. Step(s, t, Mine(r)) \/ Learns(s, t, k, lsp)
    BY <1>1, <2>4, Widen
  <2> QED
    BY <2>1, <2>4, <2>5 DEF t
<1>3. CASE m \in Csnps
  <2>1. /\ m.type = "csnp"
        /\ ProcessCsnp(s, l, m) \in Engine(r) /\ Step(s, ProcessCsnp(s, l, m), {})
    BY <1>3, CsnpProcessed
  <2>2. t = ProcessCsnp(s, l, m)
    BY <2>1 DEF HandleFrame
  <2> HIDE DEF t
  <2>3. t \in Engine(r) /\ Step(s, t, Mine(r))
    BY <1>1, <2>1, <2>2, Widen
  <2> QED
    BY <2>3 DEF t
<1>4. CASE m \in Psnps
  <2>1. m.type = "psnp"
    BY <1>4 DEF Psnps
  <2>2. t = SendOn(s, l, Pdus(s, m.keys))
    BY <2>1 DEF HandleFrame, ProcessPsnp
  <2> HIDE DEF t
  <2>3. t \in Engine(r) /\ Step(s, t, {})
    BY <2>2, Answered, Sending
  <2>4. Step(s, t, Mine(r))
    BY <1>1, <2>3, Widen
  <2> QED
    BY <2>3, <2>4 DEF t
<1> QED
    BY <1>2, <1>3, <1>4 DEF Pdu

-----------------------------------------------------------------------------
(* The system *)

\* x is an instance of k that exists.
Known(k, x) == \E r \in Routers : Has(rt[r], k, x)

\* No instance that exists is more recent than the one recorded.
Recorded ==
    \A k \in Keys : \A x : Known(k, x) => issued[k] # None /\ ~CmpRecency(x, issued[k])

\* An engine that does not run has no database.
Idle == \A r \in Routers : ~rt[r].up => DOMAIN rt[r].db = {}

DbInv == TypeInv /\ Idle /\ Recorded

\* x is an instance of k that router r can make: of its own LSPs, or a lapsed copy of
\* the one it holds.
Makes(r, k, x) == Owner(k) = r \/ (k \in DOMAIN rt[r].db /\ x = Lapsed(rt[r].db[k]))

\* t follows the engine of r: no LSP goes back, and of each at most one instance
\* appears that did not exist.
Follows(r, t) ==
    /\ t \in Engine(r) /\ (~t.up => DOMAIN t.db = {})
    /\ \A k \in Keys :
         /\ Advances(rt[r], t, k)
         /\ \E y \in LSP : \A x : Has(t, k, x) => Known(k, x) \/ (x = y /\ Makes(r, k, x))

\* t has nothing more than the engine of q.
Stays(q, t) ==
    /\ t \in Engine(q) /\ t.up = rt[q].up /\ t.db = rt[q].db
    /\ \A k, x : Has(t, k, x) => Has(rt[q], k, x)

\* A step of router r.
Progress(r) ==
    /\ DOMAIN rt' = Routers /\ Follows(r, rt'[r])
    /\ \A q \in Routers \ {r} : Stays(q, rt'[q])

\* No CSNP or PSNP is taken for an LSP.
LEMMA PduTypes ==
    /\ \A c \in Csnps : c.type = "csnp"
    /\ \A c \in Psnps : c.type = "psnp"
<1>1. ASSUME NEW c \in Csnps PROVE c.type = "csnp"
  <2>1. PICK db \in Lsdb : c \in {CsnpFragments(db)[i] : i \in DOMAIN CsnpFragments(db)}
    BY DEF Csnps
  <2> QED
    BY <2>1, Fragments
<1> QED
    BY <1>1 DEF Psnps

\* The history looks at exactly the instances that exist.
LEMMA InstancesKnown ==
    EnginesTyped => \A k \in Keys : \A x : x \in Instances(k) <=> Known(k, x)
<1> SUFFICES ASSUME EnginesTyped, NEW k \in Keys
             PROVE  \A x : x \in Instances(k) <=> Known(k, x)
    OBVIOUS
<1>1. ASSUME NEW x, x \in Instances(k)
      PROVE  Known(k, x)
  <2>1. CASE x \in {rt[r].db[k] : r \in {q \in Routers : k \in DOMAIN rt[q].db}}
    BY <2>1 DEF Known, Has
  <2>2. ASSUME NEW r \in Routers, NEW p \in DOMAIN rt[r].out, NEW i \in DOMAIN rt[r].out[p],
               rt[r].out[p][i].type = "lsp", rt[r].out[p][i].k = k, rt[r].out[p][i].lsp = x
        PROVE  Known(k, x)
    <3>1. rt[r].out \in [Ports(r) -> Seq(Pdu)]
      BY DEF EnginesTyped, Engine
    <3>2. rt[r].out[p] \in Seq(Pdu)
      BY <3>1
    <3>3. i \in 1 .. Len(rt[r].out[p]) /\ rt[r].out[p][i] \in Pdu
      BY <3>2
    <3>4. rt[r].out[p][i] \in LspPdus
      BY <2>2, <3>3, PduTypes DEF Pdu
    <3>5. PICK j \in Keys, y \in LSP : rt[r].out[p][i] = LspPdu(j, y)
      BY <3>4 DEF LspPdus
    <3>6. LspPdu(j, y).k = j /\ LspPdu(j, y).lsp = y
      BY DEF LspPdu
    <3>7. rt[r].out[p][i] = LspPdu(k, x)
      BY <2>2, <3>5, <3>6
    <3> QED
      BY <3>3, <3>7 DEF Known, Has, Sends
  <2> QED
    BY <1>1, <2>1, <2>2 DEF Instances
<1>2. ASSUME NEW x, Known(k, x)
      PROVE  x \in Instances(k)
  <2>1. PICK r \in Routers : Has(rt[r], k, x)
    BY <1>2 DEF Known
  <2>2. CASE k \in DOMAIN rt[r].db /\ rt[r].db[k] = x
    BY <2>2 DEF Instances
  <2>3. CASE Sends(rt[r], k, x)
    <3>1. PICK p \in DOMAIN rt[r].out :
            \E i \in 1 .. Len(rt[r].out[p]) : rt[r].out[p][i] = LspPdu(k, x)
      BY <2>3 DEF Sends
    <3>2. PICK i \in 1 .. Len(rt[r].out[p]) : rt[r].out[p][i] = LspPdu(k, x)
      BY <3>1
    <3>3. rt[r].out \in [Ports(r) -> Seq(Pdu)]
      BY DEF EnginesTyped, Engine
    <3>4. i \in DOMAIN rt[r].out[p]
      BY <3>2, <3>3
    <3>5. LspPdu(k, x).type = "lsp" /\ LspPdu(k, x).k = k /\ LspPdu(k, x).lsp = x
      BY DEF LspPdu
    <3> QED
      BY <3>2, <3>4, <3>5 DEF Instances
  <2> QED
    BY <2>1, <2>2, <2>3 DEF Has
<1> QED
    BY <1>1, <1>2

\* They are LSPs.
LEMMA KnownType ==
    EnginesTyped => \A k \in Keys : \A x : Known(k, x) => x \in LSP
<1> SUFFICES ASSUME EnginesTyped, NEW k \in Keys, NEW x, NEW r \in Routers, Has(rt[r], k, x)
             PROVE  x \in LSP
    BY DEF Known
<1>1. rt[r] \in Engine(r)
    BY DEF EnginesTyped
<1>2. rt[r].db \in Lsdb /\ rt[r].out \in [Ports(r) -> Seq(Pdu)]
    BY <1>1 DEF Engine
<1>3. CASE k \in DOMAIN rt[r].db /\ rt[r].db[k] = x
    BY <1>2, <1>3, DbType
<1>4. CASE Sends(rt[r], k, x)
  <2>1. PICK p \in DOMAIN rt[r].out :
          \E i \in 1 .. Len(rt[r].out[p]) : rt[r].out[p][i] = LspPdu(k, x)
    BY <1>4 DEF Sends
  <2>2. LspPdu(k, x) \in Pdu
    BY <1>2, <2>1
  <2>3. LspPdu(k, x).type = "lsp" /\ LspPdu(k, x).lsp = x
    BY DEF LspPdu
  <2>4. LspPdu(k, x) \in LspPdus
    BY <2>2, <2>3, PduTypes DEF Pdu
  <2>5. PICK j \in Keys, y \in LSP : LspPdu(k, x) = LspPdu(j, y)
    BY <2>4 DEF LspPdus
  <2>6. LspPdu(j, y).lsp = y
    BY DEF LspPdu
  <2> QED
    BY <2>3, <2>5, <2>6
<1> QED
    BY <1>3, <1>4 DEF Has

\* Latest picks the one instance no other is more recent than.
LEMMA LatestIs ==
    ASSUME NEW S \in SUBSET LSP, NEW m \in S, \A x \in S : ~CmpRecency(x, m)
    PROVE  Latest(S) = m
<1>1. /\ Latest(S) \in S /\ \A x \in S : ~CmpRecency(x, Latest(S))
    BY DEF Latest
<1> QED
    BY <1>1, Recency

\* Of the instances S at most y is more recent than the recorded one, old.
Beyond(S, y, old) ==
    /\ S \in SUBSET LSP /\ y \in LSP /\ old \in LSP \cup {None}
    /\ \A x \in S : x = y \/ (old # None /\ ~CmpRecency(x, old))

\* The record of one LSP after a step.
LEMMA NewRecord ==
    ASSUME NEW S, NEW y, NEW old, Beyond(S, y, old), NEW T,
           T = S \cup ({old} \ {None}), NEW new, new = Latest(T)
    PROVE  /\ new \in LSP \cup {None}
           /\ \A x \in S : new # None /\ ~CmpRecency(x, new)
           /\ new # old => new = y /\ y \in S /\ (old # None => CmpRecency(y, old))
<1> USE DEF Beyond
<1>1. None \notin LSP /\ T \in SUBSET LSP
    BY IsisAssumption
<1>2. CASE T = {}
  <2>1. Latest(T) = None /\ S = {} /\ old = None
    BY <1>2 DEF Latest
  <2> QED
    BY <2>1
<1>3. CASE old = None /\ T # {}
  <2>1. T = {y} /\ S = {y}
    BY <1>3
  <2>2. Latest(T) = y
    BY <1>1, <2>1, LatestIs, Recency
  <2> QED
    BY <1>1, <1>3, <2>1, <2>2, Recency
<1>4. CASE old # None /\ y \in S /\ CmpRecency(y, old)
  <2>1. \A x \in T : ~CmpRecency(x, y)
    <3>1. SUFFICES ASSUME NEW x \in T, CmpRecency(x, y) PROVE FALSE
      OBVIOUS
    <3>2. x \in LSP /\ old \in LSP /\ CmpRecency(x, old)
      BY <1>1, <1>4, <3>1, Recency
    <3> QED
      BY <1>4, <3>1, <3>2, Recency
  <2>2. Latest(T) = y
    BY <1>1, <1>4, <2>1, LatestIs
  <2> QED
    BY <1>1, <1>4, <2>1, <2>2
<1>5. CASE old # None /\ ~(y \in S /\ CmpRecency(y, old))
  <2>1. old \in LSP /\ old \in T
    BY <1>5
  <2>2. \A x \in T : ~CmpRecency(x, old)
    BY <1>5, <2>1, Recency
  <2>3. Latest(T) = old
    BY <1>1, <2>1, <2>2, LatestIs
  <2> QED
    BY <1>5, <2>1, <2>2, <2>3
<1> QED
    BY <1>2, <1>3, <1>4, <1>5

\* A step of a router that is recorded is a step of the abstract database.
LEMMA DbStep ==
    ASSUME DbInv, NEW r \in Routers, Progress(r), Record, UNCHANGED net
    PROVE  DbInv' /\ Db!Next
<1>1. EnginesTyped' /\ EnginesTyped
  <2>1. \A q \in Routers : Engine(q)' = Engine(q)
    BY DEF Engine, Ports, LinksOf, Others
  <2> QED
    BY <2>1 DEF Progress, Follows, Stays, DbInv, TypeInv, EnginesTyped
<1>2. \A k \in Keys : \A x : x \in Instances(k)' <=> Known(k, x)'
  <2>1. EnginesTyped' => (\A k \in Keys : \A x : x \in Instances(k) <=> Known(k, x))'
    BY InstancesKnown, PTL
  <2> QED
    BY <1>1, <2>1
<1>3. \A k \in Keys : \A x : Known(k, x)' => x \in LSP
  <2>1. EnginesTyped' => (\A k \in Keys : \A x : Known(k, x) => x \in LSP)'
    BY KnownType, PTL
  <2> QED
    BY <1>1, <2>1
<1>4. ASSUME NEW k \in Keys
      PROVE  /\ issued'[k] \in LSP \cup {None}
             /\ \A x : Known(k, x)' => issued'[k] # None /\ ~CmpRecency(x, issued'[k])
             /\ issued'[k] # issued[k] =>
                  /\ issued'[k] # None
                  /\ issued[k] # None => ~CmpRecency(issued[k], issued'[k])
                  /\ \/ Owner(k) = r
                     \/ k \in DOMAIN rt[r].db /\ issued'[k] = Lapsed(rt[r].db[k])
  <2>1. issued[k] \in LSP \cup {None}
    BY DEF DbInv, TypeInv
  <2>2. \A x : Known(k, x) => issued[k] # None /\ ~CmpRecency(x, issued[k])
    BY DEF DbInv, Recorded
  <2>3. PICK y \in LSP : \A x : Has(rt'[r], k, x) => Known(k, x) \/ (x = y /\ Makes(r, k, x))
    BY DEF Progress, Follows
  <2>4. PICK S : S = Instances(k)'
    OBVIOUS
  <2>5. S \in SUBSET LSP /\ \A x : Known(k, x)' => x \in S
    BY <1>2, <1>3, <2>4
  <2>6. ASSUME NEW x \in S
        PROVE  /\ Known(k, x) \/ Makes(r, k, x)
               /\ x = y \/ (issued[k] # None /\ ~CmpRecency(x, issued[k]))
    <3>1. PICK q \in Routers : Has(rt'[q], k, x)
      BY <1>2, <2>4, <2>6 DEF Known, Has, Sends
    <3>2. Known(k, x) \/ (x = y /\ Makes(r, k, x))
      BY <2>3, <3>1 DEF Progress, Stays, Known
    <3> QED
      BY <2>2, <3>2
  <2>7. issued'[k] = Latest(S \cup ({issued[k]} \ {None}))
    BY <2>4 DEF Record
  <2>8. /\ issued'[k] \in LSP \cup {None}
        /\ \A x \in S : issued'[k] # None /\ ~CmpRecency(x, issued'[k])
        /\ issued'[k] # issued[k] =>
             issued'[k] = y /\ y \in S /\ (issued[k] # None => CmpRecency(y, issued[k]))
    <3>1. PICK old : old = issued[k]
      OBVIOUS
    <3>2. PICK new : new = issued'[k]
      OBVIOUS
    <3>3. PICK T : T = S \cup ({old} \ {None})
      OBVIOUS
    <3>4. new = Latest(T)
      BY <2>7, <3>1, <3>2, <3>3
    <3>5. Beyond(S, y, old)
      BY <2>1, <2>5, <2>6, <3>1 DEF Beyond
    <3>6. /\ new \in LSP \cup {None}
          /\ \A x \in S : new # None /\ ~CmpRecency(x, new)
          /\ new # old => new = y /\ y \in S /\ (old # None => CmpRecency(y, old))
      BY <3>3, <3>4, <3>5, NewRecord
    <3> QED
      BY <3>1, <3>2, <3>6
  <2>9. ASSUME issued'[k] # issued[k]
        PROVE  /\ issued'[k] # None /\ Makes(r, k, issued'[k])
               /\ issued[k] # None => ~CmpRecency(issued[k], issued'[k])
    <3>1. ~Known(k, y)
      BY <2>1, <2>2, <2>8, <2>9
    <3> QED
      BY <2>1, <2>6, <2>8, <2>9, <3>1, Recency, IsisAssumption
  <2> QED
    BY <2>5, <2>8, <2>9 DEF Makes
<1>5. DbInv'
  <2>1. issued' \in [Keys -> LSP \cup {None}]
    BY <1>4 DEF Record
  <2>2. Idle'
    BY DEF Progress, Follows, Stays, DbInv, Idle
  <2> QED
    BY <1>1, <1>4, <2>1, <2>2 DEF DbInv, TypeInv, Recorded
<1> DEFINE held == [q \in Routers |-> [k \in Keys |->
                        IF k \in DOMAIN rt[q].db THEN rt[q].db[k] ELSE None]]
<1>6. None \notin LSP
    BY IsisAssumption
<1>7. \A q \in Routers : \A k \in Keys :
        /\ k \in DOMAIN rt[q].db => held[q][k] = rt[q].db[k] /\ held[q][k] \in LSP
        /\ k \notin DOMAIN rt[q].db => held[q][k] = None
        /\ k \in DOMAIN rt'[q].db => held'[q][k] = rt'[q].db[k] /\ held'[q][k] \in LSP
        /\ k \notin DOMAIN rt'[q].db => held'[q][k] = None
  <2>1. \A q \in Routers : rt[q].db \in Lsdb /\ rt'[q].db \in Lsdb
    BY <1>1 DEF EnginesTyped, Engine, Progress, Follows, Stays
  <2> QED
    BY <2>1, DbType
<1>8. \A q \in Routers \ {r} : held'[q] = held[q]
    BY DEF Progress, Stays
<1>9. ASSUME NEW k \in Keys, held'[r][k] # held[r][k], held'[r][k] # None
      PROVE  Db!AtLeast(held'[r][k], held[r][k]) /\ Db!AtLeast(issued'[k], held'[r][k])
  <2>1. k \in DOMAIN rt'[r].db /\ held'[r][k] = rt'[r].db[k] /\ held'[r][k] \in LSP
    BY <1>7, <1>9
  <2>2. issued'[k] # None /\ issued'[k] \in LSP /\ ~CmpRecency(held'[r][k], issued'[k])
    <3>1. PICK x : x = held'[r][k]
      OBVIOUS
    <3>2. Has(rt'[r], k, x)
      BY <2>1, <3>1 DEF Has
    <3>3. Known(k, x)'
      BY <3>2 DEF Known, Has, Sends
    <3> QED
      BY <1>4, <3>1, <3>3
  <2>4. held[r][k] = None \/ (held[r][k] \in LSP /\ ~CmpRecency(held[r][k], held'[r][k]))
    <3>1. CASE k \in DOMAIN rt[r].db
      <4>1. CmpRecency(held'[r][k], held[r][k]) /\ held[r][k] \in LSP
        BY <1>7, <1>9, <2>1, <3>1 DEF Progress, Follows, Advances
      <4> QED
        BY <2>1, <4>1, Recency
    <3>2. CASE k \notin DOMAIN rt[r].db
      BY <1>7, <3>2
    <3> QED
      BY <3>1, <3>2
  <2> HIDE DEF held
  <2>5. Db!AtLeast(issued'[k], held'[r][k])
    BY <2>1, <2>2, Recency DEF Db!AtLeast
  <2>6. Db!AtLeast(held'[r][k], held[r][k])
    BY <1>9, <2>1, <2>4, Recency DEF Db!AtLeast
  <2> QED
    BY <2>5, <2>6
<1>10. ASSUME NEW k \in Keys, issued'[k] # issued[k]
       PROVE  /\ issued'[k] # None /\ Db!AtLeast(issued'[k], issued[k])
              /\ \/ Owner(k) = r
                 \/ held[r][k] # None /\ issued'[k] = Lapsed(held[r][k])
  <2>1. issued[k] \in LSP \cup {None} /\ issued'[k] \in LSP
    BY <1>4, <1>10 DEF DbInv, TypeInv
  <2>2. Db!AtLeast(issued'[k], issued[k])
    BY <1>4, <1>10, <2>1, Recency DEF Db!AtLeast
  <2> QED
    BY <1>4, <1>6, <1>7, <1>10, <2>2
<1>11. Db!Issue(r)
    BY <1>10 DEF Db!Issue
<1>12. Db!Move(r)
    BY <1>8, <1>9 DEF Db!Move
<1> QED
    BY <1>5, <1>11, <1>12 DEF Db!Next
-----------------------------------------------------------------------------
(* The actions *)

\* An engine that has to do with its own LSPs only.
LEMMA OwnStep ==
    ASSUME NEW r \in Routers, NEW s, NEW t \in Engine(r), Step(s, t, Mine(r)), s.up = TRUE,
           s.db = rt[r].db, s.out = rt[r].out
    PROVE  Follows(r, t)
<1>1. Mine(r) \in SUBSET Keys /\ \A k \in Mine(r) : Owner(k) = r
  BY Numbers DEF Mine
<1>2. \A k, x : Has(s, k, x) => Has(rt[r], k, x)
  BY DEF Has, Sends
<1>3. \A k, x : Has(s, k, x) => Known(k, x)
  BY <1>2 DEF Known
<1>4. t.up = TRUE
  BY DEF Step
<1>5. ASSUME NEW k \in Keys
      PROVE  /\ Advances(rt[r], t, k)
             /\ \E y \in LSP : \A x : Has(t, k, x) => Known(k, x) \/ (x = y /\ Makes(r, k, x))
  <2>1. CASE k \in Mine(r)
    <3>1. Advances(s, t, k)
      BY <2>1 DEF Step
    <3>2. PICK y \in LSP : \A x : Has(t, k, x) => Has(s, k, x) \/ x = y
      BY <2>1 DEF Step
    <3>3. \A x : Makes(r, k, x)
      BY <1>1, <2>1 DEF Makes
    <3> QED
      BY <3>1, <3>2, <3>3, <1>3 DEF Advances
  <2>2. CASE k \notin Mine(r)
    <3>1. SameDb(s, t, k) /\ \A x : Has(t, k, x) => Has(s, k, x)
      BY <2>2 DEF Step
    <3>2. [seq |-> 1, body |-> 0, live |-> TRUE] \in LSP
      BY DEF LSP
    <3> QED
      BY <3>1, <3>2, <1>3 DEF Advances, SameDb
  <2> QED
    BY <2>1, <2>2
<1> QED
  BY <1>4, <1>5 DEF Follows

\* One that takes up an instance of some LSP that exists.
LEMMA LearnStep ==
    ASSUME NEW r \in Routers, NEW t \in Engine(r), rt[r].up = TRUE, NEW k \in Keys, NEW lsp \in LSP,
           Learns(rt[r], t, k, lsp), Known(k, lsp)
    PROVE  Follows(r, t)
<1>1. t.up = TRUE
  BY DEF Learns
<1>2. \A j \in Keys : Advances(rt[r], t, j)
  BY DEF Learns, Advances, SameDb
<1>3. \A j \in Keys : \A x : Has(t, j, x) => Known(j, x)
  BY DEF Learns, Known
<1> QED
  BY <1>1, <1>2, <1>3 DEF Follows

\* Whoever does not move stays.
LEMMA Bystander ==
    ASSUME EnginesTyped, NEW q \in Routers
    PROVE  Stays(q, rt[q])
BY DEF EnginesTyped, Stays

\* One router's engine moves, the others stay.
LEMMA Moves ==
    ASSUME EnginesTyped, NEW r \in Routers, NEW t, Becomes(r, t), Follows(r, t)
    PROVE  Progress(r)
<1>1. DOMAIN rt' = Routers /\ rt'[r] = t /\ \A q \in Routers \ {r} : rt'[q] = rt[q]
  BY DEF EnginesTyped, Becomes
<1>2. \A q \in Routers \ {r} : Stays(q, rt'[q])
  BY <1>1, Bystander
<1> QED
  BY <1>1, <1>2 DEF Progress

\* An engine whose handler ends in t, having to do with its own LSPs only.
LEMMA MovesOwn ==
    ASSUME EnginesTyped, NEW r \in Routers, NEW t, Becomes(r, t), t \in Engine(r), rt[r].up,
           Step(rt[r], t, Mine(r))
    PROVE  Progress(r)
<1>1. rt[r].up = TRUE
  BY DEF EnginesTyped, Engine
<1>2. Follows(r, t)
  BY <1>1, OwnStep
<1> QED
  BY <1>2, Moves

\* The other end of a link is a router with a queue towards us.
LEMMA Topology ==
    ASSUME EnginesTyped, NEW r \in Routers, NEW l \in LinksOf(r), NEW q \in Others(r, l)
    PROVE  /\ q \in Routers /\ q # r /\ l \in LinksOf(q) /\ <<l, r>> \in Ports(q)
           /\ rt[r] \in Engine(r) /\ rt[q] \in Engine(q)
           /\ rt[q].out \in [Ports(q) -> Seq(Pdu)]
<1>1. l \in DOMAIN net /\ net[l].members \subseteq Routers /\ q \in net[l].members /\ q # r
      /\ r \in net[l].members
  BY IsisAssumption DEF EnginesTyped, LinksOf, Others
<1>2. q \in Routers /\ l \in LinksOf(q) /\ r \in Others(q, l)
  BY <1>1 DEF LinksOf, Others
<1>3. <<l, r>> \in {l} \X Others(q, l)
  BY <1>2
<1>4. <<l, r>> \in Ports(q)
  BY <1>2, <1>3 DEF Ports
<1>5. rt[q] \in Engine(q)
  BY <1>2 DEF EnginesTyped
<1> QED
  BY <1>1, <1>2, <1>4, <1>5 DEF EnginesTyped, Engine

\* The first PDU of a queue is gone.
LEMMA Eaten ==
    ASSUME EnginesTyped, Idle, NEW q \in Routers, NEW p \in Ports(q), rt[q].out[p] # <<>>,
           NEW t, t = [rt[q] EXCEPT !.out = [rt[q].out EXCEPT ![p] = Tail(rt[q].out[p])]]
    PROVE  /\ Stays(q, t) /\ Follows(q, t)
           /\ Head(rt[q].out[p]) \in Pdu
           /\ \A k, x : Head(rt[q].out[p]) = LspPdu(k, x) => Known(k, x)
<1> DEFINE w == [rt[q].out EXCEPT ![p] = Tail(rt[q].out[p])]
<1>1. rt[q] \in Engine(q) /\ rt[q].out \in [Ports(q) -> Seq(Pdu)]
  BY DEF EnginesTyped, Engine
<1>2. rt[q].out[p] \in Seq(Pdu)
  BY <1>1
<1>q. PICK o : o = rt[q].out[p]
  OBVIOUS
<1>e. [type |-> "psnp", keys |-> {}] \in Pdu
  BY DEF Pdu, Psnps
<1>3. /\ Tail(o) \in Seq(Pdu) /\ Head(o) = o[1] /\ 1 \in 1 .. Len(o)
      /\ \A i \in 1 .. Len(Tail(o)) : i + 1 \in 1 .. Len(o) /\ Tail(o)[i] = o[i + 1]
  BY <1>2, <1>q, <1>e, Queue
<1>4. w \in [Ports(q) -> Seq(Pdu)] /\ w[p] = Tail(o)
      /\ \A j \in Ports(q) \ {p} : w[j] = rt[q].out[j]
  BY <1>1, <1>3, <1>q
<1>5. DOMAIN w = Ports(q) /\ DOMAIN rt[q].out = Ports(q)
  BY <1>1, <1>4
<1> HIDE DEF w
<1>w. t = [rt[q] EXCEPT !.out = w]
  BY DEF w
<1>6. t \in Engine(q) /\ t.out = w /\ t.db = rt[q].db /\ t.up = rt[q].up
  <2>1. w \in [Ports(q) -> Seq(Pdu)]
    BY <1>4
  <2>2. PICK s \in Engine(q) : s = rt[q]
    BY <1>1
  <2>3. LET u == [s EXCEPT !.out = w] IN u \in Engine(q) /\ u.out = w /\ u.db = s.db /\ u.up = s.up
    BY <2>1, Rewired
  <2> QED
    BY <2>2, <2>3, <1>w
<1>7. ASSUME NEW k, NEW x, Sends(t, k, x) PROVE Sends(rt[q], k, x)
  <2>1. PICK j \in Ports(q) : \E i \in 1 .. Len(w[j]) : w[j][i] = LspPdu(k, x)
    BY <1>7, <1>6, <1>5 DEF Sends
  <2>2. PICK i \in 1 .. Len(w[j]) : w[j][i] = LspPdu(k, x)
    BY <2>1
  <2>3. CASE j = p
    BY <2>2, <2>3, <1>3, <1>4, <1>5, <1>q DEF Sends
  <2>4. CASE j # p
    BY <2>2, <2>4, <1>4, <1>5 DEF Sends
  <2> QED
    BY <2>3, <2>4
<1>8. \A k, x : Has(t, k, x) => Has(rt[q], k, x)
  BY <1>6, <1>7 DEF Has
<1>9. Stays(q, t)
  BY <1>6, <1>8 DEF Stays
<1>10. [seq |-> 1, body |-> 0, live |-> TRUE] \in LSP
  BY DEF LSP
<1>11. \A k \in Keys : Advances(rt[q], t, k)
  BY <1>6 DEF Advances
<1>12. \A k, x : Has(t, k, x) => Known(k, x)
  BY <1>8 DEF Known
<1>13. ~t.up => DOMAIN t.db = {}
  BY <1>6 DEF Idle
<1>14. Follows(q, t)
  BY <1>6, <1>10, <1>11, <1>12, <1>13 DEF Follows
<1>15. o[1] \in Pdu
  BY <1>2, <1>q, <1>3
<1>16. \A k, x : o[1] = LspPdu(k, x) => Sends(rt[q], k, x)
  BY <1>3, <1>5, <1>q DEF Sends
<1>17. \A k, x : o[1] = LspPdu(k, x) => Known(k, x)
  BY <1>16 DEF Known, Has
<1> QED
  BY <1>3, <1>9, <1>14, <1>15, <1>17, <1>q

\* A lost PDU: only a queue gets shorter.
LEMMA LoseMoves ==
    ASSUME EnginesTyped, Idle, NEW r \in Routers, NEW l \in LinksOf(r), NEW q \in Others(r, l),
           Lose(r, l, q)
    PROVE  Progress(q)
<1>1. q \in Routers /\ <<l, r>> \in Ports(q)
  BY Topology
<1>2. PICK t : t = [rt[q] EXCEPT !.out = [rt[q].out EXCEPT ![<<l, r>>] = Tail(rt[q].out[<<l, r>>])]]
  OBVIOUS
<1>3. Follows(q, t)
  BY <1>1, <1>2, Eaten DEF Lose
<1>4. Becomes(q, t)
  BY <1>2 DEF Lose, Becomes
<1> QED
  BY <1>1, <1>3, <1>4, Moves

\* A received PDU: its sender has one less on its way, and its receiver, if it runs, handles it.
LEMMA ReceiveMoves ==
    ASSUME EnginesTyped, Idle, NEW r \in Routers, NEW l \in LinksOf(r), NEW q \in Others(r, l),
           Receive(r, l, q)
    PROVE  \E n \in Routers : Progress(n)
<1>1. q \in Routers /\ <<l, r>> \in Ports(q) /\ q # r /\ rt[r] \in Engine(r)
  BY Topology
<1>2. PICK t : t = [rt[q] EXCEPT !.out = [rt[q].out EXCEPT ![<<l, r>>] = Tail(rt[q].out[<<l, r>>])]]
  OBVIOUS
<1>3. rt[q].out[<<l, r>>] # <<>>
  BY DEF Receive
<1>4. PICK m : m = Head(rt[q].out[<<l, r>>])
  OBVIOUS
<1>5. Stays(q, t) /\ Follows(q, t) /\ m \in Pdu /\ \A k, x : m = LspPdu(k, x) => Known(k, x)
  BY <1>1, <1>2, <1>3, <1>4, Eaten
<1>6. CASE rt[r].up
  <2>1. PICK u : u = HandleFrame(rt[r], r, l, m)
    OBVIOUS
  <2>2. rt' = [[rt EXCEPT ![q] = t] EXCEPT ![r] = u]
    BY <1>2, <1>4, <1>6, <2>1 DEF Receive
  <2>3. DOMAIN rt' = Routers /\ rt'[r] = u /\ rt'[q] = t
        /\ \A n \in Routers \ {r, q} : rt'[n] = rt[n]
    BY <1>1, <2>2 DEF EnginesTyped
  <2>4. /\ u \in Engine(r)
        /\ \/ Step(rt[r], u, Mine(r))
           \/ \E k \in Keys, lsp \in LSP : m = LspPdu(k, lsp) /\ Learns(rt[r], u, k, lsp)
    BY <1>1, <1>5, <2>1, FrameHandled
  <2>5. rt[r].up = TRUE
    BY <1>1, <1>6 DEF Engine
  <2>6. Follows(r, u)
    BY <2>4, <2>5, <1>5, OwnStep, LearnStep
  <2>7. \A n \in Routers \ {r} : Stays(n, rt'[n])
    BY <2>3, <1>5, Bystander
  <2> QED
    BY <2>3, <2>6, <2>7 DEF Progress
<1>7. CASE ~rt[r].up
  <2>1. Becomes(q, t)
    BY <1>2, <1>7 DEF Receive, Becomes
  <2> QED
    BY <1>1, <1>5, <2>1, Moves
<1> QED
  BY <1>6, <1>7

\* A stopped engine: nothing but what is still on its way.
LEMMA StoppedType ==
    ASSUME NEW r \in Routers, NEW o \in [Ports(r) -> Seq(Pdu)], NEW prio \in Nat
    PROVE  /\ Stopped(r, o) \in Engine(r)
           /\ [Stopped(r, o) EXCEPT !.up = TRUE, !.prio = prio] \in Engine(r)
           /\ NoLsps \in Lsdb /\ DOMAIN NoLsps = {}
           /\ Stopped(r, o).db = NoLsps /\ Stopped(r, o).out = o /\ ~Stopped(r, o).up
<1>1. NoLsps \in [{} -> LSP] /\ {} \in SUBSET Keys /\ DOMAIN NoLsps = {}
  BY DEF NoLsps
<1>2. NoLsps \in Lsdb
  BY <1>1 DEF Lsdb
<1>3. NoLsps \in [{} -> [up : BOOLEAN, prio : Nat, lan : LanIds]] /\ {} \in SUBSET Routers
  BY DEF NoLsps
<1>4. NoLsps \in Neighbours
  BY <1>3 DEF Neighbours
<1>5. [nb |-> NoLsps, dis |-> <<>>, isDis |-> FALSE, pn |-> 0] \in Interface
  BY <1>4 DEF Interface
<1>6. [l \in LinksOf(r) |-> [nb |-> NoLsps, dis |-> <<>>, isDis |-> FALSE, pn |-> 0]]
          \in [LinksOf(r) -> Interface]
  BY <1>5
<1>7. Stopped(r, o) \in Engine(r)
  BY <1>2, <1>6 DEF Stopped, Engine
<1>8. [Stopped(r, o) EXCEPT !.up = TRUE, !.prio = prio] \in Engine(r)
  BY <1>7 DEF Engine
<1> QED
  BY <1>1, <1>2, <1>7, <1>8 DEF Stopped

\* A started engine issues its own LSP; the database it starts with is empty.
LEMMA StartMoves ==
    ASSUME EnginesTyped, Idle, NEW r \in Routers, Start(r)
    PROVE  Progress(r)
<1>1. PICK l \in LinksOf(r) : \E prio \in PRIORITIES[net[l].type][r] :
          Becomes(r, Started(r, prio, rt[r].out))
  BY DEF Start
<1>2. PICK prio \in PRIORITIES[net[l].type][r] : Becomes(r, Started(r, prio, rt[r].out))
  BY <1>1
<1>3. prio \in Nat
  BY IsisAssumption DEF EnginesTyped, LinksOf
<1>4. rt[r] \in Engine(r) /\ rt[r].out \in [Ports(r) -> Seq(Pdu)] /\ rt[r].db \in Lsdb
  BY DEF EnginesTyped, Engine
<1>5. PICK o \in [Ports(r) -> Seq(Pdu)] : o = rt[r].out
  BY <1>4
<1>6. PICK s : s = [Stopped(r, o) EXCEPT !.up = TRUE, !.prio = prio]
  OBVIOUS
<1>7. s \in Engine(r) /\ s.up = TRUE /\ s.db = NoLsps /\ s.out = rt[r].out
  <2>1. s \in Engine(r)
    BY <1>3, <1>6, StoppedType
  <2>2. s.up = TRUE /\ s.db = NoLsps /\ s.out = rt[r].out
    BY <1>5, <1>6 DEF Stopped
  <2> QED
    BY <2>1, <2>2
<1>8. rt[r].db = NoLsps
  <2>1. DOMAIN rt[r].db = {} /\ rt[r].db \in [DOMAIN rt[r].db -> LSP]
    BY <1>4, DbType DEF Start, Idle
  <2> QED
    BY <2>1 DEF NoLsps
<1>9. PICK t : t = Reoriginate(s, r)
  OBVIOUS
<1>10. t \in Engine(r) /\ Step(s, t, {OwnKey(r)})
  BY <1>7, <1>9, Reoriginated
<1>11. Step(s, t, Mine(r))
  BY <1>10, Widen, Numbers DEF Mine
<1>12. Follows(r, t)
  BY <1>7, <1>8, <1>10, <1>11, OwnStep
<1>13. Becomes(r, t)
  BY <1>2, <1>5, <1>6, <1>9 DEF Started
<1> QED
  BY <1>12, <1>13, Moves

\* A stopped engine forgets its database.
LEMMA ShutdownMoves ==
    ASSUME EnginesTyped, NEW r \in Routers, Shutdown(r)
    PROVE  Progress(r)
<1>1. rt[r] \in Engine(r) /\ rt[r].out \in [Ports(r) -> Seq(Pdu)]
  BY DEF EnginesTyped, Engine
<1>2. PICK o \in [Ports(r) -> Seq(Pdu)] : o = rt[r].out
  BY <1>1
<1>3. PICK t : t = Stopped(r, o)
  OBVIOUS
<1>4. t \in Engine(r) /\ DOMAIN t.db = {} /\ t.out = rt[r].out
  BY <1>2, <1>3, StoppedType
<1>5. \A k, x : Has(t, k, x) => Known(k, x)
  BY <1>4 DEF Has, Sends, Known
<1>6. [seq |-> 1, body |-> 0, live |-> TRUE] \in LSP
  BY DEF LSP
<1>7. Follows(r, t)
  BY <1>4, <1>5, <1>6 DEF Follows, Advances
<1>8. Becomes(r, t)
  BY <1>2, <1>3 DEF Shutdown
<1> QED
  BY <1>7, <1>8, Moves

\* A Hello leads to an election, to a new LSP of our own, to both or to neither.
LEMMA HelloMoves ==
    ASSUME EnginesTyped, NEW r \in Routers, NEW l \in LinksOf(r), NEW q \in Others(r, l),
           Hello(r, l, q)
    PROVE  Progress(r)
<1>1. q \in Routers /\ l \in LinksOf(q) /\ rt[r] \in Engine(r) /\ rt[q] \in Engine(q)
  BY Topology
<1>2. PICK h : h = HelloOf(rt[q], l)
  OBVIOUS
<1>3. h.prio \in Nat /\ h.lan \in LanIds
  BY <1>1, <1>2, HelloType
<1>4. PICK t : t = ProcessHello(rt[r], r, l, q, h)
  OBVIOUS
<1>5. t \in Engine(r) /\ Step(rt[r], t, Mine(r))
  BY <1>1, <1>3, <1>4, HelloProcessed
<1> QED
  BY <1>2, <1>4, <1>5, MovesOwn DEF Hello

\* So does the loss of a neighbour.
LEMMA RemovalMoves ==
    ASSUME EnginesTyped, NEW r \in Routers, NEW l \in LinksOf(r), NEW q,
           HoldingTimeExpired(r, l, q) \/ ForceNeighborDown(r, l, q)
    PROVE  Progress(r)
<1>1. PICK t : t = RemoveNeighbor(rt[r], r, l, q)
  OBVIOUS
<1>2. rt[r] \in Engine(r)
  BY DEF EnginesTyped
<1>3. t \in Engine(r) /\ Step(rt[r], t, Mine(r))
  BY <1>1, <1>2, NeighborRemoved
<1> QED
  BY <1>1, <1>3, MovesOwn DEF HoldingTimeExpired, ForceNeighborDown

\* CSNPs carry no LSP.
LEMMA SendCsnpsMoves ==
    ASSUME EnginesTyped, NEW r \in Routers, NEW l \in LinksOf(r), SendCsnps(r, l)
    PROVE  Progress(r)
<1>1. rt[r] \in Engine(r) /\ rt[r].db \in Lsdb
  BY DEF EnginesTyped, Engine
<1>2. PICK msgs : msgs = CsnpFragments(rt[r].db)
  OBVIOUS
<1>3. msgs \in Seq(Csnps)
  BY <1>1, <1>2, Fragments
<1>4. msgs \in Seq(Pdu)
  BY <1>3 DEF Pdu
<1>5. \A i \in 1 .. Len(msgs) : msgs[i].type = "csnp"
  BY <1>3, PduTypes
<1>6. \A i \in 1 .. Len(msgs) : \A j, x : msgs[i] # LspPdu(j, x)
  BY <1>5 DEF LspPdu
<1>7. PICK t : t = SendOn(rt[r], l, msgs)
  OBVIOUS
<1>8. t \in Engine(r) /\ Step(rt[r], t, {})
  BY <1>1, <1>4, <1>6, <1>7, Sending
<1>9. Step(rt[r], t, Mine(r))
  BY <1>8, Widen, Numbers DEF Mine
<1> QED
  BY <1>2, <1>7, <1>8, <1>9, MovesOwn DEF SendCsnps

\* Our LSP refreshed.
LEMMA RefreshMoves ==
    ASSUME EnginesTyped, NEW r \in Routers, RefreshOwn(r)
    PROVE  Progress(r)
<1>1. PICK t : t = Reoriginate(rt[r], r)
  OBVIOUS
<1>2. rt[r] \in Engine(r)
  BY DEF EnginesTyped
<1>3. t \in Engine(r) /\ Step(rt[r], t, {OwnKey(r)})
  BY <1>1, <1>2, Reoriginated
<1>4. Step(rt[r], t, Mine(r))
  BY <1>3, Widen, Numbers DEF Mine
<1> QED
  BY <1>1, <1>3, <1>4, MovesOwn DEF RefreshOwn

\* The pseudonode's LSP refreshed.
LEMMA RefreshPseudonodeMoves ==
    ASSUME EnginesTyped, NEW r \in Routers, NEW l \in LinksOf(r), RefreshPseudonode(r, l)
    PROVE  Progress(r)
<1>1. PICK t : t = ReoriginatePseudonode(rt[r], r, l)
  OBVIOUS
<1>2. rt[r] \in Engine(r)
  BY DEF EnginesTyped
<1>3. t \in Engine(r) /\ Step(rt[r], t, {PnKey(r)})
  BY <1>1, <1>2, PseudonodeOriginated
<1>4. Step(rt[r], t, Mine(r))
  BY <1>3, Widen, Numbers DEF Mine
<1> QED
  BY <1>1, <1>3, <1>4, MovesOwn DEF RefreshPseudonode

\* A redistributed prefix comes or goes.
LEMMA RedistributionMoves ==
    ASSUME EnginesTyped, NEW r \in Routers, ApplyRedistribution(r)
    PROVE  Progress(r)
<1>1. rt[r] \in Engine(r)
  BY DEF EnginesTyped
<1>2. PICK s : s = [rt[r] EXCEPT !.ext = ~rt[r].ext]
  OBVIOUS
<1>3. s \in Engine(r)
  BY <1>1, <1>2 DEF Engine
<1>4. s.db = rt[r].db /\ s.out = rt[r].out /\ s.up = rt[r].up
  BY <1>1, <1>2 DEF Engine
<1>5. PICK t : t = Reoriginate(s, r)
  OBVIOUS
<1>6. t \in Engine(r) /\ Step(s, t, {OwnKey(r)})
  BY <1>3, <1>5, Reoriginated
<1>7. Step(s, t, Mine(r))
  BY <1>6, Widen, Numbers DEF Mine
<1>8. s.up = TRUE
  BY <1>1, <1>4 DEF ApplyRedistribution, Engine
<1>9. Follows(r, t)
  BY <1>4, <1>6, <1>7, <1>8, OwnStep
<1>10. Becomes(r, t)
  BY <1>2, <1>5 DEF ApplyRedistribution
<1> QED
  BY <1>9, <1>10, Moves

\* An LSP nobody refreshes runs out: its lapsed copy is the only new instance, and it is
\* more recent than the one held.
LEMMA AgeMoves ==
    ASSUME EnginesTyped, NEW r \in Routers, Age(r)
    PROVE  Progress(r)
<1>1. rt[r] \in Engine(r) /\ rt[r].db \in Lsdb /\ rt[r].up = TRUE
  BY DEF EnginesTyped, Engine, Age
<1>2. PICK k \in DOMAIN rt[r].db :
          rt[r].db[k].live /\ Becomes(r, [rt[r] EXCEPT !.db[k] = Lapsed(@)])
  BY DEF Age
<1>3. k \in Keys /\ rt[r].db[k] \in LSP /\ rt[r].db \in [DOMAIN rt[r].db -> LSP]
      /\ DOMAIN rt[r].db \in SUBSET Keys
  BY <1>1, DbType
<1>4. PICK y : y = Lapsed(rt[r].db[k])
  OBVIOUS
<1>5. y \in LSP /\ CmpRecency(y, rt[r].db[k])
  BY <1>2, <1>3, <1>4 DEF Lapsed, LSP, CmpRecency
<1>6. PICK d : d = [rt[r].db EXCEPT ![k] = y]
  OBVIOUS
<1>7. /\ d \in [DOMAIN rt[r].db -> LSP] /\ d[k] = y
      /\ \A j \in DOMAIN rt[r].db \ {k} : d[j] = rt[r].db[j]
  BY <1>2, <1>3, <1>5, <1>6
<1>8. d \in Lsdb /\ DOMAIN d = DOMAIN rt[r].db
  BY <1>3, <1>7 DEF Lsdb
<1>9. PICK t : t = [rt[r] EXCEPT !.db = d]
  OBVIOUS
<1>10. /\ t \in Engine(r) /\ t.db = d /\ t.up = rt[r].up
       /\ \A j, x : Has(t, j, x) => Has(rt[r], j, x) \/ (j \in DOMAIN d /\ x = d[j])
  BY <1>1, <1>8, <1>9, Refiled
<1>11. Becomes(r, t)
  BY <1>2, <1>4, <1>6, <1>9
<1>12. \A j \in Keys : Advances(rt[r], t, j)
  BY <1>5, <1>7, <1>8, <1>10 DEF Advances
<1>13. ASSUME NEW j \in Keys, NEW x, Has(t, j, x)
       PROVE  Known(j, x) \/ (x = y /\ Makes(r, j, x))
  <2>1. CASE Has(rt[r], j, x)
    BY <2>1 DEF Known
  <2>2. CASE j \in DOMAIN d /\ x = d[j] /\ j # k
    BY <2>2, <1>7, <1>8 DEF Known, Has
  <2>3. CASE j = k /\ x = d[k]
    BY <2>3, <1>2, <1>4, <1>7 DEF Makes
  <2> QED
    BY <2>1, <2>2, <2>3, <1>10, <1>13
<1>14. Follows(r, t)
  BY <1>1, <1>5, <1>10, <1>12, <1>13 DEF Follows
<1> QED
  BY <1>11, <1>14, Moves

-----------------------------------------------------------------------------
(* The specification *)

\* Every step is the progress of one router.
LEMMA StepMoves ==
    ASSUME DbInv, IsisStep
    PROVE  \E n \in Routers : Progress(n)
<1>1. EnginesTyped /\ Idle
  BY DEF DbInv, TypeInv
<1>2. PICK r \in Routers :
        \/ Start(r) \/ Age(r) \/ RefreshOwn(r) \/ ApplyRedistribution(r) \/ Shutdown(r)
        \/ \E l \in LinksOf(r) :
            \/ SendCsnps(r, l) \/ RefreshPseudonode(r, l)
            \/ \E q \in Others(r, l) :
                \/ Hello(r, l, q) \/ Receive(r, l, q) \/ Lose(r, l, q)
                \/ HoldingTimeExpired(r, l, q) \/ ForceNeighborDown(r, l, q)
  BY DEF IsisStep
<1>3. CASE Start(r)
  BY <1>1, <1>3, StartMoves
<1>4. CASE Age(r)
  BY <1>1, <1>4, AgeMoves
<1>5. CASE RefreshOwn(r)
  BY <1>1, <1>5, RefreshMoves
<1>6. CASE ApplyRedistribution(r)
  BY <1>1, <1>6, RedistributionMoves
<1>7. CASE Shutdown(r)
  BY <1>1, <1>7, ShutdownMoves
<1>8. ASSUME NEW l \in LinksOf(r), SendCsnps(r, l)
      PROVE  Progress(r)
  BY <1>1, <1>8, SendCsnpsMoves
<1>9. ASSUME NEW l \in LinksOf(r), RefreshPseudonode(r, l)
      PROVE  Progress(r)
  BY <1>1, <1>9, RefreshPseudonodeMoves
<1>10. ASSUME NEW l \in LinksOf(r), NEW q \in Others(r, l), Hello(r, l, q)
       PROVE  Progress(r)
  BY <1>1, <1>10, HelloMoves
<1>11. ASSUME NEW l \in LinksOf(r), NEW q \in Others(r, l), Receive(r, l, q)
       PROVE  \E n \in Routers : Progress(n)
  BY <1>1, <1>11, ReceiveMoves
<1>12. ASSUME NEW l \in LinksOf(r), NEW q \in Others(r, l), Lose(r, l, q)
       PROVE  q \in Routers /\ Progress(q)
  BY <1>1, <1>12, LoseMoves, Topology
<1>13. ASSUME NEW l \in LinksOf(r), NEW q \in Others(r, l),
              HoldingTimeExpired(r, l, q) \/ ForceNeighborDown(r, l, q)
       PROVE  Progress(r)
  BY <1>1, <1>13, RemovalMoves
<1> QED
  BY <1>2, <1>3, <1>4, <1>5, <1>6, <1>7, <1>8, <1>9, <1>10, <1>11, <1>12, <1>13

\* The initial states.
LEMMA StartState ==
    ASSUME IsisInit
    PROVE  DbInv /\ Db!Init
<1>1. ASSUME NEW r \in Routers
      PROVE  /\ rt[r] \in Engine(r) /\ DOMAIN rt[r].db = {} /\ \A k, x : ~Has(rt[r], k, x)
  <2>1. PICK o : o = [p \in Ports(r) |-> <<>>]
    OBVIOUS
  <2>2. o \in [Ports(r) -> Seq(Pdu)] /\ \A p \in DOMAIN o : o[p] = <<>>
    BY <2>1
  <2>3. rt[r] = Stopped(r, o)
    BY <2>1 DEF IsisInit
  <2>4. rt[r] \in Engine(r) /\ DOMAIN rt[r].db = {} /\ rt[r].out = o
    <3>1. 0 \in Nat
      OBVIOUS
    <3>2. Stopped(r, o) \in Engine(r) /\ Stopped(r, o).db = NoLsps /\ DOMAIN NoLsps = {}
          /\ Stopped(r, o).out = o
      BY <2>2, <3>1, StoppedType
    <3> QED
      BY <2>3, <3>2
  <2>5. \A p \in DOMAIN o : Len(o[p]) = 0
    BY <2>2
  <2>6. \A k, x : ~Sends(rt[r], k, x)
    BY <2>4, <2>5 DEF Sends
  <2> QED
    BY <2>4, <2>6 DEF Has
<1>2. EnginesTyped
  BY <1>1 DEF EnginesTyped, IsisInit
<1>3. TypeInv
  BY <1>2 DEF TypeInv, IsisInit
<1>4. Idle /\ Recorded
  BY <1>1 DEF Idle, Recorded, Known
<1>5. Db!Init
  BY <1>1 DEF Db!Init, IsisInit
<1> QED
  BY <1>3, <1>4, <1>5 DEF DbInv

\* The invariant is inductive, and under it every step is one of LinkStateDb or none.
LEMMA NextKeeps ==
    DbInv /\ [IsisNext]_isisVars => DbInv' /\ [Db!Next]_Db!dbVars
<1> SUFFICES ASSUME DbInv, [IsisNext]_isisVars
             PROVE  DbInv' /\ [Db!Next]_Db!dbVars
  OBVIOUS
<1>1. CASE IsisNext
  <2>1. PICK n \in Routers : Progress(n)
    BY <1>1, StepMoves DEF IsisNext
  <2> QED
    BY <1>1, <2>1, DbStep DEF IsisNext
<1>2. CASE UNCHANGED isisVars
  <2>1. rt' = rt /\ net' = net /\ issued' = issued
    BY <1>2 DEF isisVars
  <2>2. DbInv'
    <3>1. \A r : Ports(r)' = Ports(r) /\ LinksOf(r)' = LinksOf(r)
      BY <2>1 DEF Ports, LinksOf, Others
    <3>2. \A r : Engine(r)' = Engine(r)
      BY <3>1 DEF Engine
    <3>3. EnginesTyped'
      BY <2>1, <3>2 DEF DbInv, TypeInv, EnginesTyped
    <3>4. Idle' /\ Recorded' /\ (issued \in [Keys -> LSP \cup {None}])'
      BY <2>1 DEF DbInv, TypeInv, Idle, Recorded, Known
    <3> QED
      BY <3>3, <3>4 DEF DbInv, TypeInv
  <2>3. UNCHANGED Db!dbVars
    BY <2>1 DEF Db!dbVars
  <2> QED
    BY <2>2, <2>3
<1> QED
  BY <1>1, <1>2

\* The engines keep their types, an engine that does not run has no LSP database, and no
\* instance of an LSP, in a database or on its way, is more recent than the one on record
\* (the database and flooding of isis.rs and lsdb.rs).
THEOREM DatabaseKept == IsisSpec => []DbInv
<1>1. IsisInit => DbInv
  BY StartState
<1>2. DbInv /\ [IsisNext]_isisVars => DbInv'
  BY NextKeeps
<1> QED
  BY <1>1, <1>2, PTL DEF IsisSpec

\* Whatever is lost, reordered between links, restarted or re-elected, a router's copy of
\* an LSP is only replaced by a more recent one (process_lsp, install) or forgotten, new
\* instances come from the LSP's own system or from the copy that ran out, and no database
\* is ahead of what was originated: one level of IS-IS implements LinkStateDb.
THEOREM IsisImplements == IsisSpec => ImplementsDb
<1>1. IsisInit => DbInv /\ Db!Init
  BY StartState
<1>2. DbInv /\ [IsisNext]_isisVars => DbInv' /\ [Db!Next]_Db!dbVars
  BY NextKeeps
<1> QED
  BY <1>1, <1>2, PTL DEF IsisSpec, ImplementsDb, Db!DbSpec

-----------------------------------------------------------------------------
(* Roles *)

\* The candidates of an election, and what an interface's role has to be after it.
Candidates(s, r, l) ==
    {<<r, s.prio>>} \cup {<<q, s.ifs[l].nb[q].prio>> : q \in UpNeighbors(s, l)}

Elects(s, r, l) ==
    IF net[l].type = "p2p" THEN s.ifs[l].dis = <<>> /\ ~s.ifs[l].isDis
    ELSE /\ s.ifs[l].isDis <=> UpNeighbors(s, l) # {} /\ ElectDis(Candidates(s, r, l))[1] = r
         /\ UpNeighbors(s, l) = {} => s.ifs[l].dis = <<>>
         /\ s.ifs[l].isDis => s.ifs[l].dis = <<r, PN>>

HasRole(s, r, l) == DOMAIN s.ifs[l].nb \subseteq Others(r, l) /\ Elects(s, r, l)

Role(s, r) == \A l \in LinksOf(r) : HasRole(s, r, l)

\* Our own LSP in our database is the last we issued; no later than that.
Current(s, r) == OwnKey(r) \in DOMAIN s.db /\ s.db[OwnKey(r)].seq = s.seq
Behind(s, r)  == OwnKey(r) \in DOMAIN s.db => s.db[OwnKey(r)].seq <= s.seq

\* What holds of the engine t of router r.
Fit(r, t) == Role(t, r) /\ (t.up => Current(t, r))

\* From s to t neither an election's inputs and result nor our own LSP change.
SameOn(s, t, l) == /\ t.ifs[l].nb = s.ifs[l].nb /\ t.ifs[l].dis = s.ifs[l].dis
                   /\ t.ifs[l].isDis = s.ifs[l].isDis
Keeps(s, t, r)  == /\ t.up = s.up /\ t.prio = s.prio /\ t.seq = s.seq
                   /\ \A l \in LinksOf(r) : SameOn(s, t, l)
                   /\ SameDb(s, t, OwnKey(r))

\* The same interface state is the same role.
LEMMA SameRole ==
    ASSUME NEW r \in Routers, NEW l \in LinksOf(r), NEW s, NEW t, t.prio = s.prio, SameOn(s, t, l)
    PROVE  /\ UpNeighbors(t, l) = UpNeighbors(s, l) /\ Candidates(t, r, l) = Candidates(s, r, l)
           /\ HasRole(t, r, l) <=> HasRole(s, r, l)
<1>1. UpNeighbors(t, l) = UpNeighbors(s, l)
  BY DEF SameOn, UpNeighbors
<1>2. Candidates(t, r, l) = Candidates(s, r, l)
  BY <1>1 DEF SameOn, Candidates
<1> QED
  BY <1>1, <1>2 DEF HasRole, Elects, SameOn

\* A step that changes neither keeps an engine fit.
LEMMA KeepsFit ==
    ASSUME NEW r \in Routers, NEW s, NEW t, Keeps(s, t, r), Fit(r, s)
    PROVE  Fit(r, t)
<1>1. Role(t, r)
  BY SameRole DEF Keeps, Fit, Role
<1>2. t.up => Current(t, r)
  BY DEF Keeps, Fit, Current, SameDb
<1> QED
  BY <1>1, <1>2 DEF Fit

\* Flooding and sending touch the queues only.
LEMMA Wired ==
    ASSUME NEW r \in Routers, NEW s \in Engine(r), NEW w
    PROVE  LET t == [s EXCEPT !.out = w]
           IN  /\ t.up = s.up /\ t.prio = s.prio /\ t.seq = s.seq /\ t.db = s.db /\ t.ifs = s.ifs
               /\ t.ext = s.ext
BY DEF Engine

\* flood touches the queues only.
LEMMA FloodKeeps ==
    ASSUME NEW r \in Routers, NEW s \in Engine(r), NEW k, NEW lsp, NEW except
    PROVE  LET t == Flood(s, k, lsp, except)
           IN  t.up = s.up /\ t.prio = s.prio /\ t.seq = s.seq /\ t.db = s.db /\ t.ifs = s.ifs
<1>1. PICK w : w = [p \in DOMAIN s.out |->
                      IF p[1] \in except THEN s.out[p] ELSE Append(s.out[p], LspPdu(k, lsp))]
  OBVIOUS
<1>2. Flood(s, k, lsp, except) = [s EXCEPT !.out = w]
  BY <1>1 DEF Flood
<1> QED
  BY <1>2, Wired

\* So does send_on.
LEMMA SendKeeps ==
    ASSUME NEW r \in Routers, NEW s \in Engine(r), NEW l, NEW msgs
    PROVE  Keeps(s, SendOn(s, l, msgs), r)
<1>1. PICK w : w = [p \in DOMAIN s.out |-> IF p[1] = l THEN s.out[p] \o msgs ELSE s.out[p]]
  OBVIOUS
<1>2. SendOn(s, l, msgs) = [s EXCEPT !.out = w]
  BY <1>1 DEF SendOn
<1>3. PICK t : t = SendOn(s, l, msgs)
  OBVIOUS
<1>4. t.up = s.up /\ t.prio = s.prio /\ t.seq = s.seq /\ t.db = s.db /\ t.ifs = s.ifs
  BY <1>2, <1>3, Wired
<1>5. Keeps(s, t, r)
  BY <1>4 DEF Keeps, SameOn, SameDb
<1> QED
  BY <1>3, <1>5

\* An LSP stored: the database but for its key, and the rest of the engine, as before.
LEMMA StoreKeeps ==
    ASSUME NEW r \in Routers, NEW s \in Engine(r), NEW k \in Keys, NEW lsp \in LSP, NEW except
    PROVE  \A t \in {[s EXCEPT !.db = Install(@, k, lsp)],
                     Flood([s EXCEPT !.db = Install(@, k, lsp)], k, lsp, except)} :
             /\ t.up = s.up /\ t.prio = s.prio /\ t.seq = s.seq /\ t.ifs = s.ifs
             /\ t.db = Install(s.db, k, lsp)
<1>1. s.db \in Lsdb
  BY DEF Engine
<1>2. PICK d \in Lsdb : d = Install(s.db, k, lsp)
  BY <1>1, Installed
<1>3. PICK u : u = [s EXCEPT !.db = d]
  OBVIOUS
<1>4. u \in Engine(r) /\ u.up = s.up /\ u.prio = s.prio /\ u.seq = s.seq /\ u.ifs = s.ifs
      /\ u.db = d
  BY <1>3 DEF Engine
<1>5. PICK t : t = Flood(u, k, lsp, except)
  OBVIOUS
<1>6. t.up = u.up /\ t.prio = u.prio /\ t.seq = u.seq /\ t.db = u.db /\ t.ifs = u.ifs
  BY <1>4, <1>5, FloodKeeps
<1> QED
  BY <1>2, <1>3, <1>4, <1>5, <1>6

\* Reoriginating makes our LSP current, unless the database is ahead.
LEMMA ReoriginateCurrent ==
    ASSUME NEW r \in Routers, NEW s \in Engine(r), Behind(s, r)
    PROVE  LET t == Reoriginate(s, r)
           IN  t.up = s.up /\ t.prio = s.prio /\ t.ifs = s.ifs /\ Current(t, r) /\ t.seq = s.seq + 1
<1> DEFINE s1 == [s EXCEPT !.seq = s.seq + 1]
           lsp == Lsp(s.seq + 1, BuildOurLsp(s, r), TRUE)
           k == OwnKey(r)
           t == Reoriginate(s, r)
<1>1. s.seq \in Nat /\ s.db \in Lsdb
  BY DEF Engine
<1>2. /\ s1 \in Engine(r) /\ s1.db = s.db /\ s1.up = s.up /\ s1.prio = s.prio /\ s1.ifs = s.ifs
      /\ s1.seq = s.seq + 1
  BY <1>1 DEF Engine
<1>3. lsp \in LSP /\ k \in Keys /\ lsp.seq = s.seq + 1
  BY <1>1, Built, Numbers DEF Lsp, LSP
<1>4. t = Flood([s1 EXCEPT !.db = Install(@, k, lsp)], k, lsp, {})
  BY DEF Reoriginate, StoreAndFlood
<1> HIDE DEF s1, lsp, t, k
<1>5. t.up = s.up /\ t.prio = s.prio /\ t.ifs = s.ifs /\ t.seq = s.seq + 1
      /\ t.db = Install(s.db, k, lsp)
  BY <1>2, <1>3, <1>4, StoreKeeps
<1>6. k \in DOMAIN s.db => s.db[k].seq \in Nat /\ s.db[k].seq <= s.seq
  BY <1>1, DbType DEF Behind, LSP, k
<1>7. Changed(s.db, k, lsp)
  BY <1>1, <1>3, <1>6 DEF Changed, CmpRecency
<1>8. t.db = Put(s.db, k, lsp)
  BY <1>5, <1>7 DEF Install
<1>9. k \in DOMAIN t.db /\ t.db[k] = lsp
  BY <1>8 DEF Put
<1>10. Current(t, r)
  BY <1>3, <1>5, <1>9 DEF Current, k
<1> QED
  BY <1>5, <1>10 DEF t

\* The pseudonode's LSP, issued or flushed, is not our own.
LEMMA PseudonodeKeeps ==
    ASSUME NEW r \in Routers, NEW s \in Engine(r), NEW l \in LinksOf(r)
    PROVE  Keeps(s, ReoriginatePseudonode(s, r, l), r)
<1> DEFINE members == {NodeId(q, 0) : q \in UpNeighbors(s, l) \cup {r}}
           seq == s.ifs[l].pn + 1
           lsp == Lsp(seq, Checksum(members, FALSE), TRUE)
           i == [s.ifs[l] EXCEPT !.pn = seq]
           s1 == [s EXCEPT !.ifs[l] = i]
           k == PnKey(r)
           t == ReoriginatePseudonode(s, r, l)
<1>1. s.ifs \in [LinksOf(r) -> Interface] /\ s.ifs[l] \in Interface /\ s.db \in Lsdb
  BY DEF Engine
<1>2. k \in Keys /\ OwnKey(r) \in Keys /\ OwnKey(r) # k
  BY Numbers
<1>3. CASE s.ifs[l].isDis
  <2>1. seq \in Nat \ {0} /\ i \in Interface
    BY <1>1 DEF Interface
  <2>2. /\ i.nb = s.ifs[l].nb /\ i.dis = s.ifs[l].dis /\ i.isDis = s.ifs[l].isDis
    BY <1>1 DEF Interface
  <2>3. lsp \in LSP
    <3>1. UpNeighbors(s, l) \subseteq Routers
      BY <1>1, InterfaceType DEF UpNeighbors
    <3>2. members \in SUBSET (Keys \cup {NodeId(0, 0)})
      BY <3>1, NodeType
    <3> HIDE DEF members, seq
    <3>3. Checksum(members, FALSE) \in Nat
      BY <3>2, IsisAssumption
    <3> QED
      BY <2>1, <3>3 DEF Lsp, LSP
  <2>4. t = Flood([s1 EXCEPT !.db = Install(@, k, lsp)], k, lsp, {})
    BY <1>3 DEF ReoriginatePseudonode, StoreAndFlood
  <2> HIDE DEF i, lsp, t, k
  <2>5. s1 \in Engine(r) /\ s1.db = s.db
    BY <2>1, Rewritten
  <2>6. /\ s1.up = s.up /\ s1.prio = s.prio /\ s1.seq = s.seq
        /\ s1.ifs = [s.ifs EXCEPT ![l] = i]
    BY DEF Engine
  <2> HIDE DEF s1
  <2>7. t.up = s.up /\ t.prio = s.prio /\ t.seq = s.seq /\ t.ifs = s1.ifs
        /\ t.db = Install(s.db, k, lsp)
    BY <1>2, <2>3, <2>4, <2>5, <2>6, StoreKeeps
  <2>8. SameDb(s, t, OwnKey(r))
    <3>1. PICK d : d = Install(s.db, k, lsp)
      OBVIOUS
    <3>2. DOMAIN d = DOMAIN s.db \cup {k} /\ \A j \in DOMAIN s.db \ {k} : d[j] = s.db[j]
      <4>1. PICK b \in Lsdb : b = s.db
        BY <1>1
      <4>2. k \in Keys /\ lsp \in LSP
        BY <1>2, <2>3
      <4>3. /\ DOMAIN Install(b, k, lsp) = DOMAIN b \cup {k}
            /\ \A j \in DOMAIN b \ {k} : Install(b, k, lsp)[j] = b[j]
        BY <4>2, Installed
      <4> QED
        BY <3>1, <4>1, <4>3
    <3>3. t.db = d
      BY <2>7, <3>1
    <3> QED
      BY <1>2, <3>2, <3>3 DEF SameDb
  <2>9. \A j \in LinksOf(r) : SameOn(s, t, j)
    BY <1>1, <2>2, <2>6, <2>7 DEF SameOn
  <2> QED
    BY <2>7, <2>8, <2>9 DEF Keeps, t
<1>4. CASE ~s.ifs[l].isDis /\ k \in DOMAIN s.db
  <2>1. PICK d \in Lsdb : d = Remove(s.db, k)
    BY <1>1, Removed
  <2>2. PICK u : u = [s EXCEPT !.db = d]
    OBVIOUS
  <2>3. u \in Engine(r) /\ u.up = s.up /\ u.prio = s.prio /\ u.seq = s.seq /\ u.ifs = s.ifs
        /\ u.db = d
    BY <2>2 DEF Engine
  <2>4. PICK x : x = Lsp(s.db[k].seq + 1, s.db[k].body, FALSE)
    OBVIOUS
  <2>5. t = Flood(u, k, x, {})
    BY <1>4, <2>1, <2>2, <2>4 DEF ReoriginatePseudonode, FlushLsp
  <2> HIDE DEF t, k
  <2>6. t.up = s.up /\ t.prio = s.prio /\ t.seq = s.seq /\ t.db = d /\ t.ifs = s.ifs
    BY <2>3, <2>5, FloodKeeps
  <2>7. SameDb(s, t, OwnKey(r))
    <3>1. DOMAIN d = DOMAIN s.db \ {k} /\ \A j \in DOMAIN s.db \ {k} : d[j] = s.db[j]
      <4>1. PICK b \in Lsdb : b = s.db
        BY <1>1
      <4>2. /\ DOMAIN Remove(b, k) = DOMAIN b \ {k}
            /\ \A j \in DOMAIN b \ {k} : Remove(b, k)[j] = b[j]
        BY Removed
      <4> QED
        BY <2>1, <4>1, <4>2
    <3> QED
      BY <1>2, <2>6, <3>1 DEF SameDb
  <2> QED
    BY <2>6, <2>7 DEF Keeps, SameOn, t
<1>5. CASE ~s.ifs[l].isDis /\ k \notin DOMAIN s.db
  <2>1. t = s
    BY <1>5 DEF ReoriginatePseudonode, FlushLsp
  <2> HIDE DEF t
  <2>2. Keeps(s, s, r)
    BY DEF Keeps, SameOn, SameDb
  <2> QED
    BY <2>1, <2>2 DEF t
<1> QED
  BY <1>3, <1>4, <1>5

\* run_dis gives the interface the role of its neighbours' election.
LEMMA DisRole ==
    ASSUME NEW r \in Routers, NEW s \in Engine(r), NEW l \in LinksOf(r),
           DOMAIN s.ifs[l].nb \subseteq Others(r, l),
           net[l].type = "p2p" => s.ifs[l].dis = <<>> /\ ~s.ifs[l].isDis,
           \A j \in LinksOf(r) \ {l} : HasRole(s, r, j)
    PROVE  LET t == RunDis(s, r, l)
           IN  /\ Role(t, r) /\ t.up = s.up /\ t.prio = s.prio /\ t.seq = s.seq
               /\ SameDb(s, t, OwnKey(r)) /\ t.ifs[l].nb = s.ifs[l].nb
<1> DEFINE up == UpNeighbors(s, l)
           winner == ElectDis({<<r, s.prio>>} \cup {<<q, s.ifs[l].nb[q].prio>> : q \in up})[1]
           isDis == up # {} /\ winner = r
           dis == IF up = {} THEN <<>>
                  ELSE IF winner = r THEN <<r, PN>> ELSE s.ifs[l].nb[winner].lan
           i == [s.ifs[l] EXCEPT !.dis = dis, !.isDis = isDis]
           s1 == [s EXCEPT !.ifs[l] = i]
           t == RunDis(s, r, l)
<1>1. s.ifs \in [LinksOf(r) -> Interface] /\ s.ifs[l] \in Interface
  BY DEF Engine
<1>2. winner \in up \cup {r}
  BY Winner
<1>w. winner = ElectDis(Candidates(s, r, l))[1]
  BY DEF Candidates
<1>3. CASE net[l].type = "p2p"
  <2>1. t = s
    BY <1>3 DEF RunDis
  <2>2. HasRole(s, r, l)
    BY <1>3 DEF HasRole, Elects
  <2>3. Role(s, r)
    BY <2>2 DEF Role
  <2> HIDE DEF t
  <2> QED
    BY <2>1, <2>3 DEF SameDb, t
<1>4. CASE net[l].type # "p2p"
  <2>a. isDis \in BOOLEAN
    OBVIOUS
  <2>b. dis \in {<<>>} \cup LanIds
    <3> HIDE DEF winner
    <3>1. \A q \in up : s.ifs[l].nb[q].lan \in LanIds
      BY <1>1, InterfaceType DEF UpNeighbors
    <3>2. <<r, PN>> \in LanIds
      BY DEF LanIds
    <3> QED
      BY <1>2, <3>1, <3>2
  <2>c. (up = {} => dis = <<>>) /\ (isDis => dis = <<r, PN>>)
    <3> HIDE DEF winner, up
    <3>1. up = {} => dis = <<>>
      BY Zenon DEF dis
    <3>2. up # {} /\ winner = r => dis = <<r, PN>>
      BY Zenon DEF dis
    <3>3. isDis => up # {} /\ winner = r
      BY Zenon DEF isDis
    <3> HIDE DEF dis, isDis
    <3> QED
      BY <3>1, <3>2, <3>3
  <2>d. t = s1 \/ t = ReoriginatePseudonode(s1, r, l)
    BY <1>4, Zenon DEF RunDis
  <2>e. isDis <=> up # {} /\ ElectDis(Candidates(s, r, l))[1] = r
    BY <1>w
  <2> HIDE DEF winner, isDis, dis, up, t
  <2>1. i \in Interface /\ i.nb = s.ifs[l].nb /\ i.dis = dis /\ i.isDis = isDis
    BY <1>1, <2>a, <2>b DEF Interface
  <2> HIDE DEF i
  <2>2. s1 \in Engine(r) /\ s1.db = s.db /\ s1.ifs[l] = i /\ s1.prio = s.prio
    BY <2>1, Rewritten
  <2>3. s1.up = s.up /\ s1.seq = s.seq /\ s1.ifs = [s.ifs EXCEPT ![l] = i]
    BY DEF Engine
  <2> HIDE DEF s1
  <2>4. UpNeighbors(s1, l) = up /\ Candidates(s1, r, l) = Candidates(s, r, l)
    <3>1. UpNeighbors(s1, l) = up
      BY <2>1, <2>2 DEF UpNeighbors, up
    <3> QED
      BY <2>1, <2>2, <3>1 DEF Candidates, up
  <2>5. HasRole(s1, r, l)
    BY <1>4, <2>1, <2>2, <2>4, <2>c, <2>e DEF HasRole, Elects
  <2>6. ASSUME NEW j \in LinksOf(r) \ {l} PROVE HasRole(s1, r, j)
    <3>1. SameOn(s, s1, j)
      BY <1>1, <2>3 DEF SameOn
    <3> QED
      BY <2>2, <3>1, SameRole
  <2>7. Role(s1, r)
    BY <2>5, <2>6 DEF Role
  <2>8. Keeps(s1, t, r)
    <3>1. Keeps(s1, s1, r)
      BY DEF Keeps, SameOn, SameDb
    <3> QED
      BY <2>2, <2>d, <3>1, PseudonodeKeeps
  <2>9. Role(t, r)
    BY <2>7, <2>8, SameRole DEF Keeps, Role
  <2>10. t.up = s.up /\ t.prio = s.prio /\ t.seq = s.seq /\ SameDb(s, t, OwnKey(r))
         /\ t.ifs[l].nb = s.ifs[l].nb
    BY <2>1, <2>2, <2>3, <2>8 DEF Keeps, SameOn, SameDb
  <2> QED
    BY <2>9, <2>10 DEF t
<1> QED
  BY <1>3, <1>4

\* Reoriginating keeps the roles and makes our LSP current.
LEMMA ReoriginateFit ==
    ASSUME NEW r \in Routers, NEW s \in Engine(r), Role(s, r), Behind(s, r)
    PROVE  Fit(r, Reoriginate(s, r)) /\ Reoriginate(s, r).ifs = s.ifs
<1>1. PICK t : t = Reoriginate(s, r)
  OBVIOUS
<1>2. t.prio = s.prio /\ t.ifs = s.ifs /\ Current(t, r)
  BY <1>1, ReoriginateCurrent
<1>3. Role(t, r)
  BY <1>2, SameRole DEF Role, SameOn
<1> QED
  BY <1>1, <1>2, <1>3 DEF Fit

\* The neighbours on l are nb.
Lists(s, l, nb) == [s EXCEPT !.ifs[l] = [s.ifs[l] EXCEPT !.nb = nb]]

\* What that leads to.
Reached(s, s1, r, l, nb) ==
    /\ s1.ifs[l].nb = nb /\ s1 \in Engine(r)
    /\ RunDis(s1, r, l).ifs[l].nb = nb /\ Fit(r, RunDis(s1, r, l))
    /\ Reoriginate(RunDis(s1, r, l), r).ifs[l].nb = nb
    /\ Fit(r, Reoriginate(RunDis(s1, r, l), r))
    /\ Reoriginate(s1, r).ifs[l].nb = nb
    /\ net[l].type = "p2p" => Fit(r, s1) /\ Fit(r, Reoriginate(s1, r))
    /\ ( /\ UpNeighbors(s1, l) = UpNeighbors(s, l)
         /\ \A q \in UpNeighbors(s, l) : nb[q].prio = s.ifs[l].nb[q].prio ) => Fit(r, s1)

\* The neighbours of an interface change: after an election its role is right again; on a
\* point-to-point link, and where no candidate changes, it is without one.
LEMMA Relisted ==
    ASSUME EnginesTyped, NEW r \in Routers, NEW s \in Engine(r), NEW l \in LinksOf(r),
           Fit(r, s), s.up = TRUE,
           NEW nb \in Neighbours, DOMAIN nb \subseteq Others(r, l),
           NEW s1, s1 = Lists(s, l, nb)
    PROVE  Reached(s, s1, r, l, nb)
<1> DEFINE i == [s.ifs[l] EXCEPT !.nb = nb]
<1>1. s.ifs \in [LinksOf(r) -> Interface] /\ s.ifs[l] \in Interface /\ s.seq \in Nat
  BY DEF Engine
<1>2. i \in Interface /\ i.nb = nb /\ i.dis = s.ifs[l].dis /\ i.isDis = s.ifs[l].isDis
  BY <1>1 DEF Interface
<1>3. s1 = [s EXCEPT !.ifs[l] = i]
  BY DEF Lists
<1> HIDE DEF i
<1>4. s1 \in Engine(r) /\ s1.db = s.db /\ s1.ifs[l] = i /\ s1.prio = s.prio
  <2>1. LET x == [s EXCEPT !.ifs[l] = i]
        IN  x \in Engine(r) /\ x.db = s.db /\ x.ifs[l] = i /\ x.prio = s.prio
    BY <1>2, Rewritten
  <2> QED
    BY <1>3, <2>1
<1>5. s1.up = TRUE /\ s1.seq = s.seq /\ s1.ifs = [s.ifs EXCEPT ![l] = i]
  BY <1>3 DEF Engine
<1>6. Current(s, r) /\ Current(s1, r)
  BY <1>4, <1>5 DEF Fit, Current
<1>7. Behind(s1, r)
  BY <1>1, <1>5, <1>6 DEF Current, Behind
<1>8. \A j \in LinksOf(r) \ {l} : HasRole(s1, r, j)
  <2>1. \A j \in LinksOf(r) \ {l} : SameOn(s, s1, j)
    BY <1>1, <1>5 DEF SameOn
  <2> QED
    BY <1>4, <2>1, SameRole DEF Fit, Role
<1>9. HasRole(s, r, l)
  BY DEF Fit, Role
<1>10. net[l].type = "p2p" => s1.ifs[l].dis = <<>> /\ ~s1.ifs[l].isDis
  BY <1>2, <1>4, <1>9 DEF HasRole, Elects
<1>11. DOMAIN s1.ifs[l].nb \subseteq Others(r, l) /\ s1.ifs[l].nb = nb
  BY <1>2, <1>4
<1>12. PICK t : t = RunDis(s1, r, l)
  OBVIOUS
<1>13. /\ Role(t, r) /\ t.up = s1.up /\ t.prio = s1.prio /\ t.seq = s1.seq
       /\ SameDb(s1, t, OwnKey(r)) /\ t.ifs[l].nb = s1.ifs[l].nb
  BY <1>4, <1>8, <1>10, <1>11, <1>12, DisRole
<1>14. t \in Engine(r)
  BY <1>4, <1>12, DisRun
<1>15. Current(t, r) /\ Behind(t, r)
  BY <1>1, <1>5, <1>6, <1>13 DEF Current, Behind, SameDb
<1>16. Fit(r, t)
  BY <1>13, <1>15 DEF Fit
<1>17. Fit(r, Reoriginate(t, r)) /\ Reoriginate(t, r).ifs = t.ifs
  BY <1>13, <1>14, <1>15, ReoriginateFit
<1>18. Reoriginate(s1, r).ifs = s1.ifs
  BY <1>4, <1>7, ReoriginateCurrent
<1>19. ASSUME HasRole(s1, r, l)
       PROVE  Fit(r, s1) /\ Fit(r, Reoriginate(s1, r))
  <2>1. Role(s1, r)
    BY <1>8, <1>19 DEF Role
  <2>2. Fit(r, s1)
    BY <1>6, <2>1 DEF Fit
  <2> QED
    BY <1>4, <1>7, <2>1, <2>2, ReoriginateFit
<1>20. ASSUME net[l].type = "p2p" PROVE HasRole(s1, r, l)
  BY <1>10, <1>11, <1>20 DEF HasRole, Elects
<1>21. ASSUME UpNeighbors(s1, l) = UpNeighbors(s, l),
              \A q \in UpNeighbors(s, l) : nb[q].prio = s.ifs[l].nb[q].prio
       PROVE  HasRole(s1, r, l)
  <2>1. Candidates(s1, r, l) = Candidates(s, r, l)
    BY <1>4, <1>11, <1>21 DEF Candidates
  <2> QED
    BY <1>2, <1>4, <1>9, <1>11, <1>21, <2>1 DEF HasRole, Elects
<1> QED
  BY <1>4, <1>11, <1>12, <1>13, <1>16, <1>17, <1>18, <1>19, <1>20, <1>21 DEF Reached

\* A Hello: the neighbour is listed as it says, and every role is right after it.
LEMMA HelloFit ==
    ASSUME EnginesTyped, NEW r \in Routers, NEW s \in Engine(r), NEW l \in LinksOf(r),
           NEW q \in Others(r, l),
           NEW h, h.prio \in Nat, h.lan \in LanIds, Fit(r, s), s.up = TRUE
    PROVE  /\ Fit(r, ProcessHello(s, r, l, q, h))
           /\ ProcessHello(s, r, l, q, h).ifs[l].nb = Heard(s.ifs[l].nb, r, q, h)
<1> DEFINE new == [up |-> r \in h.lists, prio |-> h.prio, lan |-> h.lan]
           s1 == [s EXCEPT !.ifs[l] = [s.ifs[l] EXCEPT !.nb = Heard(s.ifs[l].nb, r, q, h)]]
<1>1. s.ifs[l] \in Interface /\ q \in Routers
  BY Topology DEF Engine
<1>2. PICK nb : nb = Heard(s.ifs[l].nb, r, q, h)
  OBVIOUS
<1>3. /\ nb \in Neighbours /\ DOMAIN nb = DOMAIN s.ifs[l].nb \cup {q} /\ nb[q] = new
      /\ \A p \in DOMAIN s.ifs[l].nb \ {q} : nb[p] = s.ifs[l].nb[p]
  <2>1. new \in [up : BOOLEAN, prio : Nat, lan : LanIds]
    OBVIOUS
  <2> HIDE DEF new
  <2>2. /\ nb \in [DOMAIN s.ifs[l].nb \cup {q} -> [up : BOOLEAN, prio : Nat, lan : LanIds]]
        /\ nb[q] = new /\ \A p \in DOMAIN s.ifs[l].nb \ {q} : nb[p] = s.ifs[l].nb[p]
    BY <1>1, <1>2, <2>1, InterfaceType DEF Heard, Put, new
  <2>3. DOMAIN s.ifs[l].nb \cup {q} \in SUBSET Routers
    BY <1>1, InterfaceType
  <2> QED
    BY <2>2, <2>3 DEF Neighbours
<1>4. DOMAIN nb \subseteq Others(r, l)
  BY <1>3 DEF Fit, Role, HasRole
<1>5. s1 = Lists(s, l, nb)
  BY <1>2 DEF Lists
<1>6. s1 = [s EXCEPT !.ifs[l].nb = Heard(@, r, q, h)]
  OBVIOUS
<1> HIDE DEF s1
<1>7. /\ s1.ifs[l].nb = nb /\ s1 \in Engine(r)
      /\ RunDis(s1, r, l).ifs[l].nb = nb /\ Fit(r, RunDis(s1, r, l))
      /\ Reoriginate(RunDis(s1, r, l), r).ifs[l].nb = nb /\ Fit(r, Reoriginate(RunDis(s1, r, l), r))
      /\ Reoriginate(s1, r).ifs[l].nb = nb
      /\ net[l].type = "p2p" => Fit(r, s1) /\ Fit(r, Reoriginate(s1, r))
      /\ UpNeighbors(s1, l) = UpNeighbors(s, l)
         /\ (\A p \in UpNeighbors(s, l) : nb[p].prio = s.ifs[l].nb[p].prio) => Fit(r, s1)
  <2>1. nb \in Neighbours
    BY <1>3
  <2> HIDE DEF s1
  <2>2. PICK u : u = s1
    OBVIOUS
  <2>3. u = Lists(s, l, nb)
    BY <1>5, <2>2
  <2>4. Reached(s, u, r, l, nb)
    BY <1>4, <2>1, <2>3, Relisted
  <2> QED
    BY <2>2, <2>4 DEF Reached
<1>8. CASE net[l].type = "lan"
  <2> DEFINE turned == IsUp(s, l, q) # IsUp(s1, l, q)
             oldPrio == IF q \in DOMAIN s.ifs[l].nb THEN s.ifs[l].nb[q].prio ELSE 0
             t == ProcessHello(s, r, l, q, h)
  <2>1. CASE turned
    <3>1. t = Reoriginate(RunDis(s1, r, l), r)
      BY <1>6, <1>8, <2>1 DEF ProcessHello, ProcessLanHello
    <3> QED
      BY <1>2, <1>7, <3>1
  <2>2. CASE ~turned /\ IsUp(s1, l, q) /\ oldPrio # h.prio
    <3>1. t = RunDis(s1, r, l)
      BY <1>6, <1>8, <2>2 DEF ProcessHello, ProcessLanHello
    <3> QED
      BY <1>2, <1>7, <3>1
  <2>3. CASE ~turned /\ ~(IsUp(s1, l, q) /\ oldPrio # h.prio)
    <3>1. t = s1
      BY <1>6, <1>8, <2>3 DEF ProcessHello, ProcessLanHello
    <3>2. IsUp(s, l, q) = IsUp(s1, l, q)
      BY <2>3
    <3>3. UpNeighbors(s1, l) = UpNeighbors(s, l)
      BY <1>3, <1>7, <3>2 DEF UpNeighbors, IsUp
    <3>4. ASSUME NEW p \in UpNeighbors(s, l)
          PROVE  nb[p].prio = s.ifs[l].nb[p].prio
      <4>1. CASE p = q
        <5>1. q \in DOMAIN s.ifs[l].nb /\ IsUp(s, l, q) /\ nb[q].prio = h.prio
          BY <1>3, <3>4, <4>1 DEF UpNeighbors, IsUp
        <5>2. oldPrio = h.prio
          BY <2>3, <3>2, <5>1
        <5> QED
          BY <4>1, <5>1, <5>2
      <4>2. CASE p # q
        BY <1>3, <3>4, <4>2 DEF UpNeighbors
      <4> QED
        BY <4>1, <4>2
    <3> QED
      BY <1>2, <1>7, <3>1, <3>3, <3>4
  <2> QED
    BY <2>1, <2>2, <2>3
<1>9. CASE net[l].type # "lan"
  <2>1. net[l].type = "p2p"
    BY <1>9, IsisAssumption DEF EnginesTyped, LinksOf
  <2>2. ProcessHello(s, r, l, q, h) \in {s1, Reoriginate(s1, r)}
    BY <1>6, <1>9 DEF ProcessHello, ProcessP2pHello
  <2> QED
    BY <1>2, <1>7, <2>1, <2>2
<1> QED
  BY <1>8, <1>9

\* The loss of a neighbour.
LEMMA RemovalFit ==
    ASSUME EnginesTyped, NEW r \in Routers, NEW s \in Engine(r), NEW l \in LinksOf(r),
           NEW q \in DOMAIN s.ifs[l].nb, Fit(r, s), s.up = TRUE
    PROVE  Fit(r, RemoveNeighbor(s, r, l, q))
<1> DEFINE s1 == [s EXCEPT !.ifs[l] = [s.ifs[l] EXCEPT !.nb = Remove(s.ifs[l].nb, q)]]
<1>1. s.ifs[l] \in Interface
  BY DEF Engine
<1>2. PICK nb : nb = Remove(s.ifs[l].nb, q)
  OBVIOUS
<1>3. /\ nb \in Neighbours /\ DOMAIN nb = DOMAIN s.ifs[l].nb \ {q}
      /\ \A p \in DOMAIN s.ifs[l].nb \ {q} : nb[p] = s.ifs[l].nb[p]
  <2>1. /\ nb \in [DOMAIN s.ifs[l].nb \ {q} -> [up : BOOLEAN, prio : Nat, lan : LanIds]]
        /\ DOMAIN s.ifs[l].nb \ {q} \in SUBSET Routers
    BY <1>1, <1>2, InterfaceType DEF Remove
  <2> QED
    BY <1>2, <2>1 DEF Neighbours, Remove
<1>4. DOMAIN nb \subseteq Others(r, l)
  BY <1>3 DEF Fit, Role, HasRole
<1>5. s1 = Lists(s, l, nb)
  BY <1>2 DEF Lists
<1>6. s1 = [s EXCEPT !.ifs[l].nb = Remove(@, q)]
  OBVIOUS
<1> HIDE DEF s1
<1>7. /\ s1.ifs[l].nb = nb
      /\ Fit(r, Reoriginate(RunDis(s1, r, l), r))
      /\ UpNeighbors(s1, l) = UpNeighbors(s, l)
         /\ (\A p \in UpNeighbors(s, l) : nb[p].prio = s.ifs[l].nb[p].prio) => Fit(r, s1)
  <2>1. nb \in Neighbours
    BY <1>3
  <2> HIDE DEF s1
  <2>2. PICK u : u = s1
    OBVIOUS
  <2>3. u = Lists(s, l, nb)
    BY <1>5, <2>2
  <2>4. Reached(s, u, r, l, nb)
    BY <1>4, <2>1, <2>3, Relisted
  <2> QED
    BY <2>2, <2>4 DEF Reached
<1>8. CASE s.ifs[l].nb[q].up
  BY <1>6, <1>7, <1>8 DEF RemoveNeighbor
<1>9. CASE ~s.ifs[l].nb[q].up
  <2>1. UpNeighbors(s1, l) = UpNeighbors(s, l)
    BY <1>3, <1>7, <1>9 DEF UpNeighbors
  <2>2. \A p \in UpNeighbors(s, l) : nb[p].prio = s.ifs[l].nb[p].prio
    BY <1>3, <1>9 DEF UpNeighbors
  <2>3. RemoveNeighbor(s, r, l, q) = s1
    BY <1>6, <1>9 DEF RemoveNeighbor
  <2> QED
    BY <1>7, <2>1, <2>2, <2>3
<1> QED
  BY <1>8, <1>9

\* An LSP taken up leaves our own at its number, and a reclaimed one is at a new number.
LEMMA LspFit ==
    ASSUME NEW r \in Routers, NEW s \in Engine(r), NEW l, NEW k \in Keys, NEW lsp \in LSP,
           Fit(r, s), s.up = TRUE
    PROVE  Fit(r, ProcessLsp(s, r, l, k, lsp))
<1> DEFINE u == [s EXCEPT !.db = Install(@, k, lsp)]
<1>1. s.seq \in Nat /\ s.db \in Lsdb /\ lsp.seq \in Nat
  BY DEF Engine, LSP
<1>2. Role(s, r) /\ OwnKey(r) \in DOMAIN s.db /\ s.db[OwnKey(r)].seq = s.seq
  BY DEF Fit, Current
<1>3. CASE k = OwnKey(r) /\ lsp.seq > s.seq
  <2>1. PICK s1 : s1 = [s EXCEPT !.seq = lsp.seq]
    OBVIOUS
  <2>2. s1 \in Engine(r) /\ s1.db = s.db /\ s1.prio = s.prio /\ s1.ifs = s.ifs /\ s1.seq = lsp.seq
    BY <1>1, <2>1 DEF Engine
  <2>3. Role(s1, r)
    BY <1>2, <2>2, SameRole DEF Role, SameOn
  <2>4. Behind(s1, r)
    BY <1>1, <1>2, <1>3, <2>2 DEF Behind
  <2>5. ProcessLsp(s, r, l, k, lsp) = Reoriginate(s1, r)
    BY <1>3, <2>1 DEF ProcessLsp
  <2> QED
    BY <2>2, <2>3, <2>4, <2>5, ReoriginateFit
<1>4. CASE ~(k = OwnKey(r) /\ lsp.seq > s.seq)
  <2>1. ProcessLsp(s, r, l, k, lsp) \in {u, Flood(u, k, lsp, {l})}
    BY <1>4 DEF ProcessLsp
  <2>2. PICK t : t = ProcessLsp(s, r, l, k, lsp)
    OBVIOUS
  <2>3. /\ t.up = s.up /\ t.prio = s.prio /\ t.seq = s.seq /\ t.ifs = s.ifs
        /\ t.db = Install(s.db, k, lsp)
    <3>1. CASE t = u
      BY <3>1, StoreKeeps
    <3>2. CASE t = Flood(u, k, lsp, {l})
      BY <3>2, StoreKeeps
    <3> QED
      BY <2>1, <2>2, <3>1, <3>2
  <2>4. Role(t, r)
    BY <1>2, <2>3, SameRole DEF Role, SameOn
  <2>5. PICK b \in Lsdb : b = s.db
    BY <1>1
  <2>6. PICK d : d = Install(b, k, lsp)
    OBVIOUS
  <2>7. /\ DOMAIN d = DOMAIN b \cup {k} /\ \A j \in DOMAIN b \ {k} : d[j] = b[j]
        /\ (Changed(b, k, lsp) /\ d[k] = lsp) \/ (k \in DOMAIN b /\ d[k] = b[k])
    <3>1. /\ DOMAIN Install(b, k, lsp) = DOMAIN b \cup {k}
          /\ \A j \in DOMAIN b \ {k} : Install(b, k, lsp)[j] = b[j]
          /\ \/ Changed(b, k, lsp) /\ Install(b, k, lsp)[k] = lsp
             \/ k \in DOMAIN b /\ Install(b, k, lsp)[k] = b[k]
      BY Installed
    <3> QED
      BY <2>6, <3>1
  <2>8. OwnKey(r) \in DOMAIN d /\ d[OwnKey(r)].seq = s.seq
    <3>1. CASE k # OwnKey(r)
      BY <1>2, <2>5, <2>7, <3>1
    <3>2. CASE k = OwnKey(r) /\ d[k] = b[k]
      BY <1>2, <2>5, <2>7, <3>2
    <3>3. CASE k = OwnKey(r) /\ Changed(b, k, lsp) /\ d[k] = lsp
      <4>1. lsp.seq <= s.seq
        BY <1>1, <1>4, <3>3
      <4>2. lsp.seq >= s.seq
        BY <1>1, <1>2, <2>5, <3>3 DEF Changed, CmpRecency
      <4> QED
        BY <1>1, <1>2, <2>5, <2>7, <3>3, <4>1, <4>2
    <3> QED
      BY <2>7, <3>1, <3>2, <3>3
  <2>9. Current(t, r)
    BY <2>3, <2>5, <2>6, <2>8 DEF Current
  <2> QED
    BY <2>2, <2>4, <2>9 DEF Fit
<1> QED
  BY <1>3, <1>4

\* Every PDU handled leaves the engine fit.
LEMMA FrameFit ==
    ASSUME NEW r \in Routers, NEW s \in Engine(r), NEW l, NEW m \in Pdu, Fit(r, s), s.up = TRUE
    PROVE  Fit(r, HandleFrame(s, r, l, m))
<1>1. CASE m \in LspPdus
  <2>1. PICK k \in Keys, lsp \in LSP : m = LspPdu(k, lsp)
    BY <1>1 DEF LspPdus
  <2>2. m.type = "lsp" /\ m.k = k /\ m.lsp = lsp
    BY <2>1 DEF LspPdu
  <2>3. HandleFrame(s, r, l, m) = ProcessLsp(s, r, l, k, lsp)
    BY <2>2 DEF HandleFrame
  <2> QED
    BY <2>3, LspFit
<1>2. CASE m \in Csnps \cup Psnps
  <2>1. m.type = "csnp" \/ m.type = "psnp"
    BY <1>2, PduTypes
  <2>2. PICK msgs : HandleFrame(s, r, l, m) = SendOn(s, l, msgs)
    BY <2>1 DEF HandleFrame, ProcessCsnp, ProcessPsnp
  <2> QED
    BY <2>2, SendKeeps, KeepsFit
<1> QED
  BY <1>1, <1>2 DEF Pdu

\* A stopped engine, and one that has just started.
LEMMA StoppedFit ==
    ASSUME NEW r \in Routers, NEW o \in [Ports(r) -> Seq(Pdu)], NEW prio \in Nat
    PROVE  Fit(r, Stopped(r, o)) /\ Fit(r, Started(r, prio, o))
<1>1. /\ Stopped(r, o) \in Engine(r) /\ ~Stopped(r, o).up
      /\ [Stopped(r, o) EXCEPT !.up = TRUE, !.prio = prio] \in Engine(r) /\ DOMAIN NoLsps = {}
  BY StoppedType
<1>2. ASSUME NEW t, \A l \in LinksOf(r) :
                 t.ifs[l] = [nb |-> NoLsps, dis |-> <<>>, isDis |-> FALSE, pn |-> 0]
      PROVE  Role(t, r)
  <2>1. \A l \in LinksOf(r) : UpNeighbors(t, l) = {}
    BY <1>1, <1>2 DEF UpNeighbors
  <2> QED
    BY <1>1, <1>2, <2>1 DEF Role, HasRole, Elects
<1>3. PICK s : s = [Stopped(r, o) EXCEPT !.up = TRUE, !.prio = prio]
  OBVIOUS
<1>4. s.db = NoLsps
      /\ \A l \in LinksOf(r) : s.ifs[l] = [nb |-> NoLsps, dis |-> <<>>, isDis |-> FALSE, pn |-> 0]
  BY <1>3 DEF Stopped
<1>5. Role(s, r) /\ Behind(s, r)
  BY <1>1, <1>2, <1>4 DEF Behind
<1>6. Fit(r, Reoriginate(s, r))
  BY <1>1, <1>3, <1>5, ReoriginateFit
<1>7. Role(Stopped(r, o), r)
  <2>1. PICK t : t = Stopped(r, o)
    OBVIOUS
  <2>2. \A l \in LinksOf(r) : t.ifs[l] = [nb |-> NoLsps, dis |-> <<>>, isDis |-> FALSE, pn |-> 0]
    BY <2>1 DEF Stopped
  <2> QED
    BY <1>2, <2>1, <2>2
<1> QED
  BY <1>1, <1>3, <1>6, <1>7 DEF Fit, Started

\* Every engine's roles are right, and its own LSP is current while it runs.
Sound == \A q \in Routers : Fit(q, rt[q])

RestInv == DbInv /\ Sound

\* A step that leaves every engine fit.
LEMMA SoundStep ==
    ASSUME UNCHANGED net, \A q \in Routers : Fit(q, rt'[q])
    PROVE  Sound'
<1> SUFFICES ASSUME NEW q \in Routers
             PROVE  Fit(q, rt[q])'
  BY DEF Sound
<1>1. PICK x : x = rt'[q]
  OBVIOUS
<1>2. Fit(q, x)
  BY <1>1
<1>3. LinksOf(q)' = LinksOf(q) /\ \A l : Others(q, l)' = Others(q, l)
  BY DEF LinksOf, Others
<1>4. ASSUME NEW l \in LinksOf(q)
      PROVE  HasRole(rt[q], q, l)'
  <2>1. HasRole(x, q, l)
    BY <1>2 DEF Fit, Role
  <2>2. UpNeighbors(rt[q], l)' = UpNeighbors(x, l)
    BY <1>1 DEF UpNeighbors
  <2>3. Candidates(rt[q], q, l)' = Candidates(x, q, l)
    BY <1>1, <2>2 DEF Candidates
  <2>4. Elects(rt[q], q, l)'
    BY <1>1, <2>1, <2>2, <2>3 DEF HasRole, Elects
  <2> QED
    BY <1>1, <1>3, <2>1, <2>4 DEF HasRole
<1>5. Role(rt[q], q)'
  BY <1>3, <1>4 DEF Role
<1>6. (rt[q].up => Current(rt[q], q))'
  BY <1>1, <1>2 DEF Fit, Current
<1> QED
  BY <1>5, <1>6 DEF Fit

\* One router's engine moves and stays fit.
LEMMA SoundMove ==
    ASSUME EnginesTyped, Sound, UNCHANGED net, NEW r \in Routers, NEW t, Becomes(r, t), Fit(r, t)
    PROVE  Sound'
<1>1. rt'[r] = t /\ \A q \in Routers \ {r} : rt'[q] = rt[q]
  BY DEF EnginesTyped, Becomes
<1>2. \A q \in Routers : Fit(q, rt'[q])
  BY <1>1 DEF Sound
<1> QED
  BY <1>2, SoundStep

\* A queue without its head.
LEMMA EatenFit ==
    ASSUME EnginesTyped, Sound, NEW q \in Routers, NEW w, NEW t, t = [rt[q] EXCEPT !.out = w]
    PROVE  Fit(q, t)
<1>1. rt[q] \in Engine(q) /\ Fit(q, rt[q])
  BY DEF EnginesTyped, Sound
<1>2. /\ t.up = rt[q].up /\ t.prio = rt[q].prio /\ t.seq = rt[q].seq /\ t.db = rt[q].db
      /\ t.ifs = rt[q].ifs
  BY <1>1, Wired
<1>3. Keeps(rt[q], t, q)
  BY <1>2 DEF Keeps, SameOn, SameDb
<1> QED
  BY <1>1, <1>3, KeepsFit

\* The steps on a link.
LEMMA LinkStepsSound ==
    ASSUME EnginesTyped, Idle, Sound, UNCHANGED net, NEW r \in Routers, NEW l \in LinksOf(r),
           NEW q \in Others(r, l),
           \/ Hello(r, l, q) \/ Receive(r, l, q) \/ Lose(r, l, q)
           \/ HoldingTimeExpired(r, l, q) \/ ForceNeighborDown(r, l, q)
    PROVE  Sound'
<1>1. /\ q \in Routers /\ <<l, r>> \in Ports(q) /\ q # r /\ l \in LinksOf(q)
      /\ rt[r] \in Engine(r) /\ rt[q] \in Engine(q)
  BY Topology
<1>2. Fit(r, rt[r]) /\ (rt[r].up => rt[r].up = TRUE)
  BY <1>1 DEF Sound, Engine
<1>3. CASE Hello(r, l, q)
  <2>1. PICK h : h = HelloOf(rt[q], l)
    OBVIOUS
  <2>2. h.prio \in Nat /\ h.lan \in LanIds
    BY <1>1, <2>1, HelloType
  <2>3. PICK t : t = ProcessHello(rt[r], r, l, q, h)
    OBVIOUS
  <2>4. Becomes(r, t) /\ rt[r].up = TRUE
    BY <1>2, <1>3, <2>1, <2>3 DEF Hello
  <2>5. Fit(r, t)
    BY <1>1, <1>2, <2>2, <2>3, <2>4, HelloFit
  <2> QED
    BY <2>4, <2>5, SoundMove
<1>4. CASE HoldingTimeExpired(r, l, q) \/ ForceNeighborDown(r, l, q)
  <2>1. PICK t : t = RemoveNeighbor(rt[r], r, l, q)
    OBVIOUS
  <2>2. Becomes(r, t) /\ rt[r].up = TRUE /\ q \in DOMAIN rt[r].ifs[l].nb
    BY <1>2, <1>4, <2>1 DEF HoldingTimeExpired, ForceNeighborDown, UpNeighbors
  <2>3. Fit(r, t)
    BY <1>1, <1>2, <2>1, <2>2, RemovalFit
  <2> QED
    BY <2>2, <2>3, SoundMove
<1>5. PICK w : w = [rt[q].out EXCEPT ![<<l, r>>] = Tail(rt[q].out[<<l, r>>])]
  OBVIOUS
<1>6. PICK e : e = [rt[q] EXCEPT !.out = w]
  OBVIOUS
<1>7. Fit(q, e)
  BY <1>1, <1>6, EatenFit
<1>8. CASE Lose(r, l, q)
  <2>1. Becomes(q, e)
    BY <1>5, <1>6, <1>8 DEF Lose, Becomes
  <2> QED
    BY <1>1, <1>7, <2>1, SoundMove
<1>9. CASE Receive(r, l, q) /\ ~rt[r].up
  <2>1. Becomes(q, e)
    BY <1>5, <1>6, <1>9 DEF Receive, Becomes
  <2> QED
    BY <1>1, <1>7, <2>1, SoundMove
<1>10. CASE Receive(r, l, q) /\ rt[r].up
  <2>1. PICK m : m = Head(rt[q].out[<<l, r>>])
    OBVIOUS
  <2>2. m \in Pdu
    BY <1>1, <1>5, <1>6, <1>10, <2>1, Eaten DEF Receive
  <2>3. PICK u : u = HandleFrame(rt[r], r, l, m)
    OBVIOUS
  <2>4. Fit(r, u)
    BY <1>1, <1>2, <1>10, <2>2, <2>3, FrameFit
  <2>5. rt' = [[rt EXCEPT ![q] = e] EXCEPT ![r] = u]
    BY <1>5, <1>6, <1>10, <2>1, <2>3 DEF Receive
  <2>6. rt'[r] = u /\ rt'[q] = e /\ \A n \in Routers \ {r, q} : rt'[n] = rt[n]
    BY <1>1, <2>5 DEF EnginesTyped
  <2>7. \A n \in Routers : Fit(n, rt'[n])
    BY <1>7, <2>4, <2>6 DEF Sound
  <2> QED
    BY <2>7, SoundStep
<1> QED
  BY <1>3, <1>4, <1>8, <1>9, <1>10

\* The steps of a router by itself.
LEMMA OwnStepsSound ==
    ASSUME EnginesTyped, Idle, Sound, UNCHANGED net, NEW r \in Routers,
           \/ Start(r) \/ Age(r) \/ RefreshOwn(r) \/ ApplyRedistribution(r) \/ Shutdown(r)
           \/ \E l \in LinksOf(r) : SendCsnps(r, l) \/ RefreshPseudonode(r, l)
    PROVE  Sound'
<1>1. /\ rt[r] \in Engine(r) /\ rt[r].db \in Lsdb /\ rt[r].seq \in Nat
      /\ rt[r].out \in [Ports(r) -> Seq(Pdu)]
  BY DEF EnginesTyped, Engine
<1>2. Fit(r, rt[r])
  BY DEF Sound
<1>3. PICK o \in [Ports(r) -> Seq(Pdu)] : o = rt[r].out
  BY <1>1
<1>4. CASE Start(r)
  <2>1. PICK l \in LinksOf(r) : \E prio \in PRIORITIES[net[l].type][r] :
            Becomes(r, Started(r, prio, rt[r].out))
    BY <1>4 DEF Start
  <2>2. PICK prio \in PRIORITIES[net[l].type][r] : Becomes(r, Started(r, prio, rt[r].out))
    BY <2>1
  <2>3. prio \in Nat
    BY IsisAssumption DEF EnginesTyped, LinksOf
  <2>4. PICK t : t = Started(r, prio, o)
    OBVIOUS
  <2>5. Fit(r, t) /\ Becomes(r, t)
    BY <1>3, <2>2, <2>3, <2>4, StoppedFit
  <2> QED
    BY <2>5, SoundMove
<1>5. CASE Shutdown(r)
  <2>1. PICK t : t = Stopped(r, o)
    OBVIOUS
  <2>2. Becomes(r, t) /\ 0 \in Nat
    BY <1>3, <1>5, <2>1 DEF Shutdown
  <2>3. Fit(r, t)
    BY <2>1, <2>2, StoppedFit
  <2> QED
    BY <2>2, <2>3, SoundMove
<1>6. CASE Age(r)
  <2>1. PICK k \in DOMAIN rt[r].db : Becomes(r, [rt[r] EXCEPT !.db[k] = Lapsed(@)])
    BY <1>6 DEF Age
  <2>2. rt[r].db[k] \in LSP /\ rt[r].db \in [DOMAIN rt[r].db -> LSP]
    BY <1>1, <2>1, DbType
  <2>3. PICK y : y = Lapsed(rt[r].db[k])
    OBVIOUS
  <2>4. y.seq = rt[r].db[k].seq
    BY <2>2, <2>3 DEF Lapsed, LSP
  <2>5. PICK d : d = [rt[r].db EXCEPT ![k] = y]
    OBVIOUS
  <2>6. DOMAIN d = DOMAIN rt[r].db /\ \A j \in DOMAIN d : d[j].seq = rt[r].db[j].seq
    BY <2>1, <2>2, <2>4, <2>5
  <2>7. PICK t : t = [rt[r] EXCEPT !.db = d]
    OBVIOUS
  <2>8. /\ t.db = d /\ t.up = rt[r].up /\ t.prio = rt[r].prio /\ t.seq = rt[r].seq
        /\ t.ifs = rt[r].ifs
    BY <1>1, <2>7 DEF Engine
  <2>9. Role(t, r)
    BY <1>2, <2>8, SameRole DEF Fit, Role, SameOn
  <2>10. t.up => Current(t, r)
    BY <1>2, <2>6, <2>8 DEF Fit, Current
  <2>11. Becomes(r, t)
    BY <2>1, <2>3, <2>5, <2>7
  <2>12. Fit(r, t)
    BY <2>9, <2>10 DEF Fit
  <2> QED
    BY <2>11, <2>12, SoundMove
<1>7. CASE RefreshOwn(r)
  <2>1. PICK t : t = Reoriginate(rt[r], r)
    OBVIOUS
  <2>2. Becomes(r, t) /\ rt[r].up
    BY <1>7, <2>1 DEF RefreshOwn
  <2>3. Role(rt[r], r) /\ Behind(rt[r], r)
    BY <1>1, <1>2, <2>2 DEF Fit, Current, Behind
  <2>4. Fit(r, t)
    BY <1>1, <2>1, <2>3, ReoriginateFit
  <2> QED
    BY <2>2, <2>4, SoundMove
<1>8. CASE ApplyRedistribution(r)
  <2>1. PICK s : s = [rt[r] EXCEPT !.ext = ~rt[r].ext]
    OBVIOUS
  <2>2. s \in Engine(r)
    BY <1>1, <2>1 DEF Engine
  <2>3. s.db = rt[r].db /\ s.prio = rt[r].prio /\ s.ifs = rt[r].ifs /\ s.seq = rt[r].seq
    BY <1>1, <2>1 DEF Engine
  <2>4. Role(s, r)
    BY <1>2, <2>3, SameRole DEF Fit, Role, SameOn
  <2>5. Behind(s, r)
    BY <1>1, <1>2, <1>8, <2>3 DEF Fit, Current, Behind, ApplyRedistribution
  <2>6. PICK t : t = Reoriginate(s, r)
    OBVIOUS
  <2>7. Becomes(r, t)
    BY <1>8, <2>1, <2>6 DEF ApplyRedistribution
  <2>8. Fit(r, t)
    BY <2>2, <2>4, <2>5, <2>6, ReoriginateFit
  <2> QED
    BY <2>7, <2>8, SoundMove
<1>9. ASSUME NEW l \in LinksOf(r), SendCsnps(r, l)
      PROVE  Sound'
  <2>1. PICK msgs : msgs = CsnpFragments(rt[r].db)
    OBVIOUS
  <2>2. PICK t : t = SendOn(rt[r], l, msgs)
    OBVIOUS
  <2>3. Becomes(r, t)
    BY <1>9, <2>1, <2>2 DEF SendCsnps
  <2>4. Fit(r, t)
    BY <1>1, <1>2, <2>2, SendKeeps, KeepsFit
  <2> QED
    BY <2>3, <2>4, SoundMove
<1>10. ASSUME NEW l \in LinksOf(r), RefreshPseudonode(r, l)
       PROVE  Sound'
  <2>1. PICK t : t = ReoriginatePseudonode(rt[r], r, l)
    OBVIOUS
  <2>2. Becomes(r, t)
    BY <1>10, <2>1 DEF RefreshPseudonode
  <2>3. Fit(r, t)
    BY <1>1, <1>2, <2>1, PseudonodeKeeps, KeepsFit
  <2> QED
    BY <2>2, <2>3, SoundMove
<1> QED
  BY <1>4, <1>5, <1>6, <1>7, <1>8, <1>9, <1>10

-----------------------------------------------------------------------------
(* At rest *)

\* The types and roles follow.
LEMMA RestTypes ==
    ASSUME RestInv
    PROVE  IsisTypeOK
<1> SUFFICES ASSUME NEW r \in Routers
             PROVE  /\ \A k \in DOMAIN rt[r].db : k \in Keys /\ rt[r].db[k] \in LSP
                    /\ rt[r].up \in BOOLEAN
                    /\ \A l \in LinksOf(r) :
                         /\ DOMAIN rt[r].ifs[l].nb \subseteq Others(r, l)
                         /\ rt[r].ifs[l].isDis =>
                              UpNeighbors(rt[r], l) # {} /\ rt[r].ifs[l].dis = <<r, PN>>
                         /\ UpNeighbors(rt[r], l) = {} => rt[r].ifs[l].dis = <<>>
                         /\ net[l].type = "p2p" => rt[r].ifs[l].dis = <<>> /\ ~rt[r].ifs[l].isDis
  BY DEF IsisTypeOK
<1>1. rt[r] \in Engine(r) /\ rt[r].db \in Lsdb /\ rt[r].up \in BOOLEAN
  BY DEF RestInv, DbInv, TypeInv, EnginesTyped, Engine
<1>2. \A k \in DOMAIN rt[r].db : k \in Keys /\ rt[r].db[k] \in LSP
  BY <1>1, DbType
<1>3. \A l \in LinksOf(r) : HasRole(rt[r], r, l)
  BY DEF RestInv, Sound, Fit, Role
<1> QED
  BY <1>1, <1>2, <1>3 DEF HasRole, Elects

\* At rest a neighbour's copy of our LSP is ours.
LEMMA RestReclaimed ==
    ASSUME RestInv
    PROVE  LspReclaimed
<1> SUFFICES ASSUME AtRest, NEW l \in DOMAIN net, NEW r \in net[l].members, NEW q \in net[l].members
             PROVE  OwnKey(r) \in DOMAIN rt[q].db /\ rt[q].db[OwnKey(r)].seq = rt[r].seq
  BY DEF LspReclaimed
<1>1. r \in Routers
  BY IsisAssumption DEF RestInv, DbInv, TypeInv, EnginesTyped
<1>2. rt[r].up
  BY DEF AtRest
<1>3. Current(rt[r], r)
  BY <1>1, <1>2 DEF RestInv, Sound, Fit
<1>4. rt[q].db = rt[r].db
  BY DEF AtRest, Others
<1> QED
  BY <1>3, <1>4 DEF Current

\* At rest the members of a LAN all see each other, with the priorities they have.
LEMMA SeeEachOther ==
    ASSUME RestInv, AtRest, NEW l \in DOMAIN net, NEW r \in net[l].members
    PROVE  /\ r \in Routers /\ l \in LinksOf(r)
           /\ UpNeighbors(rt[r], l) = net[l].members \ {r}
           /\ Candidates(rt[r], r, l) = {<<q, rt[q].prio>> : q \in net[l].members}
<1>1. EnginesTyped /\ Sound /\ net[l].members \subseteq Routers
  BY IsisAssumption DEF RestInv, DbInv, TypeInv, EnginesTyped
<1>2. \A p \in net[l].members : /\ p \in Routers /\ l \in LinksOf(p) /\ rt[p] \in Engine(p)
                                /\ rt[p].up = TRUE /\ Fit(p, rt[p])
  <2>1. \A p \in net[l].members : p \in Routers /\ l \in LinksOf(p) /\ rt[p] \in Engine(p)
                                  /\ rt[p].up /\ Fit(p, rt[p])
    BY <1>1 DEF AtRest, LinksOf, EnginesTyped, Sound
  <2> QED
    BY <2>1 DEF Engine
<1>3. ASSUME NEW p \in net[l].members, NEW q \in Others(p, l)
      PROVE  /\ q \in DOMAIN rt[p].ifs[l].nb
             /\ rt[p].ifs[l].nb[q].up <=> p \in DOMAIN rt[q].ifs[l].nb
             /\ rt[p].ifs[l].nb[q].prio = rt[q].prio
  <2>1. q \in net[l].members
    BY DEF Others
  <2>2. PICK h : h = HelloOf(rt[q], l)
    OBVIOUS
  <2>3. h.prio \in Nat /\ h.lan \in LanIds /\ h.prio = rt[q].prio
        /\ h.lists = DOMAIN rt[q].ifs[l].nb
    <3>1. h.prio \in Nat /\ h.lan \in LanIds
      BY <1>2, <2>1, <2>2, HelloType
    <3>2. h.prio = rt[q].prio /\ h.lists = DOMAIN rt[q].ifs[l].nb
      BY <2>2 DEF HelloOf
    <3> QED
      BY <3>1, <3>2
  <2>4. ProcessHello(rt[p], p, l, q, h) = rt[p]
    BY <2>2 DEF AtRest
  <2>5. ProcessHello(rt[p], p, l, q, h).ifs[l].nb = Heard(rt[p].ifs[l].nb, p, q, h)
    <3>1. PICK s \in Engine(p) : s = rt[p]
      BY <1>2
    <3>2. p \in Routers /\ l \in LinksOf(p) /\ Fit(p, s) /\ s.up = TRUE
      BY <1>2, <3>1
    <3>3. ProcessHello(s, p, l, q, h).ifs[l].nb = Heard(s.ifs[l].nb, p, q, h)
      BY <1>1, <2>3, <3>2, HelloFit
    <3> QED
      BY <3>1, <3>3
  <2>6. PICK nb : nb = rt[p].ifs[l].nb
    OBVIOUS
  <2>7. nb = Heard(nb, p, q, h)
    BY <2>4, <2>5, <2>6
  <2>8. q \in DOMAIN nb /\ nb[q] = [up |-> p \in h.lists, prio |-> h.prio, lan |-> h.lan]
    BY <2>7 DEF Heard, Put
  <2>9. nb[q].up = (p \in h.lists) /\ nb[q].prio = h.prio
    BY <2>8
  <2>10. nb[q].up <=> p \in h.lists
    BY <2>9
  <2> QED
    BY <2>3, <2>6, <2>8, <2>9, <2>10
<1>4. \A q \in Others(r, l) : q \in net[l].members /\ r \in Others(q, l)
  BY DEF Others
<1>5. \A q \in Others(r, l) : /\ q \in DOMAIN rt[r].ifs[l].nb /\ rt[r].ifs[l].nb[q].up
                              /\ rt[r].ifs[l].nb[q].prio = rt[q].prio
  BY <1>3, <1>4
<1>6. DOMAIN rt[r].ifs[l].nb \subseteq Others(r, l)
  BY <1>2 DEF Fit, Role, HasRole
<1>7. UpNeighbors(rt[r], l) = Others(r, l)
  BY <1>5, <1>6 DEF UpNeighbors
<1>8. Candidates(rt[r], r, l) = {<<q, rt[q].prio>> : q \in net[l].members}
  <2>1. {<<q, rt[r].ifs[l].nb[q].prio>> : q \in Others(r, l)}
          = {<<q, rt[q].prio>> : q \in Others(r, l)}
    BY <1>5
  <2>2. net[l].members = {r} \cup Others(r, l)
    BY DEF Others
  <2>3. {<<r, rt[r].prio>>} \cup {<<q, rt[q].prio>> : q \in Others(r, l)}
          = {<<q, rt[q].prio>> : q \in net[l].members}
    BY <2>2
  <2> QED
    BY <1>7, <2>1, <2>3 DEF Candidates
<1> QED
  BY <1>2, <1>7, <1>8 DEF Others

\* At rest the members of a LAN hold the same election, with one winner.
LEMMA RestOneDis ==
    ASSUME RestInv
    PROVE  OneDis
<1> SUFFICES ASSUME AtRest, NEW l \in DOMAIN net, net[l].type = "lan",
                    Cardinality(net[l].members) > 1
             PROVE  Cardinality({r \in net[l].members : rt[r].ifs[l].isDis}) = 1
  BY DEF OneDis
<1> DEFINE M == net[l].members
           C == {<<q, rt[q].prio>> : q \in M}
           D == {r \in M : rt[r].ifs[l].isDis}
<1>1. M \subseteq Routers /\ IsFiniteSet(Routers)
  BY IsisAssumption DEF RestInv, DbInv, TypeInv, EnginesTyped
<1>2. IsFiniteSet(M)
  BY <1>1, FS_Subset
<1>3. \A r \in M : M \ {r} # {}
  <2>1. SUFFICES ASSUME NEW r \in M, M \ {r} = {}
                 PROVE  FALSE
    OBVIOUS
  <2>2. M = {r}
    BY <2>1
  <2>3. Cardinality(M) = 1
    BY <2>2, FS_Singleton
  <2> QED
    BY <2>3
<1>4. M # {}
  <2>1. Cardinality({}) = 0
    BY FS_EmptySet
  <2> QED
    BY <2>1
<1>5. PICK w : w = ElectDis(C)[1]
  OBVIOUS
<1>6. ASSUME NEW r \in M
      PROVE  (rt[r].ifs[l].isDis <=> w = r) /\ w \in M
  <2>1. /\ r \in Routers /\ l \in LinksOf(r) /\ UpNeighbors(rt[r], l) = M \ {r}
        /\ Candidates(rt[r], r, l) = C
    BY SeeEachOther
  <2>2. HasRole(rt[r], r, l) /\ rt[r] \in Engine(r)
    BY <2>1 DEF RestInv, Sound, Fit, Role, DbInv, TypeInv, EnginesTyped
  <2>3. ElectDis(Candidates(rt[r], r, l))[1] \in UpNeighbors(rt[r], l) \cup {r}
    BY <2>1, <2>2, Winner DEF Candidates
  <2> HIDE DEF C, M
  <2>4. w \in M
    BY <1>5, <2>1, <2>3
  <2>5. rt[r].ifs[l].isDis <=> UpNeighbors(rt[r], l) # {}
          /\ ElectDis(Candidates(rt[r], r, l))[1] = r
    BY <2>2 DEF HasRole, Elects
  <2> QED
    BY <1>3, <1>5, <2>1, <2>4, <2>5
<1> HIDE DEF C, M
<1>7. D = {w}
  BY <1>4, <1>6
<1> QED
  BY <1>7, FS_Singleton DEF M

\* The invariant is inductive.
LEMMA RestKept ==
    /\ IsisInit => RestInv
    /\ RestInv /\ [IsisNext]_isisVars => RestInv'
<1>1. ASSUME IsisInit PROVE RestInv
  <2>1. DbInv
    BY <1>1, StartState
  <2>2. ASSUME NEW r \in Routers PROVE Fit(r, rt[r])
    <3>1. PICK o : o = [p \in Ports(r) |-> <<>>]
      OBVIOUS
    <3>2. o \in [Ports(r) -> Seq(Pdu)] /\ 0 \in Nat
      BY <3>1
    <3>3. rt[r] = Stopped(r, o)
      BY <1>1, <3>1 DEF IsisInit
    <3> QED
      BY <3>2, <3>3, StoppedFit
  <2> QED
    BY <2>1, <2>2 DEF RestInv, Sound
<1>2. ASSUME RestInv, [IsisNext]_isisVars PROVE RestInv'
  <2>1. DbInv /\ Sound /\ EnginesTyped /\ Idle
    BY <1>2 DEF RestInv, DbInv, TypeInv
  <2>2. DbInv'
    BY <1>2, <2>1, NextKeeps
  <2>3. CASE IsisNext
    <3>1. UNCHANGED net
      BY <2>3 DEF IsisNext
    <3>2. PICK r \in Routers :
        \/ Start(r) \/ Age(r) \/ RefreshOwn(r) \/ ApplyRedistribution(r) \/ Shutdown(r)
        \/ \E l \in LinksOf(r) :
            \/ SendCsnps(r, l) \/ RefreshPseudonode(r, l)
            \/ \E q \in Others(r, l) :
                \/ Hello(r, l, q) \/ Receive(r, l, q) \/ Lose(r, l, q)
                \/ HoldingTimeExpired(r, l, q) \/ ForceNeighborDown(r, l, q)
      BY <2>3 DEF IsisNext, IsisStep
    <3>3. ASSUME NEW l \in LinksOf(r), NEW q \in Others(r, l),
                 \/ Hello(r, l, q) \/ Receive(r, l, q) \/ Lose(r, l, q)
                 \/ HoldingTimeExpired(r, l, q) \/ ForceNeighborDown(r, l, q)
          PROVE  Sound'
      BY <2>1, <3>1, <3>3, LinkStepsSound
    <3>4. ASSUME \/ Start(r) \/ Age(r) \/ RefreshOwn(r) \/ ApplyRedistribution(r) \/ Shutdown(r)
                 \/ \E l \in LinksOf(r) : SendCsnps(r, l) \/ RefreshPseudonode(r, l)
          PROVE  Sound'
      BY <2>1, <3>1, <3>4, OwnStepsSound
    <3>5. Sound'
      BY <3>2, <3>3, <3>4
    <3> QED
      BY <2>2, <3>5 DEF RestInv
  <2>4. CASE UNCHANGED isisVars
    <3>1. rt' = rt /\ UNCHANGED net
      BY <2>4 DEF isisVars
    <3>2. \A q \in Routers : Fit(q, rt'[q])
      BY <2>1, <3>1 DEF Sound
    <3>3. Sound'
      BY <3>1, <3>2, SoundStep
    <3> QED
      BY <2>2, <3>3 DEF RestInv
  <2> QED
    BY <1>2, <2>3, <2>4
<1> QED
  BY <1>1, <1>2

\* In every reachable state an interface's role follows from its neighbours (run_dis);
\* and at rest, on any LAN of two routers or more, exactly one is the DIS, and neighbours
\* hold each router's LSP at the number its originator is at (process_lsp): elections and
\* reclaiming end right whatever was lost, restarted or seen late, for any number of
\* routers and links.
THEOREM IsisSettles == IsisSpec => []IsisInv
<1>1. IsisInit => RestInv
  BY RestKept
<1>2. RestInv /\ [IsisNext]_isisVars => RestInv'
  BY RestKept
<1>3. RestInv => IsisInv
  BY RestTypes, RestReclaimed, RestOneDis DEF IsisInv
<1> QED
  BY <1>1, <1>2, <1>3, PTL DEF IsisSpec
=============================================================================
