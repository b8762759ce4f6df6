------------------------------ MODULE HaProof ------------------------------
(***************************************************************************)
(* Proof that leased authority is exclusive, for every lease length,       *)
(* margin, policy set and bound on terms and incarnations.                 *)
(*                                                                         *)
(* The invariant relates the time a member may still forward (or could,    *)
(* by reading an answer that is on its way) to what the witness knows: the *)
(* state file names that member, and the time is covered by the witness's  *)
(* own lease, by its quarantine, or - while no witness runs - by the lease *)
(* length in the state file, which the next quarantine waits out.          *)
(***************************************************************************)
EXTENDS Ha, TLAPS

Replies == [authority: Authorities, remaining: Nat, granted: BOOLEAN]

\* The types of the variables the argument speaks of.
HaType ==
    /\ serving \in {"down", "up", "fenced"}
    /\ lease \in LEASES
    /\ authority \in Authorities
    /\ expiry \in Nat /\ quarantine \in Nat
    /\ durable.authority \in Authorities /\ durable.lease \in LEASES
    /\ boot \in [Members -> 0 .. MAX_BOOT]
    /\ role \in [Members -> Authorities]
    /\ deadline \in [Members -> Nat]
    /\ exchange \in [Members -> Stages]
    /\ elapsed \in [Members -> Nat]
    /\ reply \in [Members -> Replies]

\* A running witness that has not failed to write agrees with its state file.
OnDisk == serving = "up" => durable.authority = authority

\* Only a running witness has a lease out, of at most the length on file.
LeaseOnFile ==
    /\ expiry <= lease
    /\ serving # "up" => expiry = 0
    /\ expiry > 0 => durable.lease = lease

\* No authority anyone has heard of is more than one term ahead of the state file,
\* and none is ahead while a lease is out.
TermsOnFile ==
    /\ authority.term <= durable.authority.term + 1
    /\ \A n \in Members :
        /\ role[n].term <= durable.authority.term + 1
        /\ reply[n].authority.term <= durable.authority.term + 1
        /\ expiry > 0 => /\ role[n].term <= durable.authority.term
                         /\ reply[n].authority.term <= durable.authority.term

\* The time member m would get by reading the answer that is on its way.
Pending(m) == IF exchange[m] = "answered" /\ reply[m].granted THEN Validity(m) ELSE 0

\* Authority b does not displace member m's authority a.
Yields(b, a, m) == b.term <= a.term \/ b.owner = m

\* Member m may forward for x under authority a.
Holds(m, x, a) ==
    x > 0 =>
        /\ a.owner = m /\ a.boot = durable.authority.boot
        /\ durable.authority.owner = m /\ a.term <= durable.authority.term
        /\ x <= durable.lease
        /\ serving = "up" => x <= expiry \/ x <= quarantine
        /\ Yields(authority, a, m)
        /\ \A n \in Members : Yields(role[n], a, m) /\ Yields(reply[n].authority, a, m)

Covered ==
    \A m \in Members : /\ Holds(m, deadline[m], role[m])
                       /\ Holds(m, Pending(m), reply[m].authority)

HaInv == HaType /\ OnDisk /\ LeaseOnFile /\ TermsOnFile /\ Covered
----------------------------------------------------------------------------
(* Facts about the helpers *)

LEMMA ValuesTyped ==
    /\ NoAuthority \in Authorities /\ NoReply \in Replies
    /\ NoAuthority.term = 0 /\ NoReply.authority = NoAuthority /\ NoReply.granted = FALSE
  BY MemberAssumption DEF NoAuthority, NoReply, Authorities, Replies

LEMMA LeasesAreNat == \A l \in LEASES : l \in Nat
  BY LeaseAssumption

\* One tick uses up one unit of what an answer under way is worth.
LEMMA ValidityTicks ==
    ASSUME NEW r \in Nat, NEW l \in Nat, NEW e \in Nat,
           NEW e2, e2 = Lower(e + 1, Less(l, MARGIN))
    PROVE  /\ Less(Lower(r, l), MARGIN + e2) \in Nat
           /\ Less(Lower(r, l), MARGIN + e2) <= Less(Less(Lower(r, l), MARGIN + e), 1)
  BY LeaseAssumption DEF Less, Lower

LEMMA PendingTyped ==
    ASSUME HaType, NEW m \in Members
    PROVE  Pending(m) \in Nat /\ Validity(m) \in Nat
  <1>1. reply[m].remaining \in Nat /\ MEMBER_LEASE[m] \in Nat /\ elapsed[m] \in Nat
    BY LeaseAssumption DEF HaType, Replies
  <1> QED
    BY <1>1, LeaseAssumption DEF Pending, Validity, Less, Lower

\* What a request may be asked about.
Asked(q) ==
    /\ q.node \in Members /\ q.boot \in 0 .. MAX_BOOT /\ q.policy \in Policies

LEMMA RequestsAsked ==
    ASSUME NEW m \in Members, NEW b \in 0 .. MAX_BOOT, NEW q \in RequestsOf(m, b)
    PROVE  Asked(q)
  BY DEF RequestsOf, Asked

\* A request that is not granted leaves the generation and its baseline alone.
LEMMA NotGranted ==
    ASSUME NEW q, ~Granted(q)
    PROVE  Generation(q) = authority /\ ~Changes(q) /\ ~Opens(q) /\ ~Claims(q)
  BY DEF Granted, Generation, Changes, Baseline, Opens

\* A grant: the generation after it names the asker and is on top of the last one;
\* either nobody has a lease out, or the asker renews its own.
LEMMA IsGranted ==
    ASSUME HaInv, NEW q, Asked(q), Granted(q), ~Exhausted(q)
    PROVE  /\ serving = "up" /\ quarantine = 0 /\ durable.authority = authority
           /\ Generation(q) \in Authorities
           /\ Generation(q).owner = q.node /\ Generation(q).boot = q.boot
           /\ \/ /\ Claims(q) /\ Changes(q) /\ expiry = 0
                 /\ Generation(q).term = authority.term + 1
              \/ /\ expiry > 0 /\ durable.lease = lease
                 /\ authority.owner = q.node /\ authority.boot = q.boot
                 /\ \/ Generation(q) = authority
                    \/ Generation(q).term = authority.term + 1
  <1>1. serving = "up" /\ quarantine = 0 /\ durable.authority = authority
    BY DEF Granted, Renews, Claims, Granting, HaInv, OnDisk
  <1>2. authority.term \in Nat /\ authority.term <= MAX_TERM /\ authority \in Authorities
    BY MemberAssumption DEF HaInv, HaType, Authorities
  <1>3. CASE Claims(q)
    <2>1. Generation(q) = [term |-> authority.term + 1, owner |-> q.node,
                           boot |-> q.boot, policy |-> q.policy]
      BY <1>3 DEF Generation, Opens
    <2>2. authority.term + 1 \in 0 .. MAX_TERM
      BY <1>2, <1>3, MemberAssumption DEF Exhausted, Opens
    <2>3. Generation(q) \in Authorities
      BY <2>1, <2>2 DEF Asked, Authorities
    <2>4. Generation(q).term = authority.term + 1
      BY <2>1
    <2>5. Changes(q)
      BY <2>4, <1>2 DEF Changes
    <2>6. expiry = 0
      BY <1>3 DEF Claims, Current, HaInv, HaType
    <2> QED
      BY <1>1, <1>3, <2>1, <2>3, <2>4, <2>5, <2>6
  <1>4. CASE Renews(q) /\ ~Claims(q)
    <2>1. expiry > 0 /\ durable.lease = lease
      BY <1>4 DEF Renews, Current, HaInv, LeaseOnFile
    <2>2. authority.owner = q.node /\ authority.boot = q.boot
      BY <1>4 DEF Renews, Ours
    <2>3. CASE q.policy = authority.policy
      <3>1. Generation(q) = authority
        BY <1>4, <2>3 DEF Generation, Opens
      <3> QED
        BY <1>1, <1>2, <2>1, <2>2, <3>1
    <2>4. CASE q.policy # authority.policy
      <3>1. Generation(q) = [term |-> authority.term + 1, owner |-> q.node,
                             boot |-> q.boot, policy |-> q.policy]
        BY <1>4, <2>4 DEF Generation, Opens
      <3>2. authority.term + 1 \in 0 .. MAX_TERM
        BY <1>2, <1>4, <2>4, MemberAssumption DEF Exhausted, Opens
      <3>3. Generation(q) \in Authorities
        BY <3>1, <3>2 DEF Asked, Authorities
      <3> QED
        BY <1>1, <2>1, <2>2, <3>1, <3>3
    <2> QED
      BY <2>3, <2>4
  <1> QED
    BY <1>3, <1>4 DEF Granted
----------------------------------------------------------------------------
(* The witness's steps *)

\* The end of the session, when no grant is in it: whatever the member had
\* under way is worth nothing any more.
LEMMA SessionEnds ==
    ASSUME HaType, NEW q, Asked(q), Hang(q) \/ Drop(q), elapsed' = elapsed
    PROVE  /\ exchange' \in [Members -> Stages] /\ reply' = reply
           /\ \A m \in Members : Pending(m)' = Pending(m) \/ Pending(m)' = 0
  <1>1. exchange' \in [Members -> Stages] /\ reply' = reply
    BY DEF HaType, Hang, Drop, Asked, Stages
  <1>2. ASSUME NEW m \in Members PROVE Pending(m)' = Pending(m) \/ Pending(m)' = 0
    <2>1. exchange'[m] = exchange[m] \/ exchange'[m] = "lost"
      BY DEF HaType, Hang, Drop, Asked
    <2> QED
      BY <1>1, <2>1 DEF Pending, Validity
  <1> QED
    BY <1>1, <1>2

\* A request that is not granted.
LEMMA ServeRefused ==
    ASSUME HaInv, NEW q, Asked(q), ~Granted(q), Serve(q)
    PROVE  HaInv'
  <1>1. /\ authority' = authority /\ expiry' = expiry /\ durable' = durable
        /\ lease' = lease /\ quarantine' = quarantine /\ serving' = serving
        /\ boot' = boot /\ role' = role /\ deadline' = deadline /\ elapsed' = elapsed
    BY NotGranted DEF Serve, Decide
  <1>2. \/ exchange' = [exchange EXCEPT ![q.node] = "answered"]
           /\ reply' = [reply EXCEPT ![q.node] = [authority |-> authority, granted |-> FALSE,
                                                  remaining |-> 0]]
        \/ exchange' = exchange /\ reply' = reply
    <2>1. Granted(q) = FALSE
      BY DEF Granted
    <2> QED
      BY <2>1, NotGranted DEF Serve, Answer, Drop
  <1>3. HaType'
    <2>1. authority \in Authorities
      BY DEF HaInv, HaType
    <2>2. exchange' \in [Members -> Stages]
      BY <1>2 DEF HaInv, HaType, Stages, Asked
    <2>3. reply' \in [Members -> Replies]
      <3>1. [authority |-> authority, granted |-> FALSE, remaining |-> 0] \in Replies
        BY <2>1 DEF Replies
      <3> QED
        BY <1>2, <3>1 DEF HaInv, HaType, Asked
    <2> QED
      BY <1>1, <2>2, <2>3 DEF HaInv, HaType
  <1>4. \A n \in Members : reply'[n].authority = reply[n].authority
                           \/ reply'[n].authority = authority
    BY <1>2 DEF HaInv, HaType, Asked
  <1>5. \A n \in Members : \/ Pending(n)' = Pending(n) /\ reply'[n].authority = reply[n].authority
                           \/ Pending(n)' = 0
    BY <1>1, <1>2 DEF HaInv, HaType, Asked, Pending, Validity
  <1>6. expiry > 0 => durable.authority = authority
    BY DEF HaInv, OnDisk, LeaseOnFile
  <1>7. TermsOnFile'
    <2>1. authority.term \in Nat /\ durable.authority.term \in Nat
      BY DEF HaInv, HaType, Authorities
    <2> QED
      BY <1>1, <1>4, <1>6, <2>1 DEF HaInv, TermsOnFile
  <1>8. Covered'
    <2> SUFFICES ASSUME NEW m \in Members
                 PROVE  /\ Holds(m, deadline[m], role[m])'
                        /\ Holds(m, Pending(m), reply[m].authority)'
      BY DEF Covered
    <2>1. Holds(m, deadline[m], role[m]) /\ Holds(m, Pending(m), reply[m].authority)
      BY DEF HaInv, Covered
    <2>2. Holds(m, deadline[m], role[m])'
      BY <1>1, <1>4, <2>1 DEF Holds, Yields
    <2>3. Holds(m, Pending(m), reply[m].authority)'
      BY <1>1, <1>4, <1>5, <2>1 DEF Holds, Yields
    <2> QED
      BY <2>2, <2>3
  <1> QED
    BY <1>1, <1>3, <1>7, <1>8 DEF HaInv, OnDisk, LeaseOnFile

\* A grant.
LEMMA ServeGranted ==
    ASSUME HaInv, NEW q, Asked(q), Granted(q), Serve(q)
    PROVE  HaInv'
  <1> DEFINE G == Generation(q)
  <1>g. /\ serving = "up" /\ quarantine = 0 /\ durable.authority = authority
        /\ G \in Authorities /\ G.owner = q.node /\ G.boot = q.boot
        /\ \/ /\ Changes(q) /\ expiry = 0
              /\ G.term = authority.term + 1
           \/ /\ expiry > 0 /\ durable.lease = lease
              /\ authority.owner = q.node /\ authority.boot = q.boot
              /\ \/ G = authority
                 \/ G.term = authority.term + 1
    BY IsGranted DEF Serve, Decide
  <1>t. /\ authority.term \in Nat /\ G.term \in Nat /\ lease \in Nat /\ expiry \in Nat
        /\ lease \in LEASES /\ q.node \in Members
        /\ \A n \in Members : role[n].term \in Nat /\ reply[n].authority.term \in Nat
    BY <1>g, LeasesAreNat, MemberAssumption DEF HaInv, HaType, Authorities, Replies, Asked
  <1> HIDE DEF G
  <1>1. /\ authority' = G /\ expiry' = lease
        /\ lease' = lease /\ quarantine' = quarantine /\ serving' = serving
        /\ boot' = boot /\ role' = role /\ deadline' = deadline /\ elapsed' = elapsed
    BY DEF Serve, Decide, G
  <1>2. durable'.authority = G /\ durable'.lease = lease
    BY <1>g DEF Serve, Recorded, Changes, G
  <1>3. \/ exchange' = [exchange EXCEPT ![q.node] = "answered"]
           /\ reply' = [reply EXCEPT ![q.node] = [authority |-> G, granted |-> TRUE,
                                                  remaining |-> lease]]
        \/ exchange' = exchange /\ reply' = reply
    BY DEF Serve, Answer, Drop, G, Granted
  <1>4. HaType'
    <2>2. exchange' \in [Members -> Stages]
      BY <1>3 DEF HaInv, HaType, Stages, Asked
    <2>3. reply' \in [Members -> Replies]
      <3>1. [authority |-> G, granted |-> TRUE, remaining |-> lease] \in Replies
        BY <1>g, <1>t DEF Replies
      <3> QED
        BY <1>3, <1>t, <3>1 DEF HaInv, HaType
    <2> QED
      BY <1>1, <1>2, <1>g, <1>t, <2>2, <2>3 DEF HaInv, HaType
  <1>5. \A n \in Members : \/ reply'[n].authority = reply[n].authority
                           \/ reply'[n].authority = G
    BY <1>3 DEF HaInv, HaType
  <1>6. \A n \in Members :
            \/ Pending(n)' = Pending(n) /\ reply'[n].authority = reply[n].authority
            \/ /\ n = q.node /\ reply'[n].authority = G
               /\ Pending(n)' = Less(Lower(lease, MEMBER_LEASE[n]), MARGIN + elapsed[n])
    <2> SUFFICES ASSUME NEW n \in Members
                 PROVE  \/ Pending(n)' = Pending(n) /\ reply'[n].authority = reply[n].authority
                        \/ /\ n = q.node /\ reply'[n].authority = G
                           /\ Pending(n)' = Less(Lower(lease, MEMBER_LEASE[n]),
                                                 MARGIN + elapsed[n])
      OBVIOUS
    <2>1. CASE exchange' = exchange /\ reply' = reply
      BY <1>1, <2>1 DEF Pending, Validity
    <2>2. CASE n # q.node
      <3>1. exchange'[n] = exchange[n] /\ reply'[n] = reply[n]
        BY <1>3, <2>2 DEF HaInv, HaType
      <3> QED
        BY <1>1, <3>1 DEF Pending, Validity
    <2>3. CASE n = q.node /\ reply' # reply
      <3>1. /\ exchange'[n] = "answered" /\ reply'[n].granted = TRUE
            /\ reply'[n].remaining = lease /\ reply'[n].authority = G
        BY <1>3, <2>3 DEF HaInv, HaType
      <3> QED
        BY <1>1, <2>3, <3>1 DEF Pending, Validity
    <2>4. CASE n = q.node /\ reply' = reply /\ exchange' # exchange
      <3>1. /\ exchange'[n] = "answered" /\ reply'[n].granted = TRUE
            /\ reply'[n].remaining = lease /\ reply'[n].authority = G
        BY <1>3, <2>4 DEF HaInv, HaType
      <3> QED
        BY <1>1, <2>4, <3>1 DEF Pending, Validity
    <2> QED
      BY <2>1, <2>2, <2>3, <2>4
  <1>7. \A n \in Members : role[n].term <= G.term /\ reply[n].authority.term <= G.term
    BY <1>g, <1>t DEF HaInv, TermsOnFile
  <1>8. TermsOnFile'
    BY <1>1, <1>2, <1>5, <1>7, <1>t DEF TermsOnFile
  <1>9. Covered'
    <2> SUFFICES ASSUME NEW m \in Members
                 PROVE  /\ Holds(m, deadline[m], role[m])'
                        /\ Holds(m, Pending(m), reply[m].authority)'
      BY DEF Covered
    <2>1. Holds(m, deadline[m], role[m]) /\ Holds(m, Pending(m), reply[m].authority)
      BY DEF HaInv, Covered
    <2>2. deadline[m] \in Nat /\ Pending(m) \in Nat
      BY PendingTyped DEF HaInv, HaType
    <2>3. \A n \in Members : Yields(role'[n], G, m) /\ Yields(reply'[n].authority, G, m)
      BY <1>1, <1>5, <1>7, <1>t DEF Yields
    <2>4. ASSUME NEW x \in Nat, NEW a, Holds(m, x, a), x > 0, a.term \in Nat
          PROVE  Holds(m, x, a)'
      <3>1. expiry > 0
        BY <1>g, <1>t, <2>4 DEF Holds
      <3>2. /\ m = q.node /\ G.owner = m /\ a.owner = m /\ a.boot = G.boot
            /\ a.term <= G.term /\ x <= lease
        BY <1>g, <1>t, <2>4, <3>1 DEF Holds, HaInv, LeaseOnFile
      <3>3. \A n \in Members : Yields(role'[n], a, m) /\ Yields(reply'[n].authority, a, m)
        BY <1>1, <1>5, <2>4, <3>2 DEF Holds, Yields
      <3> QED
        BY <1>1, <1>2, <3>2, <3>3 DEF Holds, Yields
    <2>5. Holds(m, deadline[m], role[m])'
      <3>1. CASE deadline[m] = 0
        BY <1>1, <3>1 DEF Holds
      <3>2. CASE deadline[m] > 0
        <4>1. Holds(m, deadline[m], role[m])
          BY <2>1
        <4> QED
          BY <1>1, <1>t, <2>2, <2>4, <3>2, <4>1 DEF Holds
      <3> QED
        BY <2>2, <3>1, <3>2
    <2>6. Holds(m, Pending(m), reply[m].authority)'
      <3>1. CASE Pending(m)' = Pending(m) /\ reply'[m].authority = reply[m].authority
        <4>1. CASE Pending(m) = 0
          BY <3>1, <4>1 DEF Holds
        <4>2. CASE Pending(m) > 0
          BY <1>t, <2>1, <2>2, <2>4, <3>1, <4>2 DEF Holds
        <4> QED
          BY <2>2, <4>1, <4>2
      <3>2. CASE /\ m = q.node /\ reply'[m].authority = G
                 /\ Pending(m)' = Less(Lower(lease, MEMBER_LEASE[m]), MARGIN + elapsed[m])
        <4>1. Pending(m)' <= lease
          BY <1>t, <3>2, LeaseAssumption DEF Less, Lower, HaInv, HaType
        <4> QED
          BY <1>1, <1>2, <1>g, <1>t, <2>3, <3>2, <4>1 DEF Holds, Yields
      <3> QED
        BY <1>6, <3>1, <3>2
    <2> QED
      BY <2>5, <2>6
  <1> QED
    BY <1>1, <1>2, <1>4, <1>8, <1>9, <1>g, <1>t DEF HaInv, OnDisk, LeaseOnFile

LEMMA ServeStep ==
    ASSUME HaInv, NEW q, Asked(q), Serve(q)
    PROVE  HaInv'
  BY ServeRefused, ServeGranted

\* The state file could not be written: no lease is out any more, and what was out
\* stays covered because the file, old or new, still names its holder.
LEMMA PersistFailsStep ==
    ASSUME HaInv, NEW q, Asked(q), PersistFails(q)
    PROVE  HaInv'
  <1> DEFINE G == Generation(q)
  <1>0. Granted(q)
    BY NotGranted DEF PersistFails
  <1>g. /\ serving = "up" /\ quarantine = 0 /\ durable.authority = authority
        /\ G \in Authorities /\ G.owner = q.node /\ G.boot = q.boot
        /\ \/ /\ expiry = 0 /\ G.term = authority.term + 1
           \/ /\ expiry > 0 /\ durable.lease = lease
              /\ authority.owner = q.node /\ authority.boot = q.boot
              /\ \/ G = authority
                 \/ G.term = authority.term + 1
    BY <1>0, IsGranted DEF PersistFails
  <1>t. /\ authority.term \in Nat /\ G.term \in Nat /\ expiry \in Nat
        /\ lease \in LEASES /\ lease \in Nat
        /\ \A n \in Members : role[n].term \in Nat /\ reply[n].authority.term \in Nat
    BY <1>g, LeasesAreNat, MemberAssumption DEF HaInv, HaType, Authorities, Replies
  <1> HIDE DEF G
  <1>1. /\ authority' = G /\ expiry' = 0
        /\ lease' = lease /\ quarantine' = quarantine /\ serving' = "fenced"
        /\ boot' = boot /\ role' = role /\ deadline' = deadline /\ elapsed' = elapsed
    BY DEF PersistFails, G
  <1>2. \/ durable'.authority = authority /\ durable'.lease = durable.lease
        \/ durable'.authority = G /\ durable'.lease = lease
    BY <1>g DEF PersistFails, Recorded, G
  <1>3. /\ exchange' \in [Members -> Stages] /\ reply' = reply
        /\ \A m \in Members : Pending(m)' = Pending(m) \/ Pending(m)' = 0
    <2>1. Hang(q) \/ Drop(q)
      BY DEF PersistFails
    <2> QED
      BY <1>1, <2>1, SessionEnds DEF HaInv
  <1>4. HaType'
    BY <1>1, <1>2, <1>3, <1>g, <1>t DEF HaInv, HaType
  <1>5. TermsOnFile'
    BY <1>1, <1>2, <1>3, <1>g, <1>t DEF HaInv, TermsOnFile
  <1>6. Covered'
    <2> SUFFICES ASSUME NEW m \in Members
                 PROVE  /\ Holds(m, deadline[m], role[m])'
                        /\ Holds(m, Pending(m), reply[m].authority)'
      BY DEF Covered
    <2>1. Holds(m, deadline[m], role[m]) /\ Holds(m, Pending(m), reply[m].authority)
      BY DEF HaInv, Covered
    <2>2. deadline[m] \in Nat /\ Pending(m) \in Nat
      BY PendingTyped DEF HaInv, HaType
    <2>4. ASSUME NEW x \in Nat, NEW a, Holds(m, x, a), x > 0, a.term \in Nat
          PROVE  Holds(m, x, a)'
      <3>1. expiry > 0
        BY <1>g, <1>t, <2>4 DEF Holds
      <3>2. /\ m = q.node /\ G.owner = m /\ a.owner = m /\ a.boot = G.boot
            /\ a.boot = authority.boot /\ authority.owner = m
            /\ a.term <= G.term /\ a.term <= authority.term
            /\ x <= lease /\ x <= durable.lease
        BY <1>g, <1>t, <2>4, <3>1 DEF Holds, HaInv, LeaseOnFile
      <3>3. \A n \in Members : Yields(role'[n], a, m) /\ Yields(reply'[n].authority, a, m)
        BY <1>1, <1>3, <2>4 DEF Holds
      <3> QED
        BY <1>1, <1>2, <3>2, <3>3 DEF Holds, Yields
    <2>5. Holds(m, deadline[m], role[m])'
      <3>1. CASE deadline[m] = 0
        BY <1>1, <3>1 DEF Holds
      <3>2. CASE deadline[m] > 0
        BY <1>1, <1>t, <2>1, <2>2, <2>4, <3>2 DEF Holds
      <3> QED
        BY <2>2, <3>1, <3>2
    <2>6. Holds(m, Pending(m), reply[m].authority)'
      <3>1. CASE Pending(m)' = 0
        BY <3>1 DEF Holds
      <3>2. CASE Pending(m)' = Pending(m) /\ Pending(m) > 0
        BY <1>3, <1>t, <2>1, <2>2, <2>4, <3>2 DEF Holds
      <3> QED
        BY <1>3, <2>2, <3>1, <3>2
    <2> QED
      BY <2>5, <2>6
  <1> QED
    BY <1>1, <1>4, <1>5, <1>6, <1>t DEF HaInv, OnDisk, LeaseOnFile

LEMMA ServeFailsStep ==
    ASSUME HaInv, NEW q, Asked(q), ServeFails(q)
    PROVE  HaInv'
  <1>1. /\ authority' = authority /\ expiry' = expiry /\ durable' = durable
        /\ lease' = lease /\ quarantine' = quarantine /\ serving' = serving
        /\ boot' = boot /\ role' = role /\ deadline' = deadline /\ elapsed' = elapsed
    BY DEF ServeFails, Refuse
  <1>2. /\ exchange' \in [Members -> Stages] /\ reply' = reply
        /\ \A m \in Members : Pending(m)' = Pending(m) \/ Pending(m)' = 0
    <2>1. Hang(q) \/ Drop(q)
      BY DEF ServeFails
    <2> QED
      BY <1>1, <2>1, SessionEnds DEF HaInv
  <1>3. HaType' /\ OnDisk' /\ LeaseOnFile' /\ TermsOnFile'
    BY <1>1, <1>2 DEF HaInv, HaType, OnDisk, LeaseOnFile, TermsOnFile
  <1>4. Covered'
    BY <1>1, <1>2 DEF HaInv, Covered, Holds
  <1> QED
    BY <1>3, <1>4 DEF HaInv

\* The witness is gone: the lease length on file bounds what is out.
LEMMA WitnessCrashStep ==
    ASSUME HaInv, WitnessCrash
    PROVE  HaInv'
  <1>1. /\ authority' = NoAuthority /\ expiry' = 0 /\ durable' = durable
        /\ lease' = durable.lease /\ quarantine' = 0 /\ serving' = "down"
        /\ boot' = boot /\ role' = role /\ deadline' = deadline /\ elapsed' = elapsed
        /\ reply' = reply
    BY DEF WitnessCrash
  <1>2. HaType'
    BY <1>1, ValuesTyped DEF WitnessCrash, HaInv, HaType, Stages
  <1>3. \A m \in Members : Pending(m)' = Pending(m)
    <2>1. \A m \in Members : (exchange'[m] = "answered") = (exchange[m] = "answered")
      BY DEF WitnessCrash, HaInv, HaType
    <2> QED
      BY <1>1, <2>1 DEF Pending, Validity
  <1>t. /\ durable.lease \in Nat /\ durable.authority.term \in Nat
        /\ \A n \in Members : role[n].term \in Nat /\ reply[n].authority.term \in Nat
    BY LeasesAreNat, MemberAssumption DEF HaInv, HaType, Authorities, Replies
  <1>4. OnDisk' /\ LeaseOnFile' /\ TermsOnFile'
    BY <1>1, <1>t, ValuesTyped DEF HaInv, OnDisk, LeaseOnFile, TermsOnFile
  <1>5. Covered'
    BY <1>1, <1>3, <1>t, ValuesTyped DEF HaInv, Covered, Holds, Yields
  <1> QED
    BY <1>2, <1>4, <1>5 DEF HaInv

\* The quarantine of a new run covers what an earlier run may have granted.
LEMMA WitnessStartStep ==
    ASSUME HaInv, NEW l \in LEASES, WitnessStart(l)
    PROVE  HaInv'
  <1>1. /\ authority' = durable.authority /\ expiry' = 0 /\ durable' = durable
        /\ lease' = l /\ serving' = "up"
        /\ boot' = boot /\ role' = role /\ deadline' = deadline /\ elapsed' = elapsed
        /\ reply' = reply /\ exchange' = exchange
    BY DEF WitnessStart, member
  <1>t. /\ durable.lease \in Nat /\ durable.authority.term \in Nat /\ l \in Nat
        /\ \A n \in Members : role[n].term \in Nat /\ reply[n].authority.term \in Nat
    BY LeasesAreNat, MemberAssumption DEF HaInv, HaType, Authorities, Replies
  <1>2. quarantine' \in Nat /\ durable.lease <= quarantine'
    BY <1>t, LeaseAssumption DEF WitnessStart, Outstanding
  <1>3. HaType'
    BY <1>1, <1>2 DEF HaInv, HaType
  <1>4. OnDisk' /\ LeaseOnFile' /\ TermsOnFile'
    BY <1>1, <1>t DEF HaInv, OnDisk, LeaseOnFile, TermsOnFile
  <1>5. \A m \in Members : /\ Pending(m)' = Pending(m)
                           /\ Pending(m) \in Nat /\ deadline[m] \in Nat
    BY <1>1, PendingTyped DEF Pending, Validity, HaInv, HaType
  <1>6. Covered'
    BY <1>1, <1>2, <1>5, <1>t DEF HaInv, Covered, Holds, Yields
  <1> QED
    BY <1>3, <1>4, <1>6 DEF HaInv
----------------------------------------------------------------------------
(* The members' steps and time *)

\* What a member step leaves alone.
WitnessSame ==
    /\ serving' = serving /\ lease' = lease /\ authority' = authority
    /\ expiry' = expiry /\ quarantine' = quarantine /\ durable' = durable

\* A member's step keeps the invariant when the authorities it comes to know were
\* already known (or are none) and whatever it may forward for, it might before.
LEMMA MemberStepKeeps ==
    ASSUME HaInv, WitnessSame, HaType',
           \A n \in Members :
               /\ \/ role'[n] = NoAuthority
                  \/ \E k \in Members : role'[n] \in {role[k], reply[k].authority}
               /\ \/ reply'[n].authority = NoAuthority
                  \/ reply'[n].authority = reply[n].authority,
           \A m \in Members :
               /\ \/ deadline'[m] = 0
                  \/ deadline'[m] = deadline[m] /\ role'[m] = role[m]
                  \/ deadline'[m] = Pending(m) /\ role'[m] = reply[m].authority
               /\ \/ Pending(m)' = 0
                  \/ Pending(m)' = Pending(m) /\ reply'[m].authority = reply[m].authority
    PROVE  HaInv'
  <1>t. /\ durable.authority.term \in Nat
        /\ \A n \in Members : role[n].term \in Nat /\ reply[n].authority.term \in Nat
    BY MemberAssumption DEF HaInv, HaType, Authorities, Replies
  <1>1. OnDisk' /\ LeaseOnFile'
    BY DEF WitnessSame, HaInv, OnDisk, LeaseOnFile
  <1>2. TermsOnFile'
    BY <1>t, ValuesTyped DEF WitnessSame, HaInv, TermsOnFile
  <1>3. ASSUME NEW m \in Members, NEW x, NEW a, Holds(m, x, a), a.term \in Nat
        PROVE  Holds(m, x, a)'
    <2> SUFFICES ASSUME x > 0 PROVE Holds(m, x, a)'
      BY DEF Holds
    <2>1. \A n \in Members : Yields(role'[n], a, m) /\ Yields(reply'[n].authority, a, m)
      BY <1>3, ValuesTyped DEF Holds, Yields
    <2> QED
      BY <1>3, <2>1 DEF Holds, WitnessSame
  <1>4. Covered'
    <2> SUFFICES ASSUME NEW m \in Members
                 PROVE  /\ Holds(m, deadline[m], role[m])'
                        /\ Holds(m, Pending(m), reply[m].authority)'
      BY DEF Covered
    <2>0. Holds(m, deadline[m], role[m]) /\ Holds(m, Pending(m), reply[m].authority)
      BY DEF HaInv, Covered
    <2>1. Holds(m, deadline[m], role[m])'
      <3>1. CASE deadline'[m] = 0
        BY <3>1 DEF Holds
      <3>2. CASE deadline'[m] = deadline[m] /\ role'[m] = role[m]
        BY <1>3, <1>t, <2>0, <3>2 DEF Holds
      <3>3. CASE deadline'[m] = Pending(m) /\ role'[m] = reply[m].authority
        BY <1>3, <1>t, <2>0, <3>3 DEF Holds
      <3> QED
        BY <3>1, <3>2, <3>3
    <2>2. Holds(m, Pending(m), reply[m].authority)'
      <3>1. CASE Pending(m)' = 0
        BY <3>1 DEF Holds
      <3>2. CASE Pending(m)' = Pending(m) /\ reply'[m].authority = reply[m].authority
        BY <1>3, <1>t, <2>0, <3>2 DEF Holds
      <3> QED
        BY <3>1, <3>2
    <2> QED
      BY <2>1, <2>2
  <1> QED
    BY <1>1, <1>2, <1>4 DEF HaInv

\* The end of an exchange.
LEMMA LeaveEffect ==
    ASSUME HaType, NEW m \in Members, Leave(m)
    PROVE  /\ exchange' \in [Members -> Stages] /\ elapsed' \in [Members -> Nat]
           /\ reply' \in [Members -> Replies]
           /\ \A n \in Members : \/ reply'[n].authority = NoAuthority
                                 \/ reply'[n].authority = reply[n].authority
           /\ \A n \in Members : \/ Pending(n)' = 0
                                 \/ Pending(n)' = Pending(n)
                                    /\ reply'[n].authority = reply[n].authority
  <1>1. /\ exchange' = [exchange EXCEPT ![m] = "idle"]
        /\ elapsed' = [elapsed EXCEPT ![m] = 0] /\ reply' = [reply EXCEPT ![m] = NoReply]
    BY DEF Leave
  <1>2. /\ exchange' \in [Members -> Stages] /\ elapsed' \in [Members -> Nat]
        /\ reply' \in [Members -> Replies]
    BY <1>1, ValuesTyped DEF HaType, Stages
  <1>3. \A n \in Members : \/ reply'[n].authority = NoAuthority
                           \/ reply'[n].authority = reply[n].authority
    BY <1>1, ValuesTyped DEF HaType
  <1>4. ASSUME NEW n \in Members
        PROVE  \/ Pending(n)' = 0
               \/ Pending(n)' = Pending(n) /\ reply'[n].authority = reply[n].authority
    <2>1. CASE n = m
      BY <1>1, <2>1 DEF HaType, Pending
    <2>2. CASE n # m
      <3>1. exchange'[n] = exchange[n] /\ elapsed'[n] = elapsed[n] /\ reply'[n] = reply[n]
        BY <1>1, <2>2 DEF HaType
      <3> QED
        BY <3>1 DEF Pending, Validity
    <2> QED
      BY <2>1, <2>2
  <1> QED
    BY <1>2, <1>3, <1>4

LEMMA StartStep ==
    ASSUME HaInv, NEW m \in Members, Start(m)
    PROVE  HaInv'
  <1>1. WitnessSame /\ exchange' = exchange /\ elapsed' = elapsed /\ reply' = reply
    BY DEF Start, engine, WitnessSame
  <1>2. HaType'
    BY <1>1, ValuesTyped, MemberAssumption DEF Start, WitnessSame, HaInv, HaType
  <1>3. \A n \in Members : role'[n] = NoAuthority \/ role'[n] = role[n]
    BY DEF Start, HaInv, HaType
  <1>4. \A n \in Members : \/ deadline'[n] = 0
                           \/ deadline'[n] = deadline[n] /\ role'[n] = role[n]
    BY DEF Start, HaInv, HaType
  <1>5. \A n \in Members : Pending(n)' = Pending(n)
    BY <1>1 DEF Pending, Validity
  <1> QED
    BY <1>1, <1>2, <1>3, <1>4, <1>5, MemberStepKeeps

LEMMA CrashStep ==
    ASSUME HaInv, NEW m \in Members, Crash(m)
    PROVE  HaInv'
  <1>1. WitnessSame /\ boot' = boot /\ role' = role /\ deadline' = deadline
    BY DEF Crash, engine, WitnessSame
  <1>2. HaType'
    BY <1>1, LeaveEffect DEF Crash, WitnessSame, HaInv, HaType
  <1> QED
    BY <1>1, <1>2, LeaveEffect, MemberStepKeeps DEF Crash, HaInv

LEMMA ShutdownStep ==
    ASSUME HaInv, NEW m \in Members, Shutdown(m)
    PROVE  HaInv'
  <1>1. /\ WitnessSame /\ boot' = boot /\ role' = role
        /\ exchange' = exchange /\ elapsed' = elapsed /\ reply' = reply
    BY DEF Shutdown, engine, WitnessSame
  <1>2. HaType'
    BY <1>1 DEF Shutdown, WitnessSame, HaInv, HaType
  <1>3. \A n \in Members : deadline'[n] = 0 \/ deadline'[n] = deadline[n]
    BY DEF Shutdown, HaInv, HaType
  <1>4. \A n \in Members : Pending(n)' = Pending(n)
    BY <1>1 DEF Pending, Validity
  <1> QED
    BY <1>1, <1>2, <1>3, <1>4, MemberStepKeeps

LEMMA PollStep ==
    ASSUME HaInv, NEW m \in Members, Poll(m)
    PROVE  HaInv'
  <1>1. /\ WitnessSame /\ boot' = boot /\ role' = role /\ deadline' = deadline
        /\ reply' = reply
    BY DEF Poll, engine, WitnessSame
  <1>2. HaType'
    BY <1>1 DEF Poll, WitnessSame, HaInv, HaType, Stages
  <1>3. ASSUME NEW n \in Members PROVE Pending(n)' = 0 \/ Pending(n)' = Pending(n)
    <2>1. \/ exchange'[n] = "asked"
          \/ exchange'[n] = exchange[n] /\ elapsed'[n] = elapsed[n]
      BY DEF Poll, HaInv, HaType
    <2> QED
      BY <1>1, <2>1 DEF Pending, Validity
  <1> QED
    BY <1>1, <1>2, <1>3, MemberStepKeeps

LEMMA ApplyStep ==
    ASSUME HaInv, NEW m \in Members, NEW fit \in BOOLEAN, Apply(m, fit)
    PROVE  HaInv'
  <1>1. WitnessSame /\ boot' = boot
    BY DEF Apply, engine, WitnessSame
  <1>2. /\ role' = [role EXCEPT ![m] = reply[m].authority]
        /\ reply[m].authority \in Authorities
    BY DEF Apply, HaInv, HaType, Replies
  <1>3. \/ deadline' = [deadline EXCEPT ![m] = 0]
        \/ deadline' = [deadline EXCEPT ![m] = Pending(m)]
        \/ deadline' = deadline /\ reply[m].authority = role[m]
    BY DEF Apply, Settle, Pending, HaInv, HaType
  <1>4. HaType'
    <2>1. deadline' \in [Members -> Nat]
      BY <1>3, PendingTyped DEF HaInv, HaType
    <2>2. role' \in [Members -> Authorities]
      BY <1>2 DEF HaInv, HaType
    <2> QED
      BY <1>1, <2>1, <2>2, LeaveEffect DEF Apply, WitnessSame, HaInv, HaType
  <1>5. \A n \in Members : \E k \in Members : role'[n] \in {role[k], reply[k].authority}
    BY <1>2 DEF HaInv, HaType
  <1>6. \A n \in Members :
            \/ deadline'[n] = 0
            \/ deadline'[n] = deadline[n] /\ role'[n] = role[n]
            \/ deadline'[n] = Pending(n) /\ role'[n] = reply[n].authority
    BY <1>2, <1>3 DEF HaInv, HaType
  <1> QED
    BY <1>1, <1>4, <1>5, <1>6, LeaveEffect, MemberStepKeeps DEF Apply, HaInv

LEMMA AbandonStep ==
    ASSUME HaInv, NEW m \in Members, NEW fit \in BOOLEAN, Abandon(m, fit)
    PROVE  HaInv'
  <1>1. WitnessSame /\ boot' = boot /\ role' = role
    BY DEF Abandon, engine, WitnessSame
  <1>2. \A n \in Members : deadline'[n] = 0 \/ deadline'[n] = deadline[n]
    BY DEF Abandon, Settle, HaInv, HaType
  <1>3. HaType'
    <2>1. deadline' \in [Members -> Nat]
      BY DEF Abandon, Settle, HaInv, HaType
    <2> QED
      BY <1>1, <2>1, LeaveEffect DEF Abandon, WitnessSame, HaInv, HaType
  <1> QED
    BY <1>1, <1>2, <1>3, LeaveEffect, MemberStepKeeps DEF Abandon, HaInv

\* Time counts the members' deadlines down at least as fast as the witness's.
LEMMA TickStep ==
    ASSUME HaInv, Tick
    PROVE  HaInv'
  <1>1. /\ serving' = serving /\ lease' = lease /\ authority' = authority
        /\ durable' = durable /\ boot' = boot /\ role' = role
        /\ exchange' = exchange /\ reply' = reply
        /\ expiry' = Less(expiry, 1) /\ quarantine' = Less(quarantine, 1)
    BY DEF Tick
  <1>t. /\ expiry \in Nat /\ quarantine \in Nat /\ lease \in Nat /\ durable.lease \in Nat
        /\ \A m \in Members : /\ deadline[m] \in Nat /\ elapsed[m] \in Nat
                              /\ reply[m].remaining \in Nat /\ MEMBER_LEASE[m] \in Nat
                              /\ Pending(m) \in Nat
    BY LeasesAreNat, LeaseAssumption, PendingTyped DEF HaInv, HaType, Replies
  <1>2. \A m \in Members : deadline'[m] = Less(deadline[m], 1) /\ deadline'[m] \in Nat
    BY <1>t DEF Tick, Less
  <1>3. \A m \in Members :
            elapsed'[m] = IF exchange[m] = "idle" THEN 0
                          ELSE Lower(elapsed[m] + 1, Less(MEMBER_LEASE[m], MARGIN))
    BY DEF Tick
  <1>4. HaType'
    <2>1. deadline' \in [Members -> Nat]
      BY <1>2 DEF Tick
    <2>2. \A m \in Members : elapsed'[m] \in Nat
      BY <1>3, <1>t, LeaseAssumption DEF Less, Lower
    <2>3. elapsed' \in [Members -> Nat]
      BY <2>2 DEF Tick
    <2>4. expiry' \in Nat /\ quarantine' \in Nat
      BY <1>1, <1>t DEF Less
    <2> QED
      BY <1>1, <2>1, <2>3, <2>4 DEF HaInv, HaType
  <1>5. ASSUME NEW m \in Members
        PROVE  Pending(m)' \in Nat /\ Pending(m)' <= Less(Pending(m), 1)
    <2>1. CASE exchange[m] = "answered" /\ reply[m].granted
      <3>1. elapsed'[m] = Lower(elapsed[m] + 1, Less(MEMBER_LEASE[m], MARGIN))
        BY <1>3, <2>1
      <3>2. /\ Pending(m) = Less(Lower(reply[m].remaining, MEMBER_LEASE[m]),
                                 MARGIN + elapsed[m])
            /\ Pending(m)' = Less(Lower(reply[m].remaining, MEMBER_LEASE[m]),
                                  MARGIN + elapsed'[m])
        BY <1>1, <2>1 DEF Pending, Validity
      <3>3. /\ reply[m].remaining \in Nat /\ MEMBER_LEASE[m] \in Nat /\ elapsed[m] \in Nat
        BY <1>t
      <3>4. \A v : v = elapsed'[m] =>
              /\ Less(Lower(reply[m].remaining, MEMBER_LEASE[m]), MARGIN + v) \in Nat
              /\ Less(Lower(reply[m].remaining, MEMBER_LEASE[m]), MARGIN + v)
                   <= Less(Less(Lower(reply[m].remaining, MEMBER_LEASE[m]),
                                MARGIN + elapsed[m]), 1)
        BY <3>1, <3>3, ValidityTicks
      <3> QED
        BY <3>2, <3>4
    <2>2. CASE ~(exchange[m] = "answered" /\ reply[m].granted)
      BY <1>1, <1>t, <2>2 DEF Pending, Less
    <2> QED
      BY <2>1, <2>2
  <1>6. OnDisk' /\ LeaseOnFile' /\ TermsOnFile'
    BY <1>1, <1>t DEF HaInv, OnDisk, LeaseOnFile, TermsOnFile, Less
  <1>7. ASSUME NEW m \in Members, NEW x \in Nat, NEW y \in Nat, y <= Less(x, 1),
               NEW a, Holds(m, x, a)
        PROVE  Holds(m, y, a)'
    <2> SUFFICES ASSUME y > 0 PROVE Holds(m, y, a)'
      BY DEF Holds
    <2>1. x > 0 /\ y <= x - 1
      BY <1>7 DEF Less
    <2>2. serving = "up" => y <= expiry' \/ y <= quarantine'
      BY <1>1, <1>7, <1>t, <2>1 DEF Holds, Less
    <2> QED
      BY <1>1, <1>7, <1>t, <2>1, <2>2 DEF Holds
  <1>8. Covered'
    <2> SUFFICES ASSUME NEW m \in Members
                 PROVE  /\ Holds(m, deadline[m], role[m])'
                        /\ Holds(m, Pending(m), reply[m].authority)'
      BY DEF Covered
    <2>0. Holds(m, deadline[m], role[m]) /\ Holds(m, Pending(m), reply[m].authority)
      BY DEF HaInv, Covered
    <2>1. Pending(m)' \in Nat
      BY <1>5
    <2>2. Holds(m, deadline[m], role[m])'
      BY <1>1, <1>2, <1>7, <1>t, <2>0 DEF Holds
    <2>3. Holds(m, Pending(m), reply[m].authority)'
      BY <1>1, <1>5, <1>7, <1>t, <2>0, <2>1 DEF Holds
    <2> QED
      BY <2>2, <2>3
  <1> QED
    BY <1>4, <1>6, <1>8 DEF HaInv
----------------------------------------------------------------------------
(* The theorems *)

LEMMA HaInvInit == Init => HaInv
  <1> SUFFICES ASSUME Init PROVE HaInv
    OBVIOUS
  <1>1. HaType
    <2>1. /\ serving = "down" /\ lease \in LEASES /\ authority = NoAuthority
          /\ expiry = 0 /\ quarantine = 0
          /\ durable.authority = NoAuthority /\ durable.lease = lease
      BY DEF Init
    <2>2. /\ boot \in [Members -> 0 .. MAX_BOOT] /\ role \in [Members -> Authorities]
          /\ deadline \in [Members -> Nat] /\ exchange \in [Members -> Stages]
          /\ elapsed \in [Members -> Nat] /\ reply \in [Members -> Replies]
      BY ValuesTyped, MemberAssumption DEF Init, Stages
    <2> QED
      BY <2>1, <2>2, ValuesTyped DEF HaType
  <1>2. \A n \in Members : /\ role[n].term = 0 /\ reply[n].authority.term = 0
                           /\ deadline[n] = 0 /\ Pending(n) = 0
    BY ValuesTyped DEF Init, Pending
  <1>3. durable.authority.term = 0 /\ authority.term = 0
    BY ValuesTyped DEF Init
  <1>4. OnDisk /\ LeaseOnFile /\ TermsOnFile
    BY <1>1, <1>2, <1>3, LeasesAreNat DEF Init, OnDisk, LeaseOnFile, TermsOnFile, HaType
  <1>5. Covered
    BY <1>2 DEF Covered, Holds
  <1> QED
    BY <1>1, <1>4, <1>5 DEF HaInv

LEMMA HaInvStutter == ASSUME HaInv, UNCHANGED vars PROVE HaInv'
  <1>1. /\ serving' = serving /\ lease' = lease /\ authority' = authority
        /\ expiry' = expiry /\ quarantine' = quarantine /\ durable' = durable
        /\ boot' = boot /\ role' = role /\ deadline' = deadline /\ exchange' = exchange
        /\ elapsed' = elapsed /\ reply' = reply
    BY DEF vars, engine, member
  <1> QED
    BY <1>1 DEF HaInv, HaType, OnDisk, LeaseOnFile, TermsOnFile, Covered, Holds, Pending,
                Validity

LEMMA HaInvNext == HaInv /\ [Next]_vars => HaInv'
  <1> SUFFICES ASSUME HaInv, [Next]_vars PROVE HaInv'
    OBVIOUS
  <1>1. ASSUME WitnessStep PROVE HaInv'
    <2>1. ASSUME NEW m \in Members, NEW b \in 0 .. MAX_BOOT, NEW q \in RequestsOf(m, b),
                 \/ Serve(q) \/ ServeFails(q)
                 \/ PersistFails(q)
          PROVE  HaInv'
      <3>1. Asked(q)
        BY RequestsAsked
      <3> QED
        BY <2>1, <3>1, ServeStep, ServeFailsStep, PersistFailsStep
    <2> QED
      BY <1>1, <2>1, WitnessCrashStep, WitnessStartStep DEF WitnessStep
  <1>2. ASSUME MemberStep PROVE HaInv'
    BY <1>2, StartStep, CrashStep, ShutdownStep, PollStep, ApplyStep, AbandonStep
       DEF MemberStep
  <1> QED
    BY <1>1, <1>2, TickStep, HaInvStutter DEF Next

\* The invariant: what any member may forward for, now or by reading an answer under
\* way, is on file and covered by the witness's lease, quarantine or recorded lease.
THEOREM LeasesCovered == Spec => []HaInv
  BY HaInvInit, HaInvNext, PTL DEF Spec

\* At no time may both members of the pair forward, whatever requests are lost,
\* delayed or repeated, whichever of the three processes crash and restart, and
\* whatever state writes fail (Engine::request, serve, exchange, run_ha).
THEOREM AuthorityExclusive == Spec => []Exclusive
  <1>1. HaInv => Exclusive
    <2>1. Members = {1, 2}
      BY DEF Members
    <2> QED
      BY <2>1 DEF HaInv, Covered, Holds, Exclusive, Forwards
  <1> QED
    BY <1>1, LeasesCovered, PTL

\* A member forwards only for a generation the witness's state file names (the
\* write that serve does before it answers).
THEOREM GrantsAreDurable == Spec => []GrantOnDisk
  <1>1. HaInv => GrantOnDisk
    BY DEF HaInv, Covered, Holds, GrantOnDisk, Forwards
  <1> QED
    BY <1>1, LeasesCovered, PTL

\* A member that may forward has not been displaced by anything its peer has learnt
\* from the witness (the expiry that Engine::request waits for).
THEOREM NobodyTakesOverEarly == Spec => []StoppedWhenReplaced
  <1>1. \A m \in Members : Other(m) \in Members
    BY DEF Members, Other
  <1>2. HaInv => StoppedWhenReplaced
    BY <1>1 DEF HaInv, Covered, Holds, Yields, StoppedWhenReplaced, Forwards
  <1> QED
    BY <1>2, LeasesCovered, PTL
============================================================================
