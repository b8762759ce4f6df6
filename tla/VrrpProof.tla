------------------------------ MODULE VrrpProof ------------------------------
(***************************************************************************)
(* For any hosts, generations, priorities and intervals, and whatever is   *)
(* lost, late, killed or refused: the armed timer is the one of the state, *)
(* and an address put on an interface by a running process has a Master    *)
(* behind it.  Every call a handler makes keeps its working copy Sound, so *)
(* every handler does.                                                     *)
(***************************************************************************)
EXTENDS Vrrp, TLAPS

Vips  == {"absent", "held", "left"}
Works == [fsm: Instances, vip: Vips, out: Seq(Adverts)]

\* The address of the working copy has a Master behind it: this process or, when
\* `other` holds, another one of its host.
Backed(w, other) == w.vip = "held" => w.fsm.state = "Master" \/ other

Sound(w, other) == w \in Works /\ TimersMatch(w.fsm) /\ Backed(w, other)

----------------------------------------------------------------------------
(* The calls of a handler *)

LEMMA SettingsTyped ==
    \A h \in Hosts : /\ BASE[h] \in Priorities /\ INTERVAL[h] \in Intervals
                     /\ DECREMENT[h] \in 0 .. 255 /\ ADDRESSES[h] \subseteq Addresses
<1>1. /\ BASE \in [Hosts -> Priorities] /\ DECREMENT \in [Hosts -> 0 .. 255]
      /\ INTERVAL \in [Hosts -> Intervals] /\ ADDRESSES \in [Hosts -> SUBSET Nat]
  BY SettingsAssumption, Zenon
<1> QED BY <1>1, Zenon DEF Addresses

LEMMA IntervalsArm == \A t \in Intervals : t \in Deadlines /\ t # Off
  BY DEF Intervals, Deadlines, Off

LEMMA NatsArm == \A t \in Nat : t \in Deadlines /\ t # Off
  BY DEF Deadlines, Off

LEMMA OffIsDeadline == Off \in Deadlines
  BY DEF Deadlines

LEMMA ProductIsNat == \A a, b \in Nat : a * b \in Nat
  OBVIOUS

LEMMA Ranges ==
    /\ \A n \in Priorities : n \in Nat /\ 256 - n \in Nat
    /\ \A n \in Intervals : n \in Nat
  BY DEF Priorities, Intervals

LEMMA Lowered ==
    ASSUME NEW b \in 1 .. 255, NEW d \in 0 .. 255
    PROVE  (IF b > d THEN b - d ELSE 1) \in 1 .. 255
  OBVIOUS

LEMMA SkewIsNat ==
    ASSUME NEW f \in Instances
    PROVE  Skew(f) \in Nat /\ MasterDownInterval(f) \in Nat
<1>1. f.priority \in Priorities /\ f.master_adver \in Intervals
  BY DEF Instances
<1>2. 256 - f.priority \in Nat /\ f.master_adver \in Nat
  BY <1>1, Ranges
<1>3. (256 - f.priority) * f.master_adver \in Nat
  BY <1>2, ProductIsNat
<1>4. Skew(f) \in Nat
  BY <1>3 DEF Skew
<1> QED BY <1>2, <1>4 DEF MasterDownInterval

LEMMA SendAdvertWork ==
    ASSUME NEW w \in Works, NEW h \in Hosts, NEW prio \in Priorities \cup {0}
    PROVE  /\ SendAdvert(w, h, prio) \in Works
           /\ SendAdvert(w, h, prio).fsm = w.fsm
           /\ SendAdvert(w, h, prio).vip = w.vip
<1> DEFINE m == [priority |-> prio, interval |-> INTERVAL[h], src |-> w.fsm.primary]
<1>1. m \in Adverts
  BY SettingsTyped DEF Adverts, Works, Instances
<1>2. Append(w.out, m) \in Seq(Adverts)
  BY <1>1 DEF Works
<1> QED BY <1>2 DEF SendAdvert, Works

\* A working copy with instance g.
LEMMA NewFsm ==
    ASSUME NEW w \in Works, NEW g \in Instances
    PROVE  /\ [w EXCEPT !.fsm = g] \in Works
           /\ [w EXCEPT !.fsm = g].fsm = g
           /\ [w EXCEPT !.fsm = g].vip = w.vip
  BY DEF Works

LEMMA ReleaseWork ==
    ASSUME NEW w \in Works
    PROVE  Release(w) \in Works /\ Release(w).fsm = w.fsm /\ Release(w).vip = "absent"
  BY DEF Release, Works, Vips

LEMMA ResetSound ==
    ASSUME NEW w \in Works, NEW other, w.vip = "held" => other
    PROVE  Sound(Reset(w), other) /\ Reset(w).fsm.state = "Initialize"
<1> DEFINE g == [w.fsm EXCEPT !.state = "Initialize", !.adver = Off, !.master_down = Off]
<1>1. g \in Instances /\ TimersMatch(g) /\ g.state = "Initialize"
  BY OffIsDeadline DEF Works, Instances, TimersMatch
<1>2. Reset(w) = [w EXCEPT !.fsm = g]
  BY DEF Reset
<1> HIDE DEF g
<1> QED BY <1>1, <1>2, NewFsm DEF Sound, Backed

LEMMA AssumeFailsSound ==
    ASSUME NEW w \in Works, NEW h \in Hosts, NEW other
    PROVE  Sound(AssumeFails(w, h), other)
<1>1. SendAdvert(w, h, 0) \in Works
  BY SendAdvertWork
<1>2. /\ Release(SendAdvert(w, h, 0)) \in Works
      /\ Release(SendAdvert(w, h, 0)).vip # "held"
  BY <1>1, ReleaseWork
<1> QED BY <1>2, ResetSound DEF AssumeFails

LEMMA ArmAdverSound ==
    ASSUME NEW w \in Works, NEW h \in Hosts, NEW other,
           w.fsm.state = "Master"
    PROVE  Sound(ArmAdver(w, h), other)
<1> DEFINE g == [w.fsm EXCEPT !.adver = INTERVAL[h], !.master_down = Off]
<1>1. g \in Instances /\ TimersMatch(g) /\ g.state = "Master"
  <2>1. INTERVAL[h] \in Deadlines /\ INTERVAL[h] # Off
    BY SettingsTyped, IntervalsArm
  <2> QED BY <2>1, OffIsDeadline DEF Works, Instances, TimersMatch
<1>2. ArmAdver(w, h) = [w EXCEPT !.fsm = g]
  BY DEF ArmAdver
<1> HIDE DEF g
<1> QED BY <1>1, <1>2, NewFsm DEF Sound, Backed

LEMMA ArmMasterDownSound ==
    ASSUME NEW w \in Works, NEW t \in Nat, NEW other,
           w.fsm.state = "Backup", Backed(w, other)
    PROVE  Sound(ArmMasterDown(w, t), other)
<1> DEFINE g == [w.fsm EXCEPT !.adver = Off, !.master_down = t]
<1>1. g \in Instances /\ TimersMatch(g) /\ g.state = "Backup"
  BY NatsArm, OffIsDeadline DEF Works, Instances, TimersMatch
<1>2. ArmMasterDown(w, t) = [w EXCEPT !.fsm = g]
  BY DEF ArmMasterDown
<1> HIDE DEF g
<1> QED BY <1>1, <1>2, NewFsm DEF Sound, Backed

LEMMA BecomeMasterSound ==
    ASSUME NEW w \in Works, NEW h \in Hosts, NEW ok \in BOOLEAN, NEW other
    PROVE  Sound(BecomeMaster(w, h, ok), other)
<1> DEFINE a == [w EXCEPT !.fsm.state = "Master"]
           s == SendAdvert(a, h, w.fsm.priority)
<1>1. a \in Works /\ a.fsm.state = "Master" /\ w.fsm.priority \in Priorities \cup {0}
  BY DEF Works, Instances
<1>2. s \in Works /\ s.fsm.state = "Master"
  BY <1>1, SendAdvertWork
<1>3. BecomeMaster(w, h, ok) = IF ok THEN ArmAdver([s EXCEPT !.vip = "held"], h)
                               ELSE AssumeFails(s, h)
  BY DEF BecomeMaster, Assume
<1> HIDE DEF s
<1>4. [s EXCEPT !.vip = "held"] \in Works /\ [s EXCEPT !.vip = "held"].fsm.state = "Master"
  BY <1>2 DEF Works, Vips
<1>5. CASE ok
  BY <1>3, <1>4, <1>5, ArmAdverSound
<1>6. CASE ~ok
  BY <1>2, <1>3, <1>6, AssumeFailsSound
<1> QED BY <1>5, <1>6

LEMMA OnStartupSound ==
    ASSUME NEW w \in Works, NEW h \in Hosts, NEW ok \in BOOLEAN, NEW other,
           w.fsm.state = "Initialize", Backed(w, other)
    PROVE  Sound(OnStartup(w, h, ok), other)
<1> DEFINE b == [w EXCEPT !.fsm.state = "Backup"]
<1>1. b \in Works /\ b.fsm.state = "Backup" /\ Backed(b, other)
  BY DEF Works, Instances, Backed
<1>2. MasterDownInterval(w.fsm) \in Nat
  BY SkewIsNat DEF Works
<1> HIDE DEF b
<1>3. Sound(ArmMasterDown(b, MasterDownInterval(w.fsm)), other)
  BY <1>1, <1>2, ArmMasterDownSound
<1> QED BY <1>3, BecomeMasterSound DEF OnStartup, b

LEMMA OnShutdownSound ==
    ASSUME NEW w \in Works, NEW h \in Hosts, NEW other, Sound(w, other)
    PROVE  Sound(OnShutdown(w, h), other) /\ OnShutdown(w, h).fsm.state = "Initialize"
<1> DEFINE said == IF w.fsm.state = "Master" THEN Release(SendAdvert(w, h, 0)) ELSE w
           g == [w.fsm EXCEPT !.state = "Initialize",
                              !.adver = IF w.fsm.state = "Master" THEN Off ELSE w.fsm.adver,
                              !.master_down = IF w.fsm.state = "Backup" THEN Off
                                              ELSE w.fsm.master_down]
<1>1. said \in Works /\ (said.vip = "held" => other) /\ said.fsm = w.fsm
  <2>1. CASE w.fsm.state = "Master"
    BY <2>1, SendAdvertWork, ReleaseWork
  <2>2. CASE w.fsm.state # "Master"
    BY <2>2 DEF Sound, Backed
  <2> QED BY <2>1, <2>2
<1>2. g \in Instances /\ g.state = "Initialize" /\ TimersMatch(g)
  BY OffIsDeadline DEF Works, Instances, Sound, TimersMatch
<1>3. OnShutdown(w, h) = [said EXCEPT !.fsm = g]
  BY <1>1 DEF OnShutdown
<1> HIDE DEF said, g
<1> QED BY <1>1, <1>2, <1>3, NewFsm DEF Sound, Backed

LEMMA SetPrioritySound ==
    ASSUME NEW w \in Works, NEW h \in Hosts, NEW prio \in Priorities, NEW other,
           Sound(w, other)
    PROVE  Sound(SetPriority(w, h, prio), other)
<1> DEFINE set == [w EXCEPT !.fsm.priority = prio]
<1>1. set = [fsm |-> [w.fsm EXCEPT !.priority = prio], vip |-> w.vip, out |-> w.out]
  BY DEF Works, Instances
<1>2. set \in Works /\ Sound(set, other)
  BY <1>1, OffIsDeadline, NatsArm DEF Sound, Works, Instances, TimersMatch, Backed
<1> HIDE DEF set
<1>3. Sound(SendAdvert(set, h, prio), other)
  <2>1. prio \in Priorities \cup {0}
    OBVIOUS
  <2> QED BY <1>2, <2>1, SendAdvertWork DEF Sound, Backed
<1> QED BY <1>2, <1>3 DEF SetPriority, set

LEMMA AdvertInBackupSound ==
    ASSUME NEW w \in Works, NEW h \in Hosts, NEW m \in Adverts, NEW other,
           Sound(w, other), w.fsm.state = "Backup"
    PROVE  Sound(AdvertInBackup(w, h, m), other)
<1> DEFINE learned == [w EXCEPT !.fsm.master_adver = m.interval]
<1>1. learned = [fsm |-> [w.fsm EXCEPT !.master_adver = m.interval],
                 vip |-> w.vip, out |-> w.out]
  BY DEF Works, Instances
<1>2. learned \in Works /\ learned.fsm \in Instances /\ learned.fsm.state = "Backup"
      /\ Backed(learned, other)
  BY <1>1 DEF Works, Instances, Adverts, Backed, Sound
<1> HIDE DEF learned
<1>3. Sound(ArmMasterDown(learned, MasterDownInterval(learned.fsm)), other)
  BY <1>2, SkewIsNat, ArmMasterDownSound
<1>4. Sound(ArmMasterDown(w, Skew(w.fsm)), other)
  BY SkewIsNat, ArmMasterDownSound DEF Works, Sound
<1> QED BY <1>3, <1>4 DEF AdvertInBackup, learned

LEMMA AdvertInMasterSound ==
    ASSUME NEW w \in Works, NEW h \in Hosts, NEW m \in Adverts, NEW other,
           Sound(w, other), w.fsm.state = "Master"
    PROVE  Sound(AdvertInMaster(w, h, m), other)
<1> DEFINE g       == [w.fsm EXCEPT !.state = "Backup", !.master_adver = m.interval]
           learned == [w EXCEPT !.fsm = g]
           s       == SendAdvert(w, h, w.fsm.priority)
<1>1. g \in Instances /\ g.state = "Backup"
  BY DEF Works, Instances, Adverts
<1>2. AdvertInMaster(w, h, m) =
        IF m.priority = 0 THEN ArmAdver(s, h)
        ELSE IF Yields(w, m)
        THEN ArmMasterDown(Release(learned), MasterDownInterval(learned.fsm)) ELSE w
  BY DEF AdvertInMaster
<1> HIDE DEF g
<1>3. learned \in Works /\ learned.fsm = g
  BY <1>1, NewFsm
<1> HIDE DEF learned
<1>4. Release(learned) \in Works /\ Release(learned).fsm.state = "Backup"
      /\ Backed(Release(learned), other)
  BY <1>1, <1>3, ReleaseWork DEF Backed
<1>5. Sound(ArmMasterDown(Release(learned), MasterDownInterval(learned.fsm)), other)
  BY <1>1, <1>3, <1>4, SkewIsNat, ArmMasterDownSound
<1>6. w.fsm.priority \in Priorities \cup {0}
  BY DEF Works, Instances
<1>7. s \in Works /\ s.fsm.state = "Master"
  BY <1>6, SendAdvertWork
<1> HIDE DEF s
<1>8. Sound(ArmAdver(s, h), other)
  BY <1>7, ArmAdverSound
<1> QED BY <1>2, <1>5, <1>8

LEMMA OnAdvertisementSound ==
    ASSUME NEW w \in Works, NEW h \in Hosts, NEW m \in Adverts, NEW other,
           Sound(w, other)
    PROVE  Sound(OnAdvertisement(w, h, m), other)
  BY AdvertInBackupSound, AdvertInMasterSound DEF OnAdvertisement

LEMMA OnTimerSound ==
    ASSUME NEW w \in Works, NEW h \in Hosts, NEW ok \in BOOLEAN, NEW other,
           Sound(w, other), 0 \in {w.fsm.adver, w.fsm.master_down}
    PROVE  Sound(OnTimer(w, h, ok), other)
<1> DEFINE g == [w.fsm EXCEPT !.adver = Pending(w.fsm.adver),
                              !.master_down = Pending(w.fsm.master_down)]
           idle == [w EXCEPT !.fsm = g]
           s    == SendAdvert(idle, h, w.fsm.priority)
<1>1. g \in Instances /\ g.state = w.fsm.state
  BY OffIsDeadline DEF Works, Instances, Pending
<1>2. OnTimer(w, h, ok) =
        IF w.fsm.adver = 0 /\ w.fsm.state = "Master" THEN ArmAdver(s, h)
        ELSE IF w.fsm.master_down = 0 /\ w.fsm.state = "Backup" THEN BecomeMaster(idle, h, ok)
        ELSE idle
  BY DEF OnTimer
<1> HIDE DEF g
<1>3. idle \in Works /\ idle.fsm = g
  BY <1>1, NewFsm
<1> HIDE DEF idle
<1>4. Sound(BecomeMaster(idle, h, ok), other)
  BY <1>3, BecomeMasterSound
<1>5. w.fsm.priority \in Priorities \cup {0}
  BY DEF Works, Instances
<1>6. s \in Works /\ s.fsm = g
  BY <1>3, <1>5, SendAdvertWork
<1> HIDE DEF s
<1>7. CASE w.fsm.state = "Master"
  <2>1. w.fsm.adver = 0
    BY <1>7 DEF Sound, TimersMatch, Off
  <2>2. Sound(ArmAdver(s, h), other)
    BY <1>1, <1>6, <1>7, ArmAdverSound
  <2> QED BY <1>2, <1>7, <2>1, <2>2
<1>8. CASE w.fsm.state # "Master"
  <2>1. w.fsm.master_down = 0 /\ w.fsm.state = "Backup"
    BY <1>8 DEF Sound, TimersMatch, Off
  <2> QED BY <1>2, <1>4, <1>8, <2>1
<1> QED BY <1>7, <1>8

LEMMA AssumeSound ==
    ASSUME NEW w \in Works, NEW h \in Hosts, NEW ok \in BOOLEAN, NEW other,
           Sound(w, other), w.fsm.state = "Master"
    PROVE  Sound(Assume(w, h, ok), other)
<1>1. Sound([w EXCEPT !.vip = "held"], other)
  BY DEF Sound, Works, Vips, Backed
<1> QED BY <1>1, AssumeFailsSound DEF Assume

LEMMA PollPrimarySound ==
    ASSUME NEW w \in Works, NEW h \in Hosts, NEW a \in Addresses, NEW ok \in BOOLEAN,
           NEW other, Sound(w, other)
    PROVE  Sound(PollPrimary(w, h, a, ok), other)
<1> DEFINE o     == OnShutdown(w, h)
           fresh == [o EXCEPT !.fsm.primary = a]
           g     == [o.fsm EXCEPT !.primary = a]
<1>1. Sound(o, other) /\ o \in Works /\ o.fsm.state = "Initialize"
  BY OnShutdownSound DEF Sound
<1>2. PollPrimary(w, h, a, ok) =
        IF a = 0 /\ w.fsm.primary = 0 /\ w.fsm.state = "Initialize" THEN w
        ELSE IF a = w.fsm.primary /\ w.fsm.state # "Initialize"
        THEN IF w.fsm.state = "Master" /\ w.vip = "absent" THEN Assume(w, h, ok) ELSE w
        ELSE IF a = 0 THEN fresh ELSE OnStartup(fresh, h, ok)
  BY DEF PollPrimary
<1> HIDE DEF o
<1>3. fresh = [o EXCEPT !.fsm = g] /\ g \in Instances /\ g.state = "Initialize"
      /\ TimersMatch(g)
  BY <1>1 DEF Works, Instances, Sound, TimersMatch
<1> HIDE DEF g
<1>4. fresh \in Works /\ fresh.fsm = g /\ fresh.vip = o.vip
  BY <1>1, <1>3, NewFsm
<1> HIDE DEF fresh
<1>5. Sound(fresh, other) /\ fresh.fsm.state = "Initialize"
  BY <1>1, <1>3, <1>4 DEF Sound, Backed
<1>6. Sound(OnStartup(fresh, h, ok), other)
  BY <1>4, <1>5, OnStartupSound DEF Sound
<1> QED BY <1>2, <1>5, <1>6, AssumeSound

LEMMA EffectiveTyped == \A h \in Hosts : Effective(h) \in Priorities
<1> SUFFICES ASSUME NEW h \in Hosts PROVE Effective(h) \in Priorities
  OBVIOUS
<1>1. BASE[h] \in 1 .. 255 /\ DECREMENT[h] \in 0 .. 255
  BY SettingsTyped DEF Priorities
<1>2. (IF BASE[h] > DECREMENT[h] THEN BASE[h] - DECREMENT[h] ELSE 1) \in 1 .. 255
  BY <1>1, Lowered, Zenon
<1> QED BY <1>1, <1>2, Zenon DEF Effective, Priorities

LEMMA OnPollSound ==
    ASSUME NEW w \in Works, NEW h \in Hosts, NEW ok \in BOOLEAN, NEW other,
           Sound(w, other), address[h] \in Addresses
    PROVE  Sound(OnPoll(w, h, ok), other)
<1>1. Sound(PollPrimary(w, h, address[h], ok), other)
  BY PollPrimarySound
<1> HIDE DEF Sound
<1>2. PollPrimary(w, h, address[h], ok) \in Works
  BY <1>1 DEF Sound
<1> QED BY <1>1, <1>2, EffectiveTyped, SetPrioritySound DEF OnPoll

----------------------------------------------------------------------------
(* The actions *)

Inv == TypeOK /\ TimerOfState /\ HeldByMaster

\* Another process of p's host is Master.
OtherMaster(p) == \E q \in Processes : q # p /\ Host(q) = Host(p) /\ inst[q].state = "Master"

LEMMA HostIsHost == \A p \in Processes : Host(p) \in Hosts
  BY DEF Host, Hosts

LEMMA WorkSound ==
    ASSUME Inv, NEW p \in Processes
    PROVE  Work(p) \in Works /\ Sound(Work(p), OtherMaster(p)) /\ Work(p).fsm = inst[p]
<1>1. /\ Work(p) = [fsm |-> inst[p], vip |-> vip[Host(p)], out |-> <<>>]
      /\ inst[p] \in Instances /\ vip[Host(p)] \in Vips
  BY HostIsHost DEF Work, Inv, TypeOK, Vips
<1>2. Work(p) \in Works
  BY <1>1 DEF Works
<1>3. TimersMatch(inst[p])
  BY DEF Inv, TimerOfState
<1>4. vip[Host(p)] = "held" => inst[p].state = "Master" \/ OtherMaster(p)
  BY HostIsHost DEF Inv, HeldByMaster, OtherMaster
<1> QED BY <1>1, <1>2, <1>3, <1>4 DEF Sound, Backed

LEMMA QueuedTyped ==
    ASSUME NEW seq \in Seq(Adverts), NEW more \in Seq(Adverts), Len(seq) <= INBOX
    PROVE  Queued(seq, more) \in Seq(Adverts) /\ Len(Queued(seq, more)) <= INBOX
<1> DEFINE all == seq \o more
<1>1. all \in Seq(Adverts) /\ Len(all) \in Nat /\ INBOX \in Nat
  BY SettingsAssumption
<1>2. Queued(seq, more) = IF Len(all) <= INBOX THEN all ELSE SubSeq(all, 1, INBOX)
  BY DEF Queued
<1> HIDE DEF all
<1>3. ASSUME ~(Len(all) <= INBOX)
      PROVE  SubSeq(all, 1, INBOX) \in Seq(Adverts) /\ Len(SubSeq(all, 1, INBOX)) = INBOX
  <2>1. \A i \in 1 .. INBOX : all[i] \in Adverts
    BY <1>1, <1>3
  <2> QED BY <1>1, <1>3, <2>1
<1> QED BY <1>1, <1>2, <1>3

\* A handler that leaves its working copy Sound keeps the invariant.
LEMMA CommitInv ==
    ASSUME Inv, NEW p \in Processes, NEW w \in Works, Sound(w, OtherMaster(p)),
           NEW rest \in Seq(Adverts), Len(rest) <= INBOX, Commit(p, w, rest),
           stopping' \in [Processes -> BOOLEAN]
    PROVE  Inv'
<1>1. /\ inst' = [inst EXCEPT ![p] = w.fsm]
      /\ vip' = [vip EXCEPT ![Host(p)] = w.vip]
      /\ address' = address /\ tracked' = tracked
  BY DEF Commit
<1>2. w.fsm \in Instances /\ w.vip \in Vips /\ w.out \in Seq(Adverts)
  BY DEF Works
<1>3. \A q \in Processes : inbox'[q] \in Seq(Adverts) /\ Len(inbox'[q]) <= INBOX
  <2> SUFFICES ASSUME NEW q \in Processes
               PROVE  inbox'[q] \in Seq(Adverts) /\ Len(inbox'[q]) <= INBOX
    OBVIOUS
  <2>1. inbox[q] \in Seq(Adverts) /\ Len(inbox[q]) <= INBOX
    BY DEF Inv, TypeOK
  <2>2. inbox'[q] = IF q = p THEN rest
                    ELSE IF q \in Hears(p) THEN Queued(inbox[q], w.out) ELSE inbox[q]
    BY DEF Commit
  <2> QED BY <1>2, <2>1, <2>2, QueuedTyped
<1>4. TypeOK'
  <2>1. inst' \in [Processes -> Instances]
    BY <1>1, <1>2 DEF Inv, TypeOK
  <2>2. vip' \in [Hosts -> {"absent", "held", "left"}]
    BY <1>1, <1>2 DEF Inv, TypeOK, Vips
  <2>3. inbox' \in [Processes -> Seq(Adverts)]
    BY <1>3 DEF Commit
  <2> QED BY <1>1, <1>3, <2>1, <2>2, <2>3 DEF Inv, TypeOK
<1>5. inst'[p] = w.fsm /\ \A q \in Processes : q # p => inst'[q] = inst[q]
  BY <1>1 DEF Inv, TypeOK
<1>6. TimerOfState'
  BY <1>5 DEF Inv, TimerOfState, Sound
<1>7. HeldByMaster'
  <2> SUFFICES ASSUME NEW h \in Hosts, vip'[h] = "held"
               PROVE  \E q \in Processes : Host(q) = h /\ inst'[q].state = "Master"
    BY DEF HeldByMaster
  <2>1. CASE h = Host(p)
    <3>1. w.vip = "held"
      BY <1>1, <2>1 DEF Inv, TypeOK
    <3>2. w.fsm.state = "Master" \/ OtherMaster(p)
      BY <3>1 DEF Sound, Backed
    <3> QED BY <1>5, <2>1, <3>2 DEF OtherMaster
  <2>2. CASE h # Host(p)
    <3>1. vip[h] = "held"
      BY <1>1, <2>2 DEF Inv, TypeOK
    <3>2. PICK q \in Processes : Host(q) = h /\ inst[q].state = "Master"
      BY <3>1 DEF Inv, HeldByMaster
    <3> QED BY <1>5, <2>2, <3>2
  <2> QED BY <2>1, <2>2
<1> QED BY <1>4, <1>6, <1>7 DEF Inv

LEMMA NoAddress == 0 \in Addresses
  BY Zenon DEF Addresses

LEMMA NewTyped ==
    ASSUME TypeOK, NEW h \in Hosts
    PROVE  /\ New(h) \in Instances /\ New(h).state = "Initialize" /\ TimersMatch(New(h))
           /\ Dead(h) \in Instances /\ Dead(h).state = "off" /\ TimersMatch(Dead(h))
<1>1. address[h] \in Addresses /\ 0 \in Addresses
  BY NoAddress DEF TypeOK
<1>2. New(h) \in Instances /\ New(h).state = "Initialize" /\ TimersMatch(New(h))
  BY <1>1, SettingsTyped, OffIsDeadline DEF New, Instances, TimersMatch
<1>3. Dead(h) \in Instances /\ Dead(h).state = "off" /\ TimersMatch(Dead(h))
  BY <1>1, SettingsTyped, OffIsDeadline DEF Dead, New, Instances, TimersMatch
<1> QED BY <1>2, <1>3

LEMMA InboxTyped ==
    ASSUME Inv, NEW p \in Processes
    PROVE  /\ inbox[p] \in Seq(Adverts) /\ Len(inbox[p]) <= INBOX
           /\ <<>> \in Seq(Adverts) /\ Len(<<>>) <= INBOX
           /\ inbox[p] # <<>> => /\ Head(inbox[p]) \in Adverts
                                /\ Tail(inbox[p]) \in Seq(Adverts)
                                /\ Len(Tail(inbox[p])) <= INBOX
<1>1. inbox[p] \in Seq(Adverts) /\ Len(inbox[p]) <= INBOX /\ INBOX \in Nat
  BY SettingsAssumption DEF Inv, TypeOK
<1> QED BY <1>1

LEMMA StartInv ==
    ASSUME Inv, NEW p \in Processes, NEW ok \in BOOLEAN, Start(p, ok)
    PROVE  Inv'
<1> DEFINE h == Host(p)
           w == [Work(p) EXCEPT !.fsm = New(h)]
           v == IF address[h] = 0 THEN w ELSE OnStartup(w, h, ok)
<1>1. h \in Hosts /\ TypeOK /\ inst[p].state = "off"
  BY HostIsHost DEF Inv, Start, Running
<1>2. New(h) \in Instances /\ New(h).state = "Initialize" /\ TimersMatch(New(h))
  BY <1>1, NewTyped
<1>3. w \in Works /\ w.fsm = New(h) /\ w.vip = Work(p).vip
  BY <1>2, WorkSound, NewFsm
<1>4. Sound(w, OtherMaster(p))
  BY <1>1, <1>2, <1>3, WorkSound DEF Sound, Backed
<1>5. Commit(p, v, <<>>) /\ stopping' = stopping
  BY DEF Start
<1> HIDE DEF w, h
<1>6. Sound(v, OtherMaster(p)) /\ v \in Works
  BY <1>1, <1>2, <1>3, <1>4, OnStartupSound DEF Sound
<1> HIDE DEF v
<1> QED BY <1>5, <1>6, InboxTyped, CommitInv DEF Inv, TypeOK

LEMMA ReceiveInv ==
    ASSUME Inv, NEW p \in Processes, Receive(p)
    PROVE  Inv'
<1> DEFINE v == OnAdvertisement(Work(p), Host(p), Head(inbox[p]))
<1>1. Commit(p, v, Tail(inbox[p])) /\ stopping' = stopping /\ inbox[p] # <<>>
  BY DEF Receive
<1>2. Sound(v, OtherMaster(p)) /\ v \in Works
  BY <1>1, HostIsHost, WorkSound, InboxTyped, OnAdvertisementSound DEF Sound
<1> HIDE DEF v
<1> QED BY <1>1, <1>2, InboxTyped, CommitInv DEF Inv, TypeOK

LEMMA TimerInv ==
    ASSUME Inv, NEW p \in Processes, NEW ok \in BOOLEAN, Timer(p, ok)
    PROVE  Inv'
<1> DEFINE v == OnTimer(Work(p), Host(p), ok)
<1>1. /\ Commit(p, v, inbox[p]) /\ stopping' = stopping
      /\ 0 \in {inst[p].adver, inst[p].master_down}
  BY DEF Timer
<1>2. Sound(v, OtherMaster(p)) /\ v \in Works
  BY <1>1, HostIsHost, WorkSound, OnTimerSound DEF Sound
<1> HIDE DEF v
<1> QED BY <1>1, <1>2, InboxTyped, CommitInv DEF Inv, TypeOK

LEMMA PollInv ==
    ASSUME Inv, NEW p \in Processes, NEW ok \in BOOLEAN, Poll(p, ok)
    PROVE  Inv'
<1> DEFINE v == OnPoll(Work(p), Host(p), ok)
<1>1. Commit(p, v, inbox[p]) /\ stopping' = stopping
  BY DEF Poll
<1>2. Host(p) \in Hosts /\ address[Host(p)] \in Addresses
  BY HostIsHost DEF Inv, TypeOK
<1>3. Sound(v, OtherMaster(p)) /\ v \in Works
  BY <1>2, WorkSound, OnPollSound DEF Sound
<1> HIDE DEF v
<1> QED BY <1>1, <1>3, InboxTyped, CommitInv DEF Inv, TypeOK

LEMMA StopInv ==
    ASSUME Inv, NEW p \in Processes, Stop(p)
    PROVE  Inv'
<1> DEFINE h == Host(p)
           o == OnShutdown(Work(p), h)
           v == [o EXCEPT !.fsm = Dead(h)]
<1>1. h \in Hosts /\ TypeOK
  BY HostIsHost DEF Inv
<1>2. Commit(p, v, <<>>) /\ stopping' = [stopping EXCEPT ![p] = FALSE]
  BY DEF Stop
<1>3. Sound(o, OtherMaster(p)) /\ o \in Works /\ o.fsm.state = "Initialize"
  BY <1>1, WorkSound, OnShutdownSound DEF Sound
<1>4. Dead(h) \in Instances /\ TimersMatch(Dead(h))
  BY <1>1, NewTyped
<1> HIDE DEF o, h
<1>5. v \in Works /\ v.fsm = Dead(h) /\ v.vip = o.vip
  BY <1>3, <1>4, NewFsm
<1> HIDE DEF v
<1>6. Sound(v, OtherMaster(p))
  BY <1>3, <1>4, <1>5 DEF Sound, Backed
<1>7. stopping' \in [Processes -> BOOLEAN]
  BY <1>1, <1>2 DEF TypeOK
<1> QED BY <1>2, <1>5, <1>6, <1>7, InboxTyped, CommitInv

LEMMA KillInv ==
    ASSUME Inv, NEW h \in Hosts, Kill(h)
    PROVE  Inv'
<1>1. /\ inst' = [p \in Processes |-> IF Host(p) = h THEN Dead(h) ELSE inst[p]]
      /\ stopping' = [p \in Processes |-> Host(p) # h /\ stopping[p]]
      /\ inbox' = [p \in Processes |-> IF Host(p) = h THEN <<>> ELSE inbox[p]]
      /\ vip' = [vip EXCEPT ![h] = IF @ = "absent" THEN @ ELSE "left"]
      /\ address' = address /\ tracked' = tracked
  BY DEF Kill
<1>2. Dead(h) \in Instances /\ TimersMatch(Dead(h))
  BY NewTyped DEF Inv
<1>3. TypeOK'
  <2>1. inst' \in [Processes -> Instances] /\ stopping' \in [Processes -> BOOLEAN]
    BY <1>1, <1>2 DEF Inv, TypeOK
  <2>2. inbox' \in [Processes -> Seq(Adverts)] /\ \A p \in Processes : Len(inbox'[p]) <= INBOX
    <3>1. \A p \in Processes : inbox'[p] \in Seq(Adverts) /\ Len(inbox'[p]) <= INBOX
      BY <1>1, InboxTyped
    <3> QED BY <1>1, <3>1
  <2>3. vip' \in [Hosts -> {"absent", "held", "left"}]
    BY <1>1 DEF Inv, TypeOK
  <2> QED BY <1>1, <2>1, <2>2, <2>3 DEF Inv, TypeOK
<1>4. TimerOfState'
  BY <1>1, <1>2 DEF Inv, TimerOfState
<1>5. HeldByMaster'
  <2> SUFFICES ASSUME NEW g \in Hosts, vip'[g] = "held"
               PROVE  \E q \in Processes : Host(q) = g /\ inst'[q].state = "Master"
    BY DEF HeldByMaster
  <2>1. g # h /\ vip[g] = "held"
    BY <1>1 DEF Inv, TypeOK
  <2>2. PICK q \in Processes : Host(q) = g /\ inst[q].state = "Master"
    BY <2>1 DEF Inv, HeldByMaster
  <2> QED BY <1>1, <2>1, <2>2
<1> QED BY <1>3, <1>4, <1>5 DEF Inv

LEMMA EnvironmentInv ==
    ASSUME Inv, NEW h \in Hosts,
           Strip(h) \/ Track(h) \/ \E a \in ADDRESSES[h] : Readdress(h, a)
    PROVE  Inv'
<1>1. inst' = inst /\ stopping' = stopping /\ inbox' = inbox
  BY DEF Strip, Track, Readdress
<1>2. vip' \in [Hosts -> {"absent", "held", "left"}]
      /\ \A g \in Hosts : vip'[g] = "held" => vip[g] = "held"
  BY DEF Strip, Track, Readdress, Inv, TypeOK
<1>3. address' \in [Hosts -> Addresses]
  BY SettingsTyped DEF Strip, Track, Readdress, Inv, TypeOK
<1>4. tracked' \in [Hosts -> BOOLEAN]
  BY DEF Strip, Track, Readdress, Inv, TypeOK
<1>5. TypeOK'
  BY <1>1, <1>2, <1>3, <1>4 DEF Inv, TypeOK
<1>6. TimerOfState' /\ HeldByMaster'
  BY <1>1, <1>2 DEF Inv, TimerOfState, HeldByMaster
<1> QED BY <1>5, <1>6 DEF Inv

LEMMA SignalInv ==
    ASSUME Inv, NEW p \in Processes, Signal(p)
    PROVE  Inv'
  BY DEF Signal, Inv, TypeOK, TimerOfState, HeldByMaster

LEMMA LoseInv ==
    ASSUME Inv, NEW p \in Processes, Lose(p)
    PROVE  Inv'
<1>1. /\ inbox' = [inbox EXCEPT ![p] = Tail(inbox[p])] /\ inbox[p] # <<>>
      /\ inst' = inst /\ stopping' = stopping /\ vip' = vip
      /\ address' = address /\ tracked' = tracked
  BY DEF Lose
<1>2. Tail(inbox[p]) \in Seq(Adverts) /\ Len(Tail(inbox[p])) <= INBOX
  BY <1>1, InboxTyped
<1>3. inbox' \in [Processes -> Seq(Adverts)]
  BY <1>1, <1>2 DEF Inv, TypeOK
<1>4. \A q \in Processes : Len(inbox'[q]) <= INBOX
  BY <1>1, <1>2 DEF Inv, TypeOK
<1>5. TypeOK'
  BY <1>1, <1>3, <1>4 DEF Inv, TypeOK
<1>6. TimerOfState' /\ HeldByMaster'
  BY <1>1 DEF Inv, TimerOfState, HeldByMaster
<1> QED BY <1>5, <1>6 DEF Inv

LEMMA LessKeeps == \A t \in Deadlines : Less(t) \in Deadlines /\ (Less(t) = Off <=> t = Off)
  BY DEF Less, Deadlines, Off

LEMMA TickInv ==
    ASSUME Inv, Tick
    PROVE  Inv'
<1> DEFINE Later(f) == [f EXCEPT !.adver = Less(f.adver), !.master_down = Less(f.master_down)]
<1>1. /\ inst' = [p \in Processes |-> Later(inst[p])]
      /\ stopping' = stopping /\ inbox' = inbox /\ vip' = vip
      /\ address' = address /\ tracked' = tracked
  BY DEF Tick
<1>2. ASSUME NEW f \in Instances, TimersMatch(f)
      PROVE  Later(f) \in Instances /\ Later(f).state = f.state /\ TimersMatch(Later(f))
  BY <1>2, LessKeeps DEF Instances, TimersMatch
<1> HIDE DEF Later
<1>3. \A p \in Processes : inst[p] \in Instances /\ TimersMatch(inst[p])
  BY DEF Inv, TypeOK, TimerOfState
<1>4. \A p \in Processes : /\ inst'[p] \in Instances /\ TimersMatch(inst'[p])
                           /\ inst'[p].state = inst[p].state
  BY <1>1, <1>2, <1>3
<1>5. TypeOK'
  BY <1>1, <1>4 DEF Inv, TypeOK
<1>6. TimerOfState' /\ HeldByMaster'
  BY <1>1, <1>4 DEF Inv, TimerOfState, HeldByMaster
<1> QED BY <1>5, <1>6 DEF Inv

LEMMA NextInv == Inv /\ [Next]_vars => Inv'
<1> SUFFICES ASSUME Inv, [Next]_vars PROVE Inv'
  OBVIOUS
<1>1. CASE \E p \in Processes, ok \in BOOLEAN : Start(p, ok) \/ ProcessStep(p, ok)
  BY <1>1, StartInv, ReceiveInv, TimerInv, PollInv, StopInv DEF ProcessStep
<1>2. CASE \E p \in Processes : Signal(p) \/ Lose(p)
  BY <1>2, SignalInv, LoseInv
<1>3. CASE \E h \in Hosts : Kill(h) \/ Strip(h) \/ Track(h)
  BY <1>3, KillInv, EnvironmentInv
<1>4. CASE \E h \in Hosts : \E a \in ADDRESSES[h] : Readdress(h, a)
  BY <1>4, EnvironmentInv
<1>5. CASE Tick
  BY <1>5, TickInv
<1>6. CASE UNCHANGED vars
  BY <1>6 DEF vars, Inv, TypeOK, TimerOfState, HeldByMaster
<1> QED BY <1>1, <1>2, <1>3, <1>4, <1>5, <1>6 DEF Next

LEMMA InitInv == Init => Inv
<1> SUFFICES ASSUME Init PROVE Inv
  OBVIOUS
<1>1. \A h \in Hosts : address[h] \in Addresses /\ 0 \in Addresses
  BY NoAddress DEF Init
<1>2. \A h \in Hosts : Dead(h) \in Instances /\ TimersMatch(Dead(h))
  BY <1>1, SettingsTyped, OffIsDeadline DEF Dead, New, Instances, TimersMatch
<1>3. inst \in [Processes -> Instances] /\ TimerOfState
  BY <1>2, HostIsHost DEF Init, TimerOfState
<1>4. inbox \in [Processes -> Seq(Adverts)] /\ \A p \in Processes : Len(inbox[p]) <= INBOX
  BY SettingsAssumption DEF Init
<1>5. TypeOK
  BY <1>3, <1>4 DEF Init, TypeOK
<1>6. HeldByMaster
  BY DEF Init, HeldByMaster
<1> QED BY <1>3, <1>5, <1>6 DEF Inv
----------------------------------------------------------------------------
(* The theorems *)

LEMMA InvHolds == Spec => []Inv
<1> QED BY InitInv, NextInv, PTL DEF Spec

\* Every variable keeps its type and no queue outgrows its limit, whatever run()
\* of vrrp.rs receives, misses or is refused.
THEOREM VrrpTyped == Spec => []TypeOK
<1>1. Inv => TypeOK
  BY DEF Inv
<1> QED BY <1>1, InvHolds, PTL

\* The armed timer of a VRRP instance is always the one of its state: a Backup can be
\* woken to take over, a Master to advertise.
THEOREM TimersFollowState == Spec => []TimerOfState
<1>1. Inv => TimerOfState
  BY DEF Inv
<1> QED BY <1>1, InvHolds, PTL

\* The virtual address that assume_vip put on an interface is gone before the last
\* Master of the host is, also when two generations of a reload overlap.
THEOREM AddressHeldByMaster == Spec => []HeldByMaster
<1>1. Inv => HeldByMaster
  BY DEF Inv
<1> QED BY <1>1, InvHolds, PTL
============================================================================
