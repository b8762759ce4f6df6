---------------------------- MODULE DaemonProof ----------------------------
(* For any set of configuration files, any capacity of the BGP queue and any  *)
(* number of edits, reloads, failures and queries: the supervisor's slots     *)
(* follow the accepted configuration, no engine has two running generations,  *)
(* the BGP engine's neighbours follow main's baseline, and main leaves early  *)
(* only after every goodbye.                                                  *)
EXTENDS Daemon, TLAPS

\* A slot that follows configuration c.
Follows(running, c, e) ==
  /\ running \subseteq {SigOf(c, e)}
  /\ Enabled(c, e) /\ Builds(c, e) => running # {}
  /\ ~Enabled(c, e) => running = {}

\* A slot that runs holds a generation of its own engine, a stopped one holds none.
SlotsCoherent ==
  \A e \in Engines : /\ slot[e].gen = 0 <=> slot[e].running = {}
                     /\ slot[e].gen # 0 => gens[slot[e].gen].engine = e

\* Engines main has not reached yet are stopped, the others follow the file.
StartupInOrder ==
  \A i \in 1..Len(MainOrder) :
     MainOrder[i] # "bgp" =>
        IF i < at THEN Follows(slot[MainOrder[i]].running, file, MainOrder[i])
                  ELSE slot[MainOrder[i]] = Stopped

\* What main relies on in each phase of its life.
PhaseInv ==
  /\ phase = "start" => /\ applied = file /\ known = Peers(file) /\ bgp.queue = <<>>
                        /\ StartupInOrder
  /\ phase \in {"start", "run"} => ~shutdown
  /\ reload # "idle" => phase = "run"

IInv == DaemonInv /\ SlotsCoherent /\ PhaseInv

-----------------------------------------------------------------------------
(* The supervisor's operations, on any value of its state. *)

GenSeq == Seq(Generations)

\* The supervisor's state s is well typed ...
SupTypes(s) ==
  /\ s.gens \in GenSeq
  /\ DOMAIN s.slot = Engines
  /\ \A e \in Engines : s.slot[e] \in [running : SUBSET Signatures[e], gen : 0..Len(s.gens)]
  /\ s.route \in [Engines -> [made : BOOLEAN, to : 0..Len(s.gens)]]

\* ... and its slots and generations agree.
SupSlots(s) ==
  /\ \A e \in Engines : /\ s.slot[e].gen = 0 <=> s.slot[e].running = {}
                        /\ s.slot[e].gen # 0 => s.gens[s.slot[e].gen].engine = e
  /\ \A g \in DOMAIN s.gens :
        ~s.gens[g].stop /\ ~s.gens[g].done => s.slot[s.gens[g].engine].gen = g

SupOK(s) == SupTypes(s) /\ SupSlots(s)

\* The signature of a file of the operator's is one of the engine's signatures, and
\* says whether the engine is enabled.
LEMMA SigFacts ==
  ASSUME NEW c \in Files, NEW e \in Engines
  PROVE  SigOf(c, e) \in Signatures[e] /\ SigOf(c, e).enabled = Enabled(c, e)
<1>1. SigOf(c, e) \in Signatures[e]
  BY DEF Signatures
<1>2. SigOf(c, e).enabled = Enabled(c, e)
  BY DEF SigOf
<1> QED BY <1>1, <1>2

\* The sequence of generations q with generation g told to stop, its relay gone.
ToldToStop(q, g) == [q EXCEPT ![g].stop = TRUE, ![g].relay = FALSE]

\* What stop_slot makes of the supervisor's state.
LEMMA StopSlotFields ==
  ASSUME NEW s, NEW e \in Engines
  PROVE  /\ StopSlot(s, e).slot = [s.slot EXCEPT ![e] = Stopped]
         /\ StopSlot(s, e).route = s.route
         /\ StopSlot(s, e).gens =
               IF s.slot[e].gen = 0 THEN s.gens ELSE ToldToStop(s.gens, s.slot[e].gen)
<1> DEFINE w == [s.slot EXCEPT ![e] = Stopped]
           q == IF s.slot[e].gen = 0 THEN s.gens ELSE ToldToStop(s.gens, s.slot[e].gen)
<1>1. StopSlot(s, e) = [slot |-> w, gens |-> q, route |-> s.route]
  BY DEF StopSlot, ToldToStop
<1> HIDE DEF w, q
<1> QED BY <1>1 DEF w, q

\* A generation of a well-typed sequence, told to stop.
LEMMA Told ==
  ASSUME NEW q \in GenSeq, NEW g \in 1..Len(q)
  PROVE  LET r == ToldToStop(q, g)
         IN  /\ r \in GenSeq /\ Len(r) = Len(q) /\ DOMAIN r = DOMAIN q
             /\ r[g].engine = q[g].engine /\ r[g].stop
             /\ \A h \in DOMAIN q : h # g => r[h] = q[h]
             /\ \A h \in DOMAIN q : r[h].engine = q[h].engine
<1> DEFINE r == ToldToStop(q, g)
<1>1. q[g] \in Generations
  BY DEF GenSeq
<1>2. r = [q EXCEPT ![g] = [q[g] EXCEPT !.stop = TRUE, !.relay = FALSE]]
  BY <1>1 DEF GenSeq, ToldToStop
<1>3. [q[g] EXCEPT !.stop = TRUE, !.relay = FALSE] \in Generations
  BY <1>1 DEF Generations
<1>4. [q[g] EXCEPT !.stop = TRUE, !.relay = FALSE].engine = q[g].engine
  BY <1>1 DEF Generations
<1>5. [q[g] EXCEPT !.stop = TRUE, !.relay = FALSE].stop
  BY <1>1 DEF Generations
<1> DEFINE x == [q[g] EXCEPT !.stop = TRUE, !.relay = FALSE]
<1> HIDE DEF x
<1>6. /\ r = [q EXCEPT ![g] = x] /\ x \in Generations
      /\ x.engine = q[g].engine /\ x.stop
  BY <1>2, <1>3, <1>4, <1>5 DEF x
<1> HIDE DEF r
<1>7. /\ r \in GenSeq /\ Len(r) = Len(q) /\ DOMAIN r = DOMAIN q /\ r[g] = x
      /\ \A h \in DOMAIN q : h # g => r[h] = q[h]
  BY <1>6 DEF GenSeq
<1> QED BY <1>6, <1>7 DEF r

\* stop_slot leaves a well-formed supervisor.
LEMMA Stops ==
  ASSUME NEW s, SupOK(s), NEW e \in Engines
  PROVE  /\ SupOK(StopSlot(s, e))
         /\ Len(StopSlot(s, e).gens) = Len(s.gens)
<1> DEFINE t == StopSlot(s, e)
           g == s.slot[e].gen
<1>1. SupTypes(s) /\ SupSlots(s)
  BY DEF SupOK
<1>2. /\ t.slot = [s.slot EXCEPT ![e] = Stopped] /\ t.route = s.route
      /\ g = 0 => t.gens = s.gens
      /\ g # 0 => t.gens = ToldToStop(s.gens, g)
  BY StopSlotFields
<1>3. g \in 0..Len(s.gens) /\ s.gens \in GenSeq /\ DOMAIN s.slot = Engines
  BY <1>1 DEF SupTypes
<1>4. /\ t.gens \in GenSeq /\ Len(t.gens) = Len(s.gens) /\ DOMAIN t.gens = DOMAIN s.gens
      /\ \A h \in DOMAIN s.gens : t.gens[h].engine = s.gens[h].engine
      /\ \A h \in DOMAIN s.gens : h # g => t.gens[h] = s.gens[h]
      /\ g # 0 => t.gens[g].stop
  <2>1. CASE g = 0
    BY <2>1, <1>2, <1>3
  <2>2. CASE g # 0
    <3>1. g \in 1..Len(s.gens)
      BY <2>2, <1>3 DEF GenSeq
    <3> HIDE DEF g, t
    <3> QED BY <3>1, <2>2, <1>2, <1>3, Told
  <2> QED BY <2>1, <2>2
<1>5. /\ DOMAIN t.slot = Engines /\ t.slot[e] = Stopped
      /\ \A f \in Engines : f # e => t.slot[f] = s.slot[f]
  BY <1>2, <1>3
<1> HIDE DEF t, g
<1>6. SupTypes(t)
  BY <1>1, <1>2, <1>4, <1>5 DEF SupTypes, Stopped, GenSeq
<1>7. SupSlots(t)
  <2>1. ASSUME NEW f \in Engines
        PROVE  /\ t.slot[f].gen = 0 <=> t.slot[f].running = {}
               /\ t.slot[f].gen # 0 => t.gens[t.slot[f].gen].engine = f
    <3>1. CASE f = e
      BY <3>1, <1>5 DEF Stopped
    <3>2. CASE f # e
      <4>1. s.slot[f].gen \in 0..Len(s.gens) /\ DOMAIN s.gens = 1..Len(s.gens)
        BY <1>1, <1>3 DEF SupTypes, GenSeq
      <4> QED BY <4>1, <3>2, <1>1, <1>4, <1>5 DEF SupSlots
    <3> QED BY <3>1, <3>2
  <2>2. ASSUME NEW h \in DOMAIN t.gens, ~t.gens[h].stop, ~t.gens[h].done
        PROVE  t.slot[t.gens[h].engine].gen = h
    <3>1. h # g /\ h \in DOMAIN s.gens
      <4>1. h # 0
        BY <1>3, <1>4 DEF GenSeq
      <4> QED BY <4>1, <2>2, <1>4
    <3>2. t.gens[h] = s.gens[h] /\ s.gens[h].engine \in Engines
      <4>1. s.gens[h] \in Generations
        BY <3>1, <1>3 DEF GenSeq
      <4>2. s.gens[h].engine \in Engines
        BY <4>1 DEF Generations
      <4> QED BY <4>2, <3>1, <1>4
    <3>3. s.slot[s.gens[h].engine].gen = h
      <4>1. ~s.gens[h].stop /\ ~s.gens[h].done
        BY <3>2, <2>2
      <4> QED BY <4>1, <3>1, <1>1, Zenon DEF SupSlots
    <3>4. s.gens[h].engine # e
      BY <3>3, <3>1 DEF g
    <3> QED BY <3>2, <3>3, <3>4, <1>5
  <2> QED BY <2>1, <2>2 DEF SupSlots
<1> QED BY <1>4, <1>6, <1>7 DEF SupOK, t

\* A sequence of generations with a fresh one at its end.
LEMMA Grown ==
  ASSUME NEW q \in GenSeq, NEW x \in Generations
  PROVE  /\ Append(q, x) \in GenSeq /\ Len(Append(q, x)) = Len(q) + 1
         /\ DOMAIN Append(q, x) = 1..(Len(q) + 1)
         /\ Append(q, x)[Len(q) + 1] = x
         /\ \A h \in 1..Len(q) : Append(q, x)[h] = q[h]
BY DEF GenSeq

\* A fresh generation is one of its engine's, and runs.
LEMMA Fresh ==
  ASSUME NEW e \in Engines, NEW b \in BOOLEAN
  PROVE  /\ Generation(e, b) \in Generations /\ Generation(e, b).engine = e
         /\ ~Generation(e, b).stop
BY DEF Generation, Generations

\* A slot at rest.
LEMMA AtRest == Stopped.gen = 0 /\ Stopped.running = {}
BY DEF Stopped

\* spawn_generation on a slot at rest: the supervisor stays well formed, the slot
\* runs the signature if the configuration builds, and the other slots stay.
LEMMA Spawns ==
  ASSUME NEW s, SupOK(s), NEW e \in Engines, NEW c \in Files, s.slot[e].gen = 0
  PROVE  /\ SupOK(SpawnGeneration(s, c, e))
         /\ Len(SpawnGeneration(s, c, e).gens) >= Len(s.gens)
         /\ SpawnGeneration(s, c, e).slot[e].running = IF Builds(c, e) THEN {SigOf(c, e)} ELSE {}
         /\ \A f \in Engines : f # e => SpawnGeneration(s, c, e).slot[f] = s.slot[f]
<1> DEFINE t == SpawnGeneration(s, c, e)
           n == Len(s.gens)
           fresh == [running |-> {SigOf(c, e)}, gen |-> n + 1]
<1>1. /\ s.gens \in GenSeq /\ DOMAIN s.slot = Engines
      /\ \A f \in Engines : s.slot[f] \in [running : SUBSET Signatures[f], gen : 0..n]
      /\ s.route \in [Engines -> [made : BOOLEAN, to : 0..n]]
  BY DEF SupOK, SupTypes
<1>2. /\ \A f \in Engines : /\ s.slot[f].gen = 0 <=> s.slot[f].running = {}
                            /\ s.slot[f].gen # 0 => s.gens[s.slot[f].gen].engine = f
      /\ \A g \in DOMAIN s.gens :
            ~s.gens[g].stop /\ ~s.gens[g].done => s.slot[s.gens[g].engine].gen = g
  BY DEF SupOK, SupSlots
<1>3. n \in Nat /\ DOMAIN s.gens = 1..n
  BY <1>1 DEF GenSeq
<1>4. /\ t.slot = IF Builds(c, e) THEN [s.slot EXCEPT ![e] = fresh] ELSE s.slot
      /\ t.gens = IF Builds(c, e) THEN Append(s.gens, Generation(e, FALSE)) ELSE s.gens
      /\ t.route = [s.route EXCEPT ![e] = Respawned(s, c, e)]
  BY DEF SpawnGeneration
<1>5. CASE ~Builds(c, e)
  <2>1. t.slot = s.slot /\ t.gens = s.gens
    BY <1>4, <1>5
  <2>2. Respawned(s, c, e) \in [made : BOOLEAN, to : 0..n]
    BY <1>1, <1>3, <1>5 DEF Respawned, NoChannel
  <2>3. t.route \in [Engines -> [made : BOOLEAN, to : 0..n]]
    BY <2>2, <1>1, <1>4
  <2>4. s.slot[e].running = {}
    BY <1>2
  <2> HIDE DEF t
  <2>5. SupTypes(t) /\ SupSlots(t)
    BY <2>1, <2>3, <1>1, <1>2 DEF SupTypes, SupSlots
  <2> QED BY <2>1, <2>4, <2>5, <1>3, <1>5 DEF SupOK, t
<1>6. CASE Builds(c, e)
  <2>1. t.slot = [s.slot EXCEPT ![e] = fresh] /\ t.gens = Append(s.gens, Generation(e, FALSE))
    BY <1>4, <1>6
  <2>2. Respawned(s, c, e) \in [made : BOOLEAN, to : 0..(n + 1)]
    BY <1>1, <1>3, <1>6 DEF Respawned
  <2>3. s.route \in [Engines -> [made : BOOLEAN, to : 0..(n + 1)]]
    BY <1>1, <1>3
  <2>4. t.route \in [Engines -> [made : BOOLEAN, to : 0..(n + 1)]]
    BY <2>2, <2>3, <1>4
  <2>5. /\ DOMAIN t.slot = Engines /\ t.slot[e] = fresh
        /\ \A f \in Engines : f # e => t.slot[f] = s.slot[f]
    BY <2>1, <1>1
  <2>6. /\ t.gens \in GenSeq /\ Len(t.gens) = n + 1 /\ DOMAIN t.gens = 1..(n + 1)
        /\ t.gens[n + 1].engine = e
        /\ \A h \in 1..n : t.gens[h] = s.gens[h]
    <3> DEFINE x == Generation(e, FALSE)
    <3>1. x \in Generations /\ x.engine = e
      BY Fresh
    <3> HIDE DEF x, t
    <3>2. t.gens = Append(s.gens, x)
      BY <2>1 DEF x
    <3> QED BY <3>1, <3>2, <1>1, Grown
  <2>7. fresh \in [running : SUBSET Signatures[e], gen : 0..(n + 1)]
    BY <1>3, SigFacts
  <2>8. fresh.gen = n + 1 /\ fresh.running = {SigOf(c, e)}
    OBVIOUS
  <2> HIDE DEF t, fresh, n
  <2>9. SupTypes(t)
    <3>1. ASSUME NEW f \in Engines
          PROVE  t.slot[f] \in [running : SUBSET Signatures[f], gen : 0..(n + 1)]
      <4>1. CASE f = e
        BY <4>1, <2>5, <2>7
      <4>2. CASE f # e
        BY <4>2, <2>5, <1>1, <1>3
      <4> QED BY <4>1, <4>2
    <3> QED BY <3>1, <2>4, <2>5, <2>6 DEF SupTypes
  <2>10. SupSlots(t)
    <3>1. ASSUME NEW f \in Engines
          PROVE  /\ t.slot[f].gen = 0 <=> t.slot[f].running = {}
                 /\ t.slot[f].gen # 0 => t.gens[t.slot[f].gen].engine = f
      <4>1. CASE f = e
        BY <4>1, <2>5, <2>6, <2>8, <1>3
      <4>2. CASE f # e
        <5>1. t.slot[f] = s.slot[f] /\ s.slot[f].gen \in 0..n
          BY <4>2, <2>5, <1>1
        <5> QED BY <5>1, <2>6, <1>2, <1>3
      <4> QED BY <4>1, <4>2
    <3>2. ASSUME NEW h \in DOMAIN t.gens, ~t.gens[h].stop, ~t.gens[h].done
          PROVE  t.slot[t.gens[h].engine].gen = h
      <4>1. CASE h = n + 1
        BY <4>1, <2>5, <2>6, <2>8
      <4>2. CASE h # n + 1
        <5>1. h \in 1..n /\ h # 0
          BY <4>2, <2>6, <1>3
        <5>2. t.gens[h] = s.gens[h]
          BY <5>1, <2>6
        <5>3. s.slot[s.gens[h].engine].gen = h
          <6>1. ~s.gens[h].stop /\ ~s.gens[h].done
            BY <5>2, <3>2
          <6> QED BY <6>1, <5>1, <1>2, <1>3, Zenon
        <5>4. s.gens[h].engine # e
          BY <5>3, <5>1
        <5>5. s.gens[h].engine \in Engines
          <6>1. s.gens[h] \in Generations
            BY <5>1, <1>1, <1>3 DEF GenSeq
          <6> QED BY <6>1 DEF Generations
        <5> QED BY <5>2, <5>3, <5>4, <5>5, <2>5
      <4> QED BY <4>1, <4>2
    <3> QED BY <3>1, <3>2 DEF SupSlots
  <2> QED BY <2>5, <2>6, <2>8, <2>9, <2>10, <1>3, <1>6 DEF SupOK, t, n
<1> QED BY <1>5, <1>6

\* What plan_action decides.
LEMMA Plans ==
  ASSUME NEW running, NEW sig
  PROVE  /\ running = {} /\ ~sig.enabled => PlanAction(running, sig) = "none"
         /\ running = {} /\ sig.enabled => PlanAction(running, sig) = "start"
         /\ running # {} /\ ~sig.enabled => PlanAction(running, sig) = "stop"
         /\ running = {sig} /\ sig.enabled => PlanAction(running, sig) = "none"
         /\ running # {} /\ running # {sig} /\ sig.enabled
               => PlanAction(running, sig) = "restart"
BY DEF PlanAction

\* What Supervisor::apply does on a decision.
LEMMA Performs ==
  ASSUME NEW s, NEW c, NEW e
  PROVE  /\ Perform("none", s, c, e) = s
         /\ Perform("stop", s, c, e) = StopSlot(s, e)
         /\ Perform("start", s, c, e) = SpawnGeneration(s, c, e)
         /\ Perform("restart", s, c, e) = SpawnGeneration(StopSlot(s, e), c, e)
BY DEF Perform

\* Supervisor::apply on one slot: the slot follows the configuration afterwards and
\* the other slots stay as they were.
LEMMA ApplySlotFollows ==
  ASSUME NEW s, SupOK(s), NEW e \in Engines, NEW c \in Files
  PROVE  /\ SupOK(ApplySlot(s, c, e))
         /\ Len(ApplySlot(s, c, e).gens) >= Len(s.gens)
         /\ Follows(ApplySlot(s, c, e).slot[e].running, c, e)
         /\ \A f \in Engines : f # e => ApplySlot(s, c, e).slot[f] = s.slot[f]
         /\ Enabled(c, e) /\ s.slot[e].running = {SigOf(c, e)}
               => ApplySlot(s, c, e).slot[e] = s.slot[e]
<1> DEFINE run == s.slot[e].running
           sig == SigOf(c, e)
<1>1. sig.enabled = Enabled(c, e)
  BY SigFacts
<1>2. Len(s.gens) \in Nat /\ DOMAIN s.slot = Engines
  BY DEF SupOK, SupTypes, GenSeq
<1>3. s.slot[e].gen = 0 <=> run = {}
  BY DEF SupOK, SupSlots
<1> HIDE DEF sig
<1>4. CASE run = {} /\ ~sig.enabled
  <2>1. ApplySlot(s, c, e) = s
    BY <1>4, Plans, Performs DEF ApplySlot, sig
  <2> QED BY <2>1, <1>1, <1>2, <1>4 DEF Follows
<1>5. CASE run = {} /\ sig.enabled
  <2>1. ApplySlot(s, c, e) = SpawnGeneration(s, c, e)
    BY <1>5, Plans, Performs DEF ApplySlot, sig
  <2>2. s.slot[e].gen = 0
    BY <1>3, <1>5
  <2> DEFINE t == SpawnGeneration(s, c, e)
  <2>3. /\ SupOK(t) /\ Len(t.gens) >= Len(s.gens)
        /\ t.slot[e].running = IF Builds(c, e) THEN {SigOf(c, e)} ELSE {}
        /\ \A f \in Engines : f # e => t.slot[f] = s.slot[f]
    BY <2>2, Spawns
  <2> HIDE DEF t
  <2>4. Follows(t.slot[e].running, c, e)
    BY <2>3, <1>1, <1>5 DEF Follows
  <2> QED BY <2>1, <2>3, <2>4, <1>5 DEF t
<1>6. CASE run # {} /\ ~sig.enabled
  <2>1. ApplySlot(s, c, e) = StopSlot(s, e)
    BY <1>6, Plans, Performs DEF ApplySlot, sig
  <2>2. StopSlot(s, e).slot = [s.slot EXCEPT ![e] = Stopped]
    BY StopSlotFields
  <2>3. StopSlot(s, e).slot[e].running = {}
    BY <2>2, <1>2, AtRest
  <2> QED BY <2>1, <2>2, <2>3, <1>1, <1>2, <1>6, Stops DEF Follows
<1>7. CASE run = {sig} /\ sig.enabled
  <2>1. ApplySlot(s, c, e) = s
    BY <1>7, Plans, Performs DEF ApplySlot, sig
  <2> QED BY <2>1, <1>1, <1>2, <1>7 DEF Follows, sig
<1>8. CASE run # {} /\ run # {sig} /\ sig.enabled
  <2> DEFINE t == StopSlot(s, e)
  <2>1. ApplySlot(s, c, e) = SpawnGeneration(t, c, e)
    BY <1>8, Plans, Performs DEF ApplySlot, sig
  <2>2. t.slot = [s.slot EXCEPT ![e] = Stopped]
    BY StopSlotFields
  <2>3. t.slot[e].gen = 0
    BY <2>2, <1>2, AtRest
  <2>4. SupOK(t) /\ Len(t.gens) = Len(s.gens)
    BY Stops
  <2>5. \A f \in Engines : f # e => t.slot[f] = s.slot[f]
    BY <2>2, <1>2
  <2> HIDE DEF t
  <2> DEFINE u == SpawnGeneration(t, c, e)
  <2>6. /\ SupOK(u) /\ Len(u.gens) >= Len(t.gens)
        /\ u.slot[e].running = IF Builds(c, e) THEN {SigOf(c, e)} ELSE {}
        /\ \A f \in Engines : f # e => u.slot[f] = t.slot[f]
    BY <2>3, <2>4, Spawns
  <2> HIDE DEF u
  <2>7. Follows(u.slot[e].running, c, e)
    BY <2>6, <1>1, <1>8 DEF Follows
  <2>8. ApplySlot(s, c, e) = u
    BY <2>1 DEF u
  <2> QED BY <2>4, <2>5, <2>6, <2>7, <2>8, <1>8 DEF sig
<1> QED BY <1>4, <1>5, <1>6, <1>7, <1>8

\* Supervisor::apply: every slot follows the configuration, and an engine that runs
\* under the signature it is given keeps its generation.
LEMMA ApplyFollows ==
  ASSUME NEW s, SupOK(s), NEW c \in Files
  PROVE  /\ SupOK(Apply(s, c))
         /\ Len(Apply(s, c).gens) >= Len(s.gens)
         /\ \A e \in Engines : Follows(Apply(s, c).slot[e].running, c, e)
         /\ \A e \in Engines : Enabled(c, e) /\ s.slot[e].running = {SigOf(c, e)}
                                  => Apply(s, c).slot[e] = s.slot[e]
<1> DEFINE s1 == ApplySlot(s,  c, "vrrp")
           s2 == ApplySlot(s1, c, "rip")
           s3 == ApplySlot(s2, c, "ripng")
           s4 == ApplySlot(s3, c, "ospf")
           s5 == ApplySlot(s4, c, "ospf3")
           s6 == ApplySlot(s5, c, "babel")
           s7 == ApplySlot(s6, c, "isis")
           Step(a, b, e) ==
             /\ SupOK(b) /\ Len(b.gens) >= Len(a.gens) /\ Follows(b.slot[e].running, c, e)
             /\ \A f \in Engines : f # e => b.slot[f] = a.slot[f]
             /\ Enabled(c, e) /\ a.slot[e].running = {SigOf(c, e)} => b.slot[e] = a.slot[e]
<1>1. ASSUME NEW a, SupOK(a), NEW e \in Engines
      PROVE  Step(a, ApplySlot(a, c, e), e)
  BY <1>1, ApplySlotFollows
<1>2. /\ "vrrp" \in Engines /\ "rip" \in Engines /\ "ripng" \in Engines /\ "ospf" \in Engines
      /\ "ospf3" \in Engines /\ "babel" \in Engines /\ "isis" \in Engines
      /\ \A e \in Engines : e \in {"vrrp", "rip", "ripng", "ospf", "ospf3", "babel", "isis"}
  BY DEF Engines
<1>3. Apply(s, c) = s7
  BY DEF Apply
<1> HIDE DEF s1, s2, s3, s4, s5, s6, s7, Step
<1>4. Step(s, s1, "vrrp") /\ SupOK(s1)
  BY <1>1, <1>2 DEF s1, Step
<1>5. Step(s1, s2, "rip") /\ SupOK(s2)
  BY <1>1, <1>2, <1>4 DEF s2, Step
<1>6. Step(s2, s3, "ripng") /\ SupOK(s3)
  BY <1>1, <1>2, <1>5 DEF s3, Step
<1>7. Step(s3, s4, "ospf") /\ SupOK(s4)
  BY <1>1, <1>2, <1>6 DEF s4, Step
<1>8. Step(s4, s5, "ospf3") /\ SupOK(s5)
  BY <1>1, <1>2, <1>7 DEF s5, Step
<1>9. Step(s5, s6, "babel") /\ SupOK(s6)
  BY <1>1, <1>2, <1>8 DEF s6, Step
<1>10. Step(s6, s7, "isis") /\ SupOK(s7)
  BY <1>1, <1>2, <1>9 DEF s7, Step
<1>11. Len(s7.gens) >= Len(s.gens)
  <2>1. ASSUME NEW a, SupOK(a) PROVE Len(a.gens) \in Nat
    BY <2>1 DEF SupOK, SupTypes, GenSeq
  <2>2. /\ Len(s.gens) \in Nat /\ Len(s1.gens) \in Nat /\ Len(s2.gens) \in Nat
        /\ Len(s3.gens) \in Nat /\ Len(s4.gens) \in Nat /\ Len(s5.gens) \in Nat
        /\ Len(s6.gens) \in Nat /\ Len(s7.gens) \in Nat
    BY <2>1, <1>4, <1>5, <1>6, <1>7, <1>8, <1>9, <1>10
  <2>3. /\ Len(s7.gens) >= Len(s6.gens) /\ Len(s6.gens) >= Len(s5.gens)
        /\ Len(s5.gens) >= Len(s4.gens) /\ Len(s4.gens) >= Len(s3.gens)
        /\ Len(s3.gens) >= Len(s2.gens) /\ Len(s2.gens) >= Len(s1.gens)
        /\ Len(s1.gens) >= Len(s.gens)
    BY <1>4, <1>5, <1>6, <1>7, <1>8, <1>9, <1>10 DEF Step
  <2> DEFINE L(a) == Len(a.gens)
  <2> HIDE DEF L
  <2>4. /\ L(s) \in Nat /\ L(s1) \in Nat /\ L(s2) \in Nat /\ L(s3) \in Nat
        /\ L(s4) \in Nat /\ L(s5) \in Nat /\ L(s6) \in Nat /\ L(s7) \in Nat
    BY <2>2 DEF L
  <2>5. /\ L(s7) >= L(s6) /\ L(s6) >= L(s5) /\ L(s5) >= L(s4) /\ L(s4) >= L(s3)
        /\ L(s3) >= L(s2) /\ L(s2) >= L(s1) /\ L(s1) >= L(s)
    BY <2>3 DEF L
  <2>6. L(s7) >= L(s)
    BY <2>4, <2>5
  <2> QED BY <2>6 DEF L
<1>12. ASSUME NEW e \in Engines
       PROVE  /\ Follows(s7.slot[e].running, c, e)
              /\ Enabled(c, e) /\ s.slot[e].running = {SigOf(c, e)} => s7.slot[e] = s.slot[e]
  <2>1. CASE e = "vrrp"
    BY <2>1, <1>2, <1>4, <1>5, <1>6, <1>7, <1>8, <1>9, <1>10 DEF Step
  <2>2. CASE e = "rip"
    BY <2>2, <1>2, <1>4, <1>5, <1>6, <1>7, <1>8, <1>9, <1>10 DEF Step
  <2>3. CASE e = "ripng"
    BY <2>3, <1>2, <1>4, <1>5, <1>6, <1>7, <1>8, <1>9, <1>10 DEF Step
  <2>4. CASE e = "ospf"
    BY <2>4, <1>2, <1>4, <1>5, <1>6, <1>7, <1>8, <1>9, <1>10 DEF Step
  <2>5. CASE e = "ospf3"
    BY <2>5, <1>2, <1>4, <1>5, <1>6, <1>7, <1>8, <1>9, <1>10 DEF Step
  <2>6. CASE e = "babel"
    BY <2>6, <1>2, <1>4, <1>5, <1>6, <1>7, <1>8, <1>9, <1>10 DEF Step
  <2>7. CASE e = "isis"
    BY <2>7, <1>2, <1>4, <1>5, <1>6, <1>7, <1>8, <1>9, <1>10 DEF Step
  <2> QED BY <2>1, <2>2, <2>3, <2>4, <2>5, <2>6, <2>7, <1>2
<1> QED BY <1>3, <1>10, <1>11, <1>12

-----------------------------------------------------------------------------
(* The inductive invariant. *)

\* main's order names every engine of the supervisor once.
LEMMA OrderFacts ==
  /\ Len(MainOrder) = 8
  /\ \A i \in 1..8 : MainOrder[i] # "bgp" => MainOrder[i] \in Engines
  /\ \A i, j \in 1..8 : MainOrder[i] = MainOrder[j] => i = j
  /\ \A e \in Engines : \E i \in 1..8 : MainOrder[i] = e /\ MainOrder[i] # "bgp"
<1>1. Len(MainOrder) = 8
  BY DEF MainOrder
<1>2. /\ MainOrder[1] = "vrrp" /\ MainOrder[2] = "rip" /\ MainOrder[3] = "ripng"
      /\ MainOrder[4] = "ospf" /\ MainOrder[5] = "ospf3" /\ MainOrder[6] = "bgp"
      /\ MainOrder[7] = "babel" /\ MainOrder[8] = "isis"
  BY DEF MainOrder
<1>3. \A i \in 1..8 : i \in {1, 2, 3, 4, 5, 6, 7, 8}
  OBVIOUS
<1>4. \A i \in 1..8 : MainOrder[i] # "bgp" => MainOrder[i] \in Engines
  BY <1>2, <1>3 DEF Engines
<1>5. \A i, j \in 1..8 : MainOrder[i] = MainOrder[j] => i = j
  BY <1>2, <1>3
<1>6. \A e \in Engines : \E i \in 1..8 : MainOrder[i] = e /\ MainOrder[i] # "bgp"
  <2>1. /\ 1 \in 1..8 /\ 2 \in 1..8 /\ 3 \in 1..8 /\ 4 \in 1..8 /\ 5 \in 1..8 /\ 7 \in 1..8
        /\ 8 \in 1..8
    OBVIOUS
  <2> QED BY <2>1, <1>2 DEF Engines
<1> QED BY <1>1, <1>4, <1>5, <1>6

\* The neighbour addresses of a file are addresses.
LEMMA PeersType == \A c \in Files : Peers(c) \subseteq Addresses
BY DEF Addresses

\* What the invariant says of the supervisor, as a fact about its state.
LEMMA Supervision ==
  IInv => SupOK(Supervised)
<1> SUFFICES ASSUME IInv PROVE SupOK(Supervised)
  OBVIOUS
<1> DEFINE s == Supervised
<1>1. s.slot = slot /\ s.gens = gens /\ s.route = route
  BY DEF Supervised
<1> HIDE DEF s
<1>2. SupTypes(s)
  BY <1>1 DEF IInv, DaemonInv, TypeOK, SupTypes, GenSeq
<1>3. SupSlots(s)
  BY <1>1 DEF IInv, DaemonInv, OneGeneration, SlotsCoherent, SupSlots
<1> QED BY <1>2, <1>3 DEF SupOK, s

\* And back, for the state after a reload.
LEMMA SupervisionKept ==
  ASSUME NEW s, SupOK(s), slot' = s.slot, gens' = s.gens, route' = s.route
  PROVE  /\ gens' \in Seq(Generations) /\ DOMAIN slot' = Engines
         /\ \A e \in Engines :
               slot'[e] \in [running : SUBSET Signatures[e], gen : 0..Len(gens')]
         /\ route' \in [Engines -> [made : BOOLEAN, to : 0..Len(gens')]]
         /\ OneGeneration' /\ SlotsCoherent'
<1>1. SupTypes(s) /\ SupSlots(s)
  BY DEF SupOK
<1>2. OneGeneration' /\ SlotsCoherent'
  BY <1>1 DEF SupSlots, OneGeneration, SlotsCoherent
<1> QED BY <1>1, <1>2 DEF SupTypes, GenSeq

\* main before its first engine.
LEMMA InitInv == Init => IInv
<1> SUFFICES ASSUME Init PROVE IInv
  OBVIOUS
<1>1. file \in Files /\ applied = file /\ known = Peers(file) /\ Peers(file) \subseteq Addresses
  BY PeersType DEF Init
<1>2. /\ gens = <<>> /\ slot = [e \in Engines |-> Stopped] /\ phase = "start" /\ at = 1
      /\ shutdown = FALSE /\ late = FALSE /\ reload = "idle" /\ conn = NoConn
      /\ left \in Budgets
      /\ route = [e \in Engines |-> IF Enabled(file, e) THEN StartupChannel ELSE NoChannel]
      /\ bgp = [state |-> IF file.bgp.enabled THEN "parked" ELSE "none",
                peers |-> {}, queue |-> <<>>]
  BY DEF Init
<1>3. gens \in Seq(Generations) /\ Len(gens) = 0 /\ DOMAIN gens = {}
  BY <1>2
<1>4. /\ bgp \in BgpStates /\ bgp.queue = <<>> /\ bgp.state # "up" /\ Len(bgp.queue) <= BGP_CAP
  BY <1>2, CapAssumption DEF BgpStates
<1>5. route \in [Engines -> [made : BOOLEAN, to : 0..Len(gens)]]
  BY <1>2, <1>3 DEF StartupChannel, NoChannel
<1>6. conn \in Connections /\ conn.to <= Len(gens)
  BY <1>2, <1>3 DEF NoConn, Connections
<1>7. left \in Counters
  BY <1>2, BudgetsAssumption
<1>8. /\ DOMAIN slot = Engines
      /\ \A e \in Engines : slot[e] = Stopped
      /\ \A e \in Engines : slot[e] \in [running : SUBSET Signatures[e], gen : 0..Len(gens)]
  BY <1>2, <1>3 DEF Stopped
<1>9. TypeOK
  <2>1. at \in 1..(Len(MainOrder) + 1)
    BY <1>2, OrderFacts
  <2>2. /\ phase \in {"start", "run", "stop", "exit"} /\ reload \in {"idle", "bgp", "engines"}
        /\ shutdown \in BOOLEAN /\ late \in BOOLEAN
    BY <1>2
  <2> QED BY <2>1, <2>2, <1>1, <1>3, <1>4, <1>5, <1>6, <1>7, <1>8 DEF TypeOK
<1>10. OneGeneration /\ SlotsCoherent
  BY <1>3, <1>8, AtRest DEF OneGeneration, SlotsCoherent
<1>11. SlotFollowsConfig /\ GoodbyesAwaited /\ PeersInSync
  BY <1>2, <1>4 DEF SlotFollowsConfig, GoodbyesAwaited, PeersInSync
<1>12. StartupInOrder
  BY <1>2, <1>8, OrderFacts DEF StartupInOrder
<1>13. PhaseInv
  BY <1>1, <1>2, <1>4, <1>12 DEF PhaseInv
<1> QED BY <1>9, <1>10, <1>11, <1>13 DEF IInv, DaemonInv

-----------------------------------------------------------------------------
(* The queue of neighbour deltas. *)

\* Who is a neighbour in the end, written out.
LEMMA ResultingMembers ==
  ASSUME NEW peers, NEW queue, NEW p
  PROVE  p \in Resulting(peers, queue) <=>
            \/ p \in peers /\ Survives(p, 0, queue)
            \/ \E i \in DOMAIN queue : p \in queue[i].add /\ Survives(p, i, queue)
BY DEF Resulting

\* A delta at the end of the queue acts on the result of the others.
LEMMA ResultingAppend ==
  ASSUME NEW peers, NEW queue \in Seq(Deltas), NEW d \in Deltas
  PROVE  Resulting(peers, Append(queue, d)) = (Resulting(peers, queue) \ d.remove) \cup d.add
<1> DEFINE n == Len(queue)
           q == Append(queue, d)
<1>1. /\ n \in Nat /\ DOMAIN queue = 1..n /\ DOMAIN q = 1..(n + 1) /\ q[n + 1] = d
      /\ \A i \in 1..n : q[i] = queue[i]
  OBVIOUS
<1> HIDE DEF n, q
<1>2. ASSUME NEW p, NEW i \in 0..n
      PROVE  Survives(p, i, q) <=> Survives(p, i, queue) /\ p \notin d.remove
  <2>1. ASSUME Survives(p, i, q)
        PROVE  Survives(p, i, queue) /\ p \notin d.remove
    <3>1. n + 1 \in 1..(n + 1) /\ n + 1 > i /\ \A j \in 1..n : j \in 1..(n + 1)
      BY <1>1
    <3> QED BY <3>1, <2>1, <1>1 DEF Survives
  <2>2. ASSUME Survives(p, i, queue), p \notin d.remove
        PROVE  Survives(p, i, q)
    <3>1. \A j \in 1..(n + 1) : j = n + 1 \/ j \in 1..n
      BY <1>1
    <3> QED BY <3>1, <2>2, <1>1 DEF Survives
  <2> QED BY <2>1, <2>2
<1>3. \A p : Survives(p, n + 1, q)
  BY <1>1 DEF Survives
<1>4. ASSUME NEW p
      PROVE  p \in Resulting(peers, q) <=> p \in (Resulting(peers, queue) \ d.remove) \cup d.add
  <2>1. ASSUME p \in Resulting(peers, q)
        PROVE  p \in (Resulting(peers, queue) \ d.remove) \cup d.add
    <3>1. CASE p \in peers /\ Survives(p, 0, q)
      <4>1. 0 \in 0..n
        BY <1>1
      <4> QED BY <4>1, <3>1, <1>2, ResultingMembers
    <3>2. ASSUME NEW i \in 1..(n + 1), p \in q[i].add, Survives(p, i, q)
          PROVE  p \in (Resulting(peers, queue) \ d.remove) \cup d.add
      <4>1. CASE i = n + 1
        BY <4>1, <3>2, <1>1
      <4>2. CASE i # n + 1
        <5>1. i \in 1..n /\ i \in 0..n
          BY <4>2, <1>1
        <5> QED BY <5>1, <3>2, <1>1, <1>2, ResultingMembers
      <4> QED BY <4>1, <4>2
    <3> QED BY <3>1, <3>2, <2>1, <1>1, ResultingMembers
  <2>2. ASSUME p \in d.add
        PROVE  p \in Resulting(peers, q)
    <3>1. n + 1 \in DOMAIN q
      BY <1>1
    <3> QED BY <3>1, <2>2, <1>1, <1>3, ResultingMembers
  <2>3. ASSUME p \in Resulting(peers, queue), p \notin d.remove
        PROVE  p \in Resulting(peers, q)
    <3>1. 0 \in 0..n /\ \A i \in 1..n : i \in 0..n /\ i \in 1..(n + 1)
      BY <1>1
    <3> QED BY <3>1, <2>3, <1>1, <1>2, ResultingMembers
  <2> QED BY <2>1, <2>2, <2>3
<1> QED BY <1>4 DEF q

\* Taking the first delta of the queue does not change its result.
LEMMA ResultingTail ==
  ASSUME NEW peers, NEW queue \in Seq(Deltas), queue # <<>>
  PROVE  Resulting((peers \ Head(queue).remove) \cup Head(queue).add, Tail(queue))
            = Resulting(peers, queue)
<1> DEFINE n == Len(queue)
           d == Head(queue)
           q == Tail(queue)
           new == (peers \ d.remove) \cup d.add
<1>1. /\ n \in Nat /\ n >= 1 /\ DOMAIN queue = 1..n /\ DOMAIN q = 1..(n - 1) /\ d = queue[1]
      /\ \A i \in 1..(n - 1) : q[i] = queue[i + 1]
  OBVIOUS
<1> HIDE DEF n, d, q
<1>2. ASSUME NEW p, NEW i \in 0..(n - 1)
      PROVE  Survives(p, i, q) <=> Survives(p, i + 1, queue)
  <2>1. ASSUME Survives(p, i, q), NEW j \in 1..n, j > i + 1
        PROVE  p \notin queue[j].remove
    <3>1. j - 1 \in 1..(n - 1) /\ j - 1 > i /\ (j - 1) + 1 = j
      BY <2>1, <1>1
    <3>2. q[j - 1] = queue[(j - 1) + 1]
      BY <3>1, <1>1
    <3> QED BY <3>1, <3>2, <2>1, <1>1 DEF Survives
  <2>2. ASSUME Survives(p, i + 1, queue), NEW j \in 1..(n - 1), j > i
        PROVE  p \notin q[j].remove
    <3>1. j + 1 \in 1..n /\ j + 1 > i + 1
      BY <2>2, <1>1
    <3> QED BY <3>1, <2>2, <1>1 DEF Survives
  <2> QED BY <2>1, <2>2, <1>1 DEF Survives
<1>3. ASSUME NEW p
      PROVE  Survives(p, 0, queue) <=> Survives(p, 1, queue) /\ p \notin d.remove
  <2>1. 1 \in 1..n /\ 1 > 0 /\ \A j \in 1..n : (j > 1 => j > 0) /\ (j > 0 => j = 1 \/ j > 1)
    BY <1>1
  <2> QED BY <2>1, <1>1 DEF Survives
<1>4. 0 \in 0..(n - 1) /\ 0 + 1 = 1
  BY <1>1
<1>5. ASSUME NEW p
      PROVE  p \in Resulting(new, q) <=> p \in Resulting(peers, queue)
  <2>1. ASSUME p \in Resulting(new, q)
        PROVE  p \in Resulting(peers, queue)
    <3>1. CASE p \in new /\ Survives(p, 0, q)
      <4>1. Survives(p, 1, queue)
        BY <3>1, <1>2, <1>4
      <4>2. 1 \in DOMAIN queue
        BY <1>1
      <4> QED BY <4>1, <4>2, <3>1, <1>1, <1>3, ResultingMembers
    <3>2. ASSUME NEW i \in 1..(n - 1), p \in q[i].add, Survives(p, i, q)
          PROVE  p \in Resulting(peers, queue)
      <4>1. i \in 0..(n - 1) /\ i + 1 \in 1..n
        BY <1>1
      <4>2. Survives(p, i + 1, queue) /\ p \in queue[i + 1].add
        BY <4>1, <3>2, <1>1, <1>2
      <4> QED BY <4>1, <4>2, <1>1, ResultingMembers
    <3> QED BY <3>1, <3>2, <2>1, <1>1, ResultingMembers
  <2>2. ASSUME p \in Resulting(peers, queue)
        PROVE  p \in Resulting(new, q)
    <3>1. CASE p \in peers /\ Survives(p, 0, queue)
      <4>1. Survives(p, 0, q) /\ p \in new
        BY <3>1, <1>2, <1>3, <1>4
      <4> QED BY <4>1, ResultingMembers
    <3>2. ASSUME NEW i \in 1..n, p \in queue[i].add, Survives(p, i, queue)
          PROVE  p \in Resulting(new, q)
      <4>1. CASE i = 1
        <5>1. Survives(p, 0, q) /\ p \in new
          BY <4>1, <3>2, <1>1, <1>2, <1>4
        <5> QED BY <5>1, ResultingMembers
      <4>2. CASE i # 1
        <5>1. i - 1 \in 1..(n - 1) /\ i - 1 \in 0..(n - 1) /\ (i - 1) + 1 = i
          BY <4>2, <1>1
        <5>2. q[i - 1] = queue[i]
          BY <5>1, <1>1
        <5>3. Survives(p, i - 1, q)
          BY <5>1, <3>2, <1>2
        <5> QED BY <5>1, <5>2, <5>3, <3>2, <1>1, ResultingMembers
      <4> QED BY <4>1, <4>2
    <3> QED BY <3>1, <3>2, <2>2, <1>1, ResultingMembers
  <2> QED BY <2>1, <2>2
<1>6. Resulting(new, q) = Resulting(peers, queue)
  BY <1>5
<1> QED BY <1>6 DEF d, q

\* An empty queue leaves the neighbours as they are.
LEMMA ResultingEmpty == \A peers : Resulting(peers, <<>>) = peers
BY DEF Resulting, Survives

-----------------------------------------------------------------------------
(* Every step keeps the invariant. *)

\* Start-up of an engine.
LEMMA StartEngineKeeps == IInv /\ StartEngine => IInv'
<1> SUFFICES ASSUME IInv, StartEngine PROVE IInv'
  OBVIOUS
<1> DEFINE e == MainOrder[at]
           n == Len(gens)
           x == Generation(e, TRUE)
<1>1. /\ TypeOK /\ OneGeneration /\ SlotsCoherent /\ PhaseInv /\ PeersInSync
  BY DEF IInv, DaemonInv
<1>2. /\ phase = "start" /\ at \in 1..8 /\ at + 1 \in 1..9 /\ e # "bgp" /\ e \in Engines
  <2>1. phase = "start" /\ at <= Len(MainOrder) /\ e # "bgp"
    BY DEF StartEngine
  <2>2. at \in 1..(Len(MainOrder) + 1) /\ Len(MainOrder) = 8
    BY <1>1, OrderFacts DEF TypeOK
  <2>3. at \in 1..8 /\ at + 1 \in 1..9
    BY <2>1, <2>2
  <2> QED BY <2>1, <2>3, OrderFacts
<1>3. /\ applied = file /\ known = Peers(file) /\ bgp.queue = <<>> /\ StartupInOrder
      /\ ~shutdown /\ reload = "idle"
  BY <1>1, <1>2 DEF PhaseInv
<1>4. UNCHANGED <<file, shutdown, late, reload, applied, bgp, known, route, conn, left>>
  BY DEF StartEngine
<1>5. slot[e] = Stopped
  BY <1>2, <1>3, OrderFacts DEF StartupInOrder
<1>6. PeersInSync'
  BY <1>1, <1>4 DEF PeersInSync
<1>7. CASE /\ Enabled(file, e) /\ Builds(file, e)
           /\ gens' = Append(gens, x)
           /\ slot' = [slot EXCEPT ![e] = [running |-> {SigOf(file, e)}, gen |-> n + 1]]
           /\ at' = at + 1 /\ phase' = phase
  <2> DEFINE fresh == [running |-> {SigOf(file, e)}, gen |-> n + 1]
  <2> HIDE DEF e
  <2>1. gens \in GenSeq /\ n \in Nat /\ DOMAIN gens = 1..n
    BY <1>1 DEF TypeOK, GenSeq
  <2>2. x \in Generations /\ x.engine = e
    BY <1>2, Fresh
  <2> HIDE DEF x
  <2>3. /\ gens' \in GenSeq /\ Len(gens') = n + 1 /\ DOMAIN gens' = 1..(n + 1)
        /\ gens'[n + 1] = x /\ \A h \in 1..n : gens'[h] = gens[h]
    BY <1>7, <2>1, <2>2, Grown
  <2>4. /\ DOMAIN slot' = Engines /\ slot'[e] = fresh
        /\ \A f \in Engines : f # e => slot'[f] = slot[f]
    BY <1>1, <1>2, <1>7 DEF TypeOK
  <2>5. /\ fresh.gen = n + 1 /\ fresh.running = {SigOf(file, e)}
        /\ fresh \in [running : SUBSET Signatures[e], gen : 0..(n + 1)]
    <3>1. file \in Files
      BY <1>1 DEF TypeOK
    <3> QED BY <3>1, <2>1, <1>2, SigFacts
  <2> HIDE DEF fresh, n
  <2>6. TypeOK'
    <3>1. \A f \in Engines : slot'[f] \in [running : SUBSET Signatures[f], gen : 0..(n + 1)]
      <4>1. \A f \in Engines : slot[f] \in [running : SUBSET Signatures[f], gen : 0..n]
        BY <1>1 DEF TypeOK, n
      <4> QED BY <4>1, <2>1, <2>4, <2>5
    <3>2. route' \in [Engines -> [made : BOOLEAN, to : 0..(n + 1)]]
      <4>1. route \in [Engines -> [made : BOOLEAN, to : 0..n]]
        BY <1>1 DEF TypeOK, n
      <4> QED BY <4>1, <2>1, <1>4
    <3>3. conn' \in Connections /\ conn'.to <= n + 1
      BY <1>1, <1>4, <2>1 DEF TypeOK, Connections, n
    <3>4. at' \in 1..(Len(MainOrder) + 1)
      BY <1>2, <1>7, OrderFacts
    <3>5. /\ file' \in Files /\ applied' \in Files /\ bgp' \in BgpStates
          /\ Len(bgp'.queue) <= BGP_CAP /\ known' \subseteq Addresses /\ left' \in Counters
          /\ phase' \in {"start", "run", "stop", "exit"} /\ reload' \in {"idle", "bgp", "engines"}
          /\ shutdown' \in BOOLEAN /\ late' \in BOOLEAN
      BY <1>1, <1>4, <1>7 DEF TypeOK
    <3> QED BY <3>1, <3>2, <3>3, <3>4, <3>5, <2>3, <2>4 DEF TypeOK, GenSeq
  <2>7. SlotsCoherent'
    <3> SUFFICES ASSUME NEW f \in Engines
                 PROVE  /\ slot'[f].gen = 0 <=> slot'[f].running = {}
                        /\ slot'[f].gen # 0 => gens'[slot'[f].gen].engine = f
      BY DEF SlotsCoherent
    <3>1. CASE f = e
      BY <3>1, <2>1, <2>2, <2>3, <2>4, <2>5
    <3>2. CASE f # e
      <4>1. slot'[f] = slot[f] /\ slot[f].gen \in 0..n
        BY <3>2, <2>4, <1>1 DEF TypeOK, n
      <4> QED BY <4>1, <2>1, <2>3, <1>1 DEF SlotsCoherent
    <3> QED BY <3>1, <3>2
  <2>8. OneGeneration'
    <3> SUFFICES ASSUME NEW h \in 1..(n + 1), ~gens'[h].stop, ~gens'[h].done
                 PROVE  slot'[gens'[h].engine].gen = h
      BY <2>3 DEF OneGeneration
    <3>1. CASE h = n + 1
      BY <3>1, <2>2, <2>3, <2>4, <2>5
    <3>2. CASE h # n + 1
      <4>1. h \in 1..n /\ h # 0
        BY <3>2, <2>1
      <4>2. gens'[h] = gens[h] /\ gens[h] \in Generations
        BY <4>1, <2>1, <2>3 DEF GenSeq
      <4>3. ~gens[h].stop /\ ~gens[h].done /\ gens[h].engine \in Engines
        BY <4>2 DEF Generations
      <4>4. slot[gens[h].engine].gen = h
        BY <4>1, <4>3, <2>1, <1>1, Zenon DEF OneGeneration
      <4>5. gens[h].engine # e
        BY <4>1, <4>4, <1>5, AtRest
      <4> QED BY <4>2, <4>3, <4>4, <4>5, <2>4
    <3> QED BY <3>1, <3>2
  <2>9. Follows(slot'[e].running, file, e)
    BY <2>4, <2>5, <1>7 DEF Follows
  <2>10. StartupInOrder'
    <3> SUFFICES ASSUME NEW i \in 1..8, MainOrder[i] # "bgp"
                 PROVE  IF i < at' THEN Follows(slot'[MainOrder[i]].running, file', MainOrder[i])
                                   ELSE slot'[MainOrder[i]] = Stopped
      BY OrderFacts DEF StartupInOrder
    <3>1. CASE i = at
      BY <3>1, <2>9, <1>2, <1>4, <1>7 DEF e
    <3>2. CASE i # at
      <4>1. MainOrder[i] \in Engines /\ MainOrder[i] # e
        BY <3>2, <1>2, OrderFacts DEF e
      <4>2. slot'[MainOrder[i]] = slot[MainOrder[i]]
        BY <4>1, <2>4
      <4>3. i < at' <=> i < at
        BY <3>2, <1>2, <1>7
      <4>4. IF i < at THEN Follows(slot[MainOrder[i]].running, file, MainOrder[i])
                      ELSE slot[MainOrder[i]] = Stopped
        BY <1>3, OrderFacts DEF StartupInOrder
      <4> QED BY <4>2, <4>3, <4>4, <1>4
    <3> QED BY <3>1, <3>2
  <2>11. PhaseInv'
    BY <2>10, <1>2, <1>3, <1>4, <1>7 DEF PhaseInv
  <2>12. SlotFollowsConfig' /\ GoodbyesAwaited'
    BY <1>2, <1>7 DEF SlotFollowsConfig, GoodbyesAwaited
  <2> QED BY <2>6, <2>7, <2>8, <2>11, <2>12, <1>6 DEF IInv, DaemonInv
<1>8. CASE /\ ~(Enabled(file, e) /\ (Builds(file, e) \/ e = "rip"))
           /\ at' = at + 1 /\ UNCHANGED <<gens, slot, phase>>
  <2>1. TypeOK'
    <3>1. at' \in 1..(Len(MainOrder) + 1)
      BY <1>2, <1>8, OrderFacts
    <3> QED BY <3>1, <1>1, <1>4, <1>8 DEF TypeOK
  <2>2. OneGeneration' /\ SlotsCoherent'
    BY <1>1, <1>8 DEF OneGeneration, SlotsCoherent
  <2>3. Follows(slot'[e].running, file, e)
    BY <1>5, <1>8, AtRest DEF Follows
  <2>4. StartupInOrder'
    <3> SUFFICES ASSUME NEW i \in 1..8, MainOrder[i] # "bgp"
                 PROVE  IF i < at' THEN Follows(slot'[MainOrder[i]].running, file', MainOrder[i])
                                   ELSE slot'[MainOrder[i]] = Stopped
      BY OrderFacts DEF StartupInOrder
    <3>1. CASE i = at
      BY <3>1, <2>3, <1>2, <1>4, <1>8
    <3>2. CASE i # at
      <4>1. i < at' <=> i < at
        BY <3>2, <1>2, <1>8
      <4>2. IF i < at THEN Follows(slot[MainOrder[i]].running, file, MainOrder[i])
                      ELSE slot[MainOrder[i]] = Stopped
        BY <1>3, OrderFacts DEF StartupInOrder
      <4> QED BY <4>1, <4>2, <1>4, <1>8
    <3> QED BY <3>1, <3>2
  <2>5. PhaseInv'
    BY <2>4, <1>2, <1>3, <1>4, <1>8 DEF PhaseInv
  <2>6. SlotFollowsConfig' /\ GoodbyesAwaited'
    BY <1>2, <1>8 DEF SlotFollowsConfig, GoodbyesAwaited
  <2> QED BY <2>1, <2>2, <2>5, <2>6, <1>6 DEF IInv, DaemonInv
<1>9. CASE phase' = "exit" /\ UNCHANGED <<gens, slot, at>>
  <2>1. TypeOK'
    BY <1>1, <1>4, <1>9 DEF TypeOK
  <2>2. OneGeneration' /\ SlotsCoherent'
    BY <1>1, <1>9 DEF OneGeneration, SlotsCoherent
  <2>3. PhaseInv' /\ SlotFollowsConfig' /\ GoodbyesAwaited'
    BY <1>3, <1>4, <1>9 DEF PhaseInv, SlotFollowsConfig, GoodbyesAwaited
  <2> QED BY <2>1, <2>2, <2>3, <1>6 DEF IInv, DaemonInv
<1> QED BY <1>7, <1>8, <1>9 DEF StartEngine

\* The parts of the invariant that speak of the slots and generations only.
LEMMA SameSupervisor ==
  ASSUME IInv, UNCHANGED <<slot, gens>>
  PROVE  OneGeneration' /\ SlotsCoherent'
BY DEF IInv, DaemonInv, OneGeneration, SlotsCoherent

\* Start-up of BGP: its neighbours are the baseline of the first reload.
LEMMA StartBgpKeeps == IInv /\ StartBgp => IInv'
<1> SUFFICES ASSUME IInv, StartBgp PROVE IInv'
  OBVIOUS
<1>1. TypeOK /\ PhaseInv /\ PeersInSync
  BY DEF IInv, DaemonInv
<1>2. /\ phase = "start" /\ at <= Len(MainOrder) /\ MainOrder[at] = "bgp" /\ at' = at + 1
      /\ UNCHANGED <<file, phase, slot, gens, shutdown, late, reload, applied, known, route,
                     conn, left>>
  BY DEF StartBgp
<1>3. at \in 1..8 /\ at' \in 1..(Len(MainOrder) + 1)
  <2>1. at \in 1..(Len(MainOrder) + 1) /\ Len(MainOrder) = 8
    BY <1>1, OrderFacts DEF TypeOK
  <2> QED BY <2>1, <1>2
<1>4. /\ applied = file /\ known = Peers(file) /\ bgp.queue = <<>> /\ StartupInOrder
      /\ ~shutdown /\ reload = "idle"
  BY <1>1, <1>2 DEF PhaseInv
<1>5. bgp' = bgp \/ bgp' = [bgp EXCEPT !.state = "up", !.peers = Peers(file)]
  BY DEF StartBgp
<1>6. /\ bgp' \in BgpStates /\ bgp'.queue = <<>>
      /\ bgp' # bgp => bgp'.peers = Peers(file)
  <2>1. bgp \in BgpStates /\ Peers(file) \subseteq Addresses
    BY <1>1, PeersType DEF TypeOK
  <2> QED BY <2>1, <1>4, <1>5 DEF BgpStates
<1>7. TypeOK'
  <2>1. Len(bgp'.queue) <= BGP_CAP
    BY <1>6, CapAssumption
  <2> QED BY <2>1, <1>1, <1>2, <1>3, <1>6 DEF TypeOK
<1>8. PeersInSync'
  <2>1. CASE bgp' = bgp
    BY <2>1, <1>1, <1>2 DEF PeersInSync
  <2>2. CASE bgp' # bgp
    <3>1. known' = bgp'.peers /\ bgp'.queue = <<>>
      BY <2>2, <1>2, <1>4, <1>6
    <3>2. Resulting(bgp'.peers, <<>>) = bgp'.peers
      BY ResultingEmpty
    <3> QED BY <3>1, <3>2 DEF PeersInSync
  <2> QED BY <2>1, <2>2
<1>9. StartupInOrder'
  <2> SUFFICES ASSUME NEW i \in 1..8, MainOrder[i] # "bgp"
               PROVE  IF i < at' THEN Follows(slot'[MainOrder[i]].running, file', MainOrder[i])
                                 ELSE slot'[MainOrder[i]] = Stopped
    BY OrderFacts DEF StartupInOrder
  <2>1. i < at' <=> i < at
    <3>1. i # at
      BY <1>2
    <3> QED BY <3>1, <1>2, <1>3
  <2>2. IF i < at THEN Follows(slot[MainOrder[i]].running, file, MainOrder[i])
                  ELSE slot[MainOrder[i]] = Stopped
    BY <1>4, OrderFacts DEF StartupInOrder
  <2> QED BY <2>1, <2>2, <1>2
<1>10. PhaseInv' /\ SlotFollowsConfig' /\ GoodbyesAwaited'
  BY <1>2, <1>4, <1>6, <1>9 DEF PhaseInv, SlotFollowsConfig, GoodbyesAwaited
<1>11. OneGeneration' /\ SlotsCoherent'
  BY <1>2, SameSupervisor
<1> QED BY <1>7, <1>8, <1>10, <1>11 DEF IInv, DaemonInv

\* The signal loop begins: by now main has passed every engine.
LEMMA ReadyKeeps == IInv /\ Ready => IInv'
<1> SUFFICES ASSUME IInv, Ready PROVE IInv'
  OBVIOUS
<1>1. TypeOK /\ PhaseInv /\ PeersInSync
  BY DEF IInv, DaemonInv
<1>2. /\ phase = "start" /\ at > Len(MainOrder) /\ phase' = "run"
      /\ UNCHANGED <<file, at, slot, gens, shutdown, late, reload, applied, bgp, known, route,
                     conn, left>>
  BY DEF Ready
<1>3. TypeOK'
  BY <1>1, <1>2 DEF TypeOK
<1>4. PeersInSync'
  BY <1>1, <1>2 DEF PeersInSync
<1>5. \A e \in Engines : Follows(slot[e].running, file, e)
  <2> TAKE e \in Engines
  <2>1. PICK i \in 1..8 : MainOrder[i] = e /\ MainOrder[i] # "bgp"
    BY OrderFacts
  <2>2. i < at
    BY <1>1, <1>2, OrderFacts DEF TypeOK
  <2>3. StartupInOrder /\ Len(MainOrder) = 8
    BY <1>1, <1>2, OrderFacts DEF PhaseInv
  <2>4. Follows(slot[MainOrder[i]].running, file, MainOrder[i])
    BY <2>1, <2>2, <2>3 DEF StartupInOrder
  <2> QED BY <2>1, <2>4
<1>6. SlotFollowsConfig'
  <2>1. applied' = file
    BY <1>1, <1>2 DEF PhaseInv
  <2> QED BY <2>1, <1>2, <1>5 DEF SlotFollowsConfig, Follows
<1>7. PhaseInv' /\ GoodbyesAwaited'
  BY <1>1, <1>2 DEF PhaseInv, GoodbyesAwaited
<1>8. OneGeneration' /\ SlotsCoherent'
  BY <1>2, SameSupervisor
<1> QED BY <1>3, <1>4, <1>6, <1>7, <1>8 DEF IInv, DaemonInv

\* An edit touches nothing but the file; SIGHUP accepts it or drops it.
LEMMA EditKeeps == IInv /\ (\E c \in Files : Edit(c)) => IInv'
<1> SUFFICES ASSUME IInv, NEW c \in Files, Edit(c) PROVE IInv'
  OBVIOUS
<1>1. TypeOK /\ PhaseInv /\ PeersInSync /\ SlotFollowsConfig /\ GoodbyesAwaited
  BY DEF IInv, DaemonInv
<1>2. /\ phase = "run" /\ left.edits > 0 /\ file' = c /\ left' = [left EXCEPT !.edits = @ - 1]
      /\ UNCHANGED <<phase, at, slot, gens, shutdown, late, reload, applied, bgp, known,
                     route, conn>>
  BY DEF Edit
<1>3. TypeOK'
  <2>1. left' \in Counters
    <3>1. left \in Counters
      BY <1>1 DEF TypeOK
    <3> QED BY <3>1, <1>2 DEF Counters
  <2> QED BY <2>1, <1>1, <1>2 DEF TypeOK
<1>4. PhaseInv' /\ PeersInSync' /\ SlotFollowsConfig' /\ GoodbyesAwaited'
  BY <1>1, <1>2 DEF PhaseInv, PeersInSync, SlotFollowsConfig, GoodbyesAwaited
<1>5. OneGeneration' /\ SlotsCoherent'
  BY <1>2, SameSupervisor
<1> QED BY <1>3, <1>4, <1>5 DEF IInv, DaemonInv

LEMMA SighupKeeps == IInv /\ Sighup => IInv'
<1> SUFFICES ASSUME IInv, Sighup PROVE IInv'
  OBVIOUS
<1>1. TypeOK /\ PhaseInv /\ PeersInSync /\ SlotFollowsConfig /\ GoodbyesAwaited
  BY DEF IInv, DaemonInv
<1>2. /\ phase = "run" /\ reload = "idle" /\ left.reloads > 0
      /\ left' = [left EXCEPT !.reloads = @ - 1]
      /\ \/ reload' = "bgp" /\ applied' = file
         \/ UNCHANGED <<reload, applied>>
      /\ UNCHANGED <<file, phase, at, slot, gens, shutdown, late, bgp, known, route, conn>>
  BY DEF Sighup
<1>3. TypeOK'
  <2>1. left' \in Counters
    <3>1. left \in Counters
      BY <1>1 DEF TypeOK
    <3> QED BY <3>1, <1>2 DEF Counters
  <2> QED BY <2>1, <1>1, <1>2 DEF TypeOK
<1>4. PhaseInv' /\ PeersInSync' /\ SlotFollowsConfig' /\ GoodbyesAwaited'
  BY <1>1, <1>2 DEF PhaseInv, PeersInSync, SlotFollowsConfig, GoodbyesAwaited
<1>5. OneGeneration' /\ SlotsCoherent'
  BY <1>2, SameSupervisor
<1> QED BY <1>3, <1>4, <1>5 DEF IInv, DaemonInv

\* The neighbour delta: a send moves the baseline along with the queue.
LEMMA ReloadBgpKeeps == IInv /\ ReloadBgp => IInv'
<1> SUFFICES ASSUME IInv, ReloadBgp PROVE IInv'
  OBVIOUS
<1> DEFINE new   == Peers(applied)
           delta == [add |-> new \ known, remove |-> known \ new]
<1>1. TypeOK /\ PhaseInv /\ PeersInSync /\ GoodbyesAwaited
  BY DEF IInv, DaemonInv
<1>2. /\ reload = "bgp" /\ reload' = "engines" /\ phase = "run" /\ phase' = "run"
      /\ UNCHANGED <<file, phase, at, slot, gens, shutdown, late, applied, route, conn, left>>
  BY <1>1 DEF ReloadBgp, PhaseInv
<1>3. \/ UNCHANGED <<bgp, known>>
      \/ /\ Len(bgp.queue) < BGP_CAP /\ known' = new
         /\ bgp' = [bgp EXCEPT !.queue = Append(@, delta)]
  BY DEF ReloadBgp
<1>4. /\ new \subseteq Addresses /\ known \subseteq Addresses /\ bgp \in BgpStates
      /\ Len(bgp.queue) <= BGP_CAP
  BY <1>1, PeersType DEF TypeOK
<1>5. /\ bgp' \in BgpStates /\ known' \subseteq Addresses /\ Len(bgp'.queue) <= BGP_CAP
      /\ PeersInSync'
  <2>1. CASE UNCHANGED <<bgp, known>>
    BY <2>1, <1>1, <1>4 DEF PeersInSync
  <2>2. CASE /\ Len(bgp.queue) < BGP_CAP /\ known' = new
             /\ bgp' = [bgp EXCEPT !.queue = Append(@, delta)]
    <3>1. delta \in Deltas /\ delta.add = new \ known /\ delta.remove = known \ new
      BY <1>4 DEF Deltas
    <3> HIDE DEF delta, new
    <3>2. /\ bgp.queue \in Seq(Deltas) /\ bgp'.queue = Append(bgp.queue, delta)
          /\ bgp'.state = bgp.state /\ bgp'.peers = bgp.peers
      BY <2>2, <1>4 DEF BgpStates
    <3>3. bgp'.queue \in Seq(Deltas) /\ Len(bgp'.queue) <= BGP_CAP
      <4>1. Len(bgp.queue) \in Nat /\ Len(Append(bgp.queue, delta)) = Len(bgp.queue) + 1
        BY <3>1, <3>2
      <4>2. Append(bgp.queue, delta) \in Seq(Deltas)
        BY <3>1, <3>2
      <4> QED BY <4>1, <4>2, <3>2, <2>2, CapAssumption
    <3>4. bgp' \in BgpStates
      <4> DEFINE q == Append(bgp.queue, delta)
      <4>1. q \in Seq(Deltas) /\ bgp' = [bgp EXCEPT !.queue = q]
        BY <3>2, <3>3, <2>2
      <4> HIDE DEF q
      <4> QED BY <4>1, <1>4 DEF BgpStates
    <3>5. ASSUME bgp'.state = "up" PROVE known' = Resulting(bgp'.peers, bgp'.queue)
      <4>1. known = Resulting(bgp.peers, bgp.queue)
        BY <3>2, <3>5, <1>1 DEF PeersInSync
      <4>2. Resulting(bgp.peers, Append(bgp.queue, delta)) = (known \ delta.remove) \cup delta.add
        BY <4>1, <3>1, <3>2, ResultingAppend
      <4>3. (known \ delta.remove) \cup delta.add = new
        BY <3>1
      <4> QED BY <4>2, <4>3, <3>2, <2>2
    <3> QED BY <3>3, <3>4, <3>5, <2>2, <1>4 DEF PeersInSync
  <2> QED BY <2>1, <2>2, <1>3
<1>6. TypeOK'
  BY <1>1, <1>2, <1>5 DEF TypeOK
<1>7. PhaseInv' /\ SlotFollowsConfig' /\ GoodbyesAwaited'
  BY <1>1, <1>2 DEF PhaseInv, SlotFollowsConfig, GoodbyesAwaited
<1>8. OneGeneration' /\ SlotsCoherent'
  BY <1>2, SameSupervisor
<1> QED BY <1>5, <1>6, <1>7, <1>8 DEF IInv, DaemonInv

\* supervisor.apply.
LEMMA ReloadEnginesKeeps == IInv /\ ReloadEngines => IInv'
<1> SUFFICES ASSUME IInv, ReloadEngines PROVE IInv'
  OBVIOUS
<1> DEFINE s == Apply(Supervised, applied)
<1>1. TypeOK /\ PhaseInv /\ PeersInSync /\ GoodbyesAwaited
  BY DEF IInv, DaemonInv
<1>2. /\ reload = "engines" /\ reload' = "idle" /\ phase = "run" /\ phase' = "run"
      /\ slot' = s.slot /\ gens' = s.gens /\ route' = s.route
      /\ UNCHANGED <<file, phase, at, shutdown, late, applied, bgp, known, conn, left>>
  BY <1>1 DEF ReloadEngines, PhaseInv
<1>3. applied \in Files /\ SupOK(Supervised) /\ Supervised.gens = gens
  BY <1>1, Supervision DEF TypeOK, Supervised
<1>4. /\ SupOK(s) /\ Len(s.gens) >= Len(gens)
      /\ \A e \in Engines : Follows(s.slot[e].running, applied, e)
  BY <1>3, ApplyFollows
<1> HIDE DEF s
<1>5. /\ gens' \in Seq(Generations) /\ DOMAIN slot' = Engines
      /\ \A e \in Engines : slot'[e] \in [running : SUBSET Signatures[e], gen : 0..Len(gens')]
      /\ route' \in [Engines -> [made : BOOLEAN, to : 0..Len(gens')]]
      /\ OneGeneration' /\ SlotsCoherent'
  BY <1>2, <1>4, SupervisionKept
<1>6. TypeOK'
  <2>1. conn'.to <= Len(gens')
    <3>1. conn.to \in Nat /\ Len(gens) \in Nat /\ conn.to <= Len(gens) /\ Len(gens') \in Nat
      BY <1>1, <1>5 DEF TypeOK, Connections
    <3> QED BY <3>1, <1>2, <1>4
  <2> QED BY <2>1, <1>1, <1>2, <1>5 DEF TypeOK
<1>7. SlotFollowsConfig'
  BY <1>2, <1>4 DEF SlotFollowsConfig, Follows
<1>8. PhaseInv' /\ PeersInSync' /\ GoodbyesAwaited'
  BY <1>1, <1>2 DEF PhaseInv, PeersInSync, GoodbyesAwaited
<1> QED BY <1>5, <1>6, <1>7, <1>8 DEF IInv, DaemonInv

\* The BGP engine takes a delta.
LEMMA BgpReconfigKeeps == IInv /\ BgpReconfig => IInv'
<1> SUFFICES ASSUME IInv, BgpReconfig PROVE IInv'
  OBVIOUS
<1> DEFINE d == Head(bgp.queue)
<1>1. TypeOK /\ PhaseInv /\ PeersInSync /\ SlotFollowsConfig /\ GoodbyesAwaited
  BY DEF IInv, DaemonInv
<1>2. /\ phase # "exit" /\ bgp.state = "up" /\ bgp.queue # <<>>
      /\ bgp' = [bgp EXCEPT !.peers = (@ \ d.remove) \cup d.add, !.queue = Tail(@)]
      /\ UNCHANGED <<file, phase, at, slot, gens, shutdown, late, reload, applied, known,
                     route, conn, left>>
  BY DEF BgpReconfig
<1>3. bgp \in BgpStates /\ Len(bgp.queue) <= BGP_CAP
  BY <1>1 DEF TypeOK
<1>4. /\ bgp.queue \in Seq(Deltas) /\ bgp.peers \subseteq Addresses
  BY <1>3 DEF BgpStates
<1>5. /\ Tail(bgp.queue) \in Seq(Deltas) /\ Len(Tail(bgp.queue)) <= BGP_CAP /\ d \in Deltas
  BY <1>2, <1>3, <1>4, CapAssumption
<1>6. d.add \subseteq Addresses
  BY <1>5 DEF Deltas
<1> HIDE DEF d
<1>7. /\ bgp' \in BgpStates /\ bgp'.state = "up" /\ bgp'.queue = Tail(bgp.queue)
      /\ bgp'.peers = (bgp.peers \ d.remove) \cup d.add
  BY <1>2, <1>3, <1>4, <1>5, <1>6 DEF BgpStates
<1>8. PeersInSync'
  <2>1. known = Resulting(bgp.peers, bgp.queue)
    BY <1>1, <1>2 DEF PeersInSync
  <2>2. Resulting(bgp'.peers, bgp'.queue) = Resulting(bgp.peers, bgp.queue)
    BY <1>2, <1>4, <1>7, ResultingTail DEF d
  <2> QED BY <2>1, <2>2, <1>2 DEF PeersInSync
<1>9. TypeOK'
  BY <1>1, <1>2, <1>5, <1>7 DEF TypeOK
<1>10. PhaseInv' /\ SlotFollowsConfig' /\ GoodbyesAwaited'
  <2>1. phase # "start"
    BY <1>1, <1>2 DEF PhaseInv
  <2> QED BY <2>1, <1>1, <1>2 DEF PhaseInv, SlotFollowsConfig, GoodbyesAwaited
<1>11. OneGeneration' /\ SlotsCoherent'
  BY <1>2, SameSupervisor
<1> QED BY <1>8, <1>9, <1>10, <1>11 DEF IInv, DaemonInv

\* A generation that is told to stop, ends or loses its relay stays the same one.
LEMMA GenerationSteps ==
  ASSUME IInv, phase # "exit", gens' \in Seq(Generations), Len(gens') = Len(gens),
         \A h \in 1..Len(gens) : /\ gens'[h].engine = gens[h].engine
                                 /\ gens[h].stop => gens'[h].stop
                                 /\ gens[h].done => gens'[h].done,
         left' \in Counters,
         UNCHANGED <<file, phase, at, slot, shutdown, late, reload, applied, bgp, known, route,
                     conn>>
  PROVE  IInv'
<1>1. /\ TypeOK /\ OneGeneration /\ SlotsCoherent /\ PhaseInv /\ PeersInSync
      /\ SlotFollowsConfig
  BY DEF IInv, DaemonInv
<1>2. DOMAIN gens = 1..Len(gens) /\ DOMAIN gens' = 1..Len(gens)
  BY <1>1 DEF TypeOK
<1>3. TypeOK'
  BY <1>1 DEF TypeOK
<1>4. OneGeneration'
  <2> SUFFICES ASSUME NEW h \in 1..Len(gens), ~gens'[h].stop, ~gens'[h].done
               PROVE  slot'[gens'[h].engine].gen = h
    BY <1>2 DEF OneGeneration
  <2>1. ~gens[h].stop /\ ~gens[h].done
    OBVIOUS
  <2>2. slot[gens[h].engine].gen = h
    BY <2>1, <1>1, <1>2, Zenon DEF OneGeneration
  <2> QED BY <2>2
<1>5. SlotsCoherent'
  <2> SUFFICES ASSUME NEW e \in Engines
               PROVE  /\ slot'[e].gen = 0 <=> slot'[e].running = {}
                      /\ slot'[e].gen # 0 => gens'[slot'[e].gen].engine = e
    BY DEF SlotsCoherent
  <2>1. slot[e].gen \in 0..Len(gens) /\ Len(gens) \in Nat
    BY <1>1 DEF TypeOK
  <2> QED BY <2>1, <1>1 DEF SlotsCoherent
<1>6. PhaseInv'
  <2>1. phase = "start" => StartupInOrder'
    BY <1>1 DEF PhaseInv, StartupInOrder
  <2> QED BY <2>1, <1>1 DEF PhaseInv
<1>7. PeersInSync' /\ SlotFollowsConfig' /\ GoodbyesAwaited'
  BY <1>1 DEF PeersInSync, SlotFollowsConfig, GoodbyesAwaited
<1> QED BY <1>3, <1>4, <1>5, <1>6, <1>7 DEF IInv, DaemonInv

\* The tasks of the generations and of their relays.
LEMMA TasksKeep ==
  IInv /\ (\E g \in DOMAIN gens :
              RelayFires(g) \/ RelayReleased(g) \/ EngineStops(g) \/ EngineFails(g)) => IInv'
<1> SUFFICES ASSUME IInv, NEW g \in DOMAIN gens,
                    RelayFires(g) \/ RelayReleased(g) \/ EngineStops(g) \/ EngineFails(g)
             PROVE  IInv'
  OBVIOUS
<1>1. /\ gens \in Seq(Generations) /\ g \in 1..Len(gens) /\ gens[g] \in Generations
      /\ left \in Counters
  BY DEF IInv, DaemonInv, TypeOK
<1>2. UNCHANGED <<file, phase, at, slot, shutdown, late, reload, applied, bgp, known, route,
                  conn>>
  BY DEF RelayFires, RelayReleased, EngineStops, EngineFails
<1>3. phase # "exit"
  BY DEF RelayFires, RelayReleased, EngineStops, EngineFails, Alive
<1>4. left' \in Counters
  <2>1. CASE left' = left
    BY <2>1, <1>1
  <2>2. CASE left.failures > 0 /\ left' = [left EXCEPT !.failures = @ - 1]
    BY <2>2, <1>1 DEF Counters
  <2> QED BY <2>1, <2>2 DEF RelayFires, RelayReleased, EngineStops, EngineFails
<1>5. ASSUME NEW x \in Generations, gens' = [gens EXCEPT ![g] = x], x.engine = gens[g].engine,
             gens[g].stop => x.stop, gens[g].done => x.done
      PROVE  IInv'
  <2>1. /\ gens' \in Seq(Generations) /\ Len(gens') = Len(gens) /\ gens'[g] = x
        /\ \A h \in 1..Len(gens) : h # g => gens'[h] = gens[h]
    BY <1>1, <1>5
  <2>2. \A h \in 1..Len(gens) : /\ gens'[h].engine = gens[h].engine
                                /\ gens[h].stop => gens'[h].stop
                                /\ gens[h].done => gens'[h].done
    BY <2>1, <1>5
  <2> QED BY <2>1, <2>2, <1>2, <1>3, <1>4, GenerationSteps
<1>6. CASE RelayFires(g)
  <2> DEFINE x == [gens[g] EXCEPT !.stop = TRUE, !.relay = FALSE]
  <2>1. /\ x \in Generations /\ x.engine = gens[g].engine /\ x.stop /\ x.done = gens[g].done
    BY <1>1 DEF Generations
  <2>2. gens' = [gens EXCEPT ![g] = x]
    <3>1. gens' = [gens EXCEPT ![g].stop = TRUE, ![g].relay = FALSE]
      BY <1>6 DEF RelayFires
    <3> QED BY <3>1, <1>1
  <2> HIDE DEF x
  <2> QED BY <2>1, <2>2, <1>5
<1>7. CASE RelayReleased(g)
  <2> DEFINE x == [gens[g] EXCEPT !.relay = FALSE]
  <2>1. /\ x \in Generations /\ x.engine = gens[g].engine /\ x.stop = gens[g].stop
        /\ x.done = gens[g].done
    BY <1>1 DEF Generations
  <2>2. gens' = [gens EXCEPT ![g] = x]
    BY <1>7 DEF RelayReleased
  <2> HIDE DEF x
  <2> QED BY <2>1, <2>2, <1>5
<1>8. CASE EngineStops(g) \/ EngineFails(g)
  <2> DEFINE x == [gens[g] EXCEPT !.done = TRUE]
  <2>1. /\ x \in Generations /\ x.engine = gens[g].engine /\ x.stop = gens[g].stop /\ x.done
    BY <1>1 DEF Generations
  <2>2. gens' = [gens EXCEPT ![g] = x]
    BY <1>8 DEF EngineStops, EngineFails
  <2> HIDE DEF x
  <2> QED BY <2>1, <2>2, <1>5
<1> QED BY <1>6, <1>7, <1>8

\* The end of the BGP engine.
LEMMA BgpEndsKeeps == IInv /\ BgpEnds => IInv'
<1> SUFFICES ASSUME IInv, BgpEnds PROVE IInv'
  OBVIOUS
<1>1. TypeOK /\ PhaseInv /\ SlotFollowsConfig /\ GoodbyesAwaited
  BY DEF IInv, DaemonInv
<1>2. /\ phase # "exit" /\ bgp.state = "up" /\ bgp' = [bgp EXCEPT !.state = "ended"]
      /\ UNCHANGED <<file, phase, at, slot, gens, shutdown, late, reload, applied, known,
                     route, conn>>
  BY DEF BgpEnds
<1>3. bgp' \in BgpStates /\ bgp'.state = "ended" /\ bgp'.queue = bgp.queue
  <2>1. bgp \in BgpStates
    BY <1>1 DEF TypeOK
  <2> QED BY <2>1, <1>2 DEF BgpStates
<1>4. left' \in Counters
  <2>1. left \in Counters
    BY <1>1 DEF TypeOK
  <2>2. left' = left \/ (left.failures > 0 /\ left' = [left EXCEPT !.failures = @ - 1])
    BY DEF BgpEnds
  <2> QED BY <2>1, <2>2 DEF Counters
<1>5. TypeOK'
  BY <1>1, <1>2, <1>3, <1>4 DEF TypeOK
<1>6. PeersInSync' /\ SlotFollowsConfig' /\ GoodbyesAwaited'
  BY <1>1, <1>2, <1>3 DEF PeersInSync, SlotFollowsConfig, GoodbyesAwaited
<1>7. PhaseInv'
  <2>1. phase = "start" => StartupInOrder'
    BY <1>1, <1>2 DEF PhaseInv, StartupInOrder
  <2> QED BY <2>1, <1>1, <1>2, <1>3 DEF PhaseInv
<1>8. OneGeneration' /\ SlotsCoherent'
  BY <1>2, SameSupervisor
<1> QED BY <1>5, <1>6, <1>7, <1>8 DEF IInv, DaemonInv

\* The signal, the grace window and the end of main.
LEMMA ShutdownKeeps == IInv /\ (Signal \/ GraceElapses \/ Exit) => IInv'
<1> SUFFICES ASSUME IInv, Signal \/ GraceElapses \/ Exit PROVE IInv'
  OBVIOUS
<1>1. TypeOK /\ PhaseInv /\ PeersInSync
  BY DEF IInv, DaemonInv
<1>2. /\ phase' # "run" /\ phase' # "start" /\ reload' = "idle"
      /\ UNCHANGED <<file, at, slot, gens, reload, applied, bgp, known, route, conn, left>>
  BY <1>1 DEF Signal, GraceElapses, Exit, PhaseInv
<1>3. TypeOK'
  <2>1. /\ phase' \in {"start", "run", "stop", "exit"} /\ shutdown' \in BOOLEAN
        /\ late' \in BOOLEAN
    BY <1>1 DEF Signal, GraceElapses, Exit, TypeOK
  <2> QED BY <2>1, <1>1, <1>2 DEF TypeOK
<1>4. PhaseInv' /\ PeersInSync' /\ SlotFollowsConfig'
  BY <1>1, <1>2 DEF PhaseInv, PeersInSync, SlotFollowsConfig
<1>5. GoodbyesAwaited'
  <2>1. CASE Signal \/ GraceElapses
    BY <2>1 DEF GoodbyesAwaited, Signal, GraceElapses
  <2>2. CASE Exit
    <3> SUFFICES ASSUME ~late
                 PROVE  /\ bgp.state # "up"
                        /\ \A e \in Engines : slot[e].gen # 0 => gens[slot[e].gen].done
      BY <2>2, <1>2 DEF GoodbyesAwaited, Exit
    <3>1. bgp.state # "up" /\ \A g \in DOMAIN gens : Awaited(g) => gens[g].done
      BY <2>2 DEF Exit
    <3>2. ASSUME NEW e \in Engines, slot[e].gen # 0
          PROVE  gens[slot[e].gen].done
      <4>1. slot[e].gen \in DOMAIN gens
        <5>1. slot[e].gen \in 0..Len(gens) /\ DOMAIN gens = 1..Len(gens) /\ Len(gens) \in Nat
          BY <1>1 DEF TypeOK
        <5> QED BY <5>1, <3>2
      <4>2. Awaited(slot[e].gen)
        BY DEF Awaited
      <4> QED BY <4>1, <4>2, <3>1
    <3> QED BY <3>1, <3>2
  <2> QED BY <2>1, <2>2
<1>6. OneGeneration' /\ SlotsCoherent'
  BY <1>2, SameSupervisor
<1> QED BY <1>3, <1>4, <1>5, <1>6 DEF IInv, DaemonInv

\* A query and its answer touch nothing but the connection.
LEMMA QueriesKeep == IInv /\ ((\E e \in Engines : Show(e)) \/ Answered) => IInv'
<1> SUFFICES ASSUME IInv, (\E e \in Engines : Show(e)) \/ Answered PROVE IInv'
  OBVIOUS
<1>1. TypeOK /\ PhaseInv /\ PeersInSync /\ SlotFollowsConfig /\ GoodbyesAwaited
  BY DEF IInv, DaemonInv
<1>2. UNCHANGED <<file, phase, at, slot, gens, shutdown, late, reload, applied, bgp, known,
                  route>>
  BY DEF Show, Answered
<1>3. /\ left \in Counters /\ route \in [Engines -> [made : BOOLEAN, to : 0..Len(gens)]]
      /\ Len(gens) \in Nat
  BY <1>1 DEF TypeOK
<1>4. NoConn \in Connections /\ NoConn.to <= Len(gens)
  BY <1>3 DEF NoConn, Connections
<1>5. left' \in Counters /\ conn' \in Connections /\ conn'.to <= Len(gens)
  <2>1. CASE Answered
    BY <2>1, <1>3, <1>4 DEF Answered
  <2>2. ASSUME NEW e \in Engines, Show(e)
        PROVE  left' \in Counters /\ conn' \in Connections /\ conn'.to <= Len(gens)
    <3>1. left.queries > 0 /\ left' = [left EXCEPT !.queries = @ - 1]
      BY <2>2 DEF Show
    <3>2. left' \in Counters
      BY <3>1, <1>3 DEF Counters
    <3>3. conn' = NoConn \/ conn' = [state |-> "sent", engine |-> e, to |-> route[e].to]
      BY <2>2 DEF Show
    <3>4. route[e].to \in 0..Len(gens)
      BY <1>3
    <3> DEFINE r == route[e].to
    <3> HIDE DEF r
    <3>5. CASE conn' = [state |-> "sent", engine |-> e, to |-> r]
      <4>1. r \in Nat /\ r <= Len(gens)
        BY <3>4, <1>3 DEF r
      <4> QED BY <4>1, <3>2, <3>5 DEF Connections
    <3> QED BY <3>2, <3>3, <3>5, <1>4 DEF r
  <2> QED BY <2>1, <2>2
<1>6. TypeOK'
  BY <1>1, <1>2, <1>5 DEF TypeOK
<1>7. PeersInSync' /\ SlotFollowsConfig' /\ GoodbyesAwaited'
  BY <1>1, <1>2 DEF PeersInSync, SlotFollowsConfig, GoodbyesAwaited
<1>8. PhaseInv'
  <2>1. phase = "start" => StartupInOrder'
    BY <1>1, <1>2 DEF PhaseInv, StartupInOrder
  <2> QED BY <2>1, <1>1, <1>2 DEF PhaseInv
<1>9. OneGeneration' /\ SlotsCoherent'
  BY <1>2, SameSupervisor
<1> QED BY <1>6, <1>7, <1>8, <1>9 DEF IInv, DaemonInv

\* The invariant is inductive.
LEMMA NextKeeps == IInv /\ [Next]_vars => IInv'
<1> SUFFICES ASSUME IInv, [Next]_vars PROVE IInv'
  OBVIOUS
<1>1. CASE UNCHANGED vars
  <2>1. TypeOK' /\ PhaseInv' /\ PeersInSync' /\ SlotFollowsConfig' /\ GoodbyesAwaited'
    BY <1>1 DEF vars, IInv, DaemonInv, TypeOK, PhaseInv, StartupInOrder, PeersInSync,
                SlotFollowsConfig, GoodbyesAwaited
  <2>2. OneGeneration' /\ SlotsCoherent'
    BY <1>1, SameSupervisor DEF vars
  <2> QED BY <2>1, <2>2 DEF IInv, DaemonInv
<1>2. CASE Next
  BY <1>2, StartEngineKeeps, StartBgpKeeps, ReadyKeeps, EditKeeps, SighupKeeps, ReloadBgpKeeps,
     ReloadEnginesKeeps, BgpReconfigKeeps, TasksKeep, BgpEndsKeeps, ShutdownKeeps, QueriesKeep
     DEF Next
<1> QED BY <1>1, <1>2

\* The inductive invariant holds throughout.
LEMMA Invariance == Spec => []IInv
BY InitInv, NextKeeps, PTL DEF Spec

\* Whatever the files, the order of edits, SIGHUPs, failures and signals (main's
\* start-up, apply_reload, the supervisor and the shutdown of main.rs and reload.rs):
\* no two generations of an engine run, every slot follows the configuration that was
\* accepted last, the BGP engine's neighbours and its queue add up to main's baseline,
\* and main leaves before the grace window ends only after every goodbye.
THEOREM DaemonSafe == Spec => []DaemonInv
<1>1. IInv => DaemonInv
  BY DEF IInv
<1> QED BY <1>1, Invariance, PTL

\* An engine that runs under the signature the accepted configuration gives it keeps
\* its generation in every step ("Unaffected engines are left completely untouched",
\* Supervisor::apply): no reload, whatever else it changes, restarts it.
THEOREM UnchangedEngineKept ==
  Spec => [][\A e \in Engines :
                Enabled(applied, e) /\ slot[e].running = {SigOf(applied, e)}
                   => slot'[e] = slot[e]]_vars
<1> DEFINE Kept == \A e \in Engines :
                      Enabled(applied, e) /\ slot[e].running = {SigOf(applied, e)}
                         => slot'[e] = slot[e]
<1>1. IInv /\ [Next]_vars => [Kept]_vars
  <2> SUFFICES ASSUME IInv, Next PROVE Kept
    OBVIOUS
  <2>1. CASE ReloadEngines
    <3>1. applied \in Files /\ SupOK(Supervised) /\ Supervised.slot = slot
      BY Supervision DEF IInv, DaemonInv, TypeOK, Supervised
    <3>2. slot' = Apply(Supervised, applied).slot
      BY <2>1 DEF ReloadEngines
    <3> QED BY <3>1, <3>2, ApplyFollows
  <2>2. CASE StartEngine
    <3> SUFFICES ASSUME NEW e \in Engines, slot[e].running = {SigOf(applied, e)}
                 PROVE  slot'[e] = slot[e]
      OBVIOUS
    <3>1. slot' = slot \/ \E x : slot' = [slot EXCEPT ![MainOrder[at]] = x]
      BY <2>2 DEF StartEngine
    <3>2. MainOrder[at] # e
      <4>1. /\ phase = "start" /\ at <= Len(MainOrder) /\ MainOrder[at] # "bgp"
            /\ at \in 1..(Len(MainOrder) + 1)
        BY <2>2 DEF StartEngine, IInv, DaemonInv, TypeOK
      <4>2. StartupInOrder
        BY <4>1 DEF IInv, PhaseInv
      <4>3. at \in 1..Len(MainOrder) /\ ~(at < at)
        BY <4>1, OrderFacts
      <4>4. slot[MainOrder[at]] = Stopped
        BY <4>1, <4>2, <4>3 DEF StartupInOrder
      <4> QED BY <4>4, AtRest
    <3>3. DOMAIN slot = Engines
      BY DEF IInv, DaemonInv, TypeOK
    <3> QED BY <3>1, <3>2, <3>3
  <2>3. CASE UNCHANGED slot
    BY <2>3
  <2>4. ReloadEngines \/ StartEngine \/ UNCHANGED slot
    BY DEF Next, StartBgp, Ready, Edit, Sighup, ReloadBgp, BgpReconfig, RelayFires,
           RelayReleased, EngineStops, EngineFails, BgpEnds, Signal, GraceElapses, Exit, Show,
           Answered
  <2> QED BY <2>1, <2>2, <2>3, <2>4
<1> QED BY <1>1, Invariance, PTL DEF Spec
=============================================================================
