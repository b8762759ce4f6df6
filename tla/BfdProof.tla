------------------------------ MODULE BfdProof ------------------------------
(* For any two ends, consumers, intervals and channel sizes: the types of the  *)
(* BFD engine, that a forming or running session is always watched, and that   *)
(* the fall of a session is reported to everyone who rides on it; then that    *)
(* the detection time runs out only on real loss.                              *)
EXTENDS Bfd, TLAPS

\* What Watched says of one session.
Sound(s) == Watching(s) => s.live /\ s.detect # Off /\ s.discr

\* The inductive invariant: a session that is Up is live, so its fall is reported.
BfdInv == TypeOK /\ Watched /\ FallReported

\* The times of the model are natural numbers.
LEMMA Products ==
    ASSUME NEW m \in Nat, NEW n \in Nat
    PROVE  m * n \in Nat /\ (m * n) \div 100 \in Nat
OBVIOUS

\* A deadline is a time or Off, and the clock keeps it one.
LEMMA DeadlineFacts ==
    /\ Off \in Deadlines /\ 0 \in Deadlines /\ 0 # Off
    /\ \A n \in Nat : n \in Deadlines /\ n # Off /\ Less(n) \in Nat
    /\ \A d \in Deadlines : Less(d) \in Deadlines /\ (Less(d) = Off <=> d = Off)
BY DEF Deadlines, Off, Less

\* The configured values are natural numbers.
LEMMA Settings ==
    ASSUME NEW e \in End
    PROVE  /\ Peer[e] \in End
           /\ DESIRED[e] \in Nat /\ RX[e] \in Nat /\ MULT[e] \in Nat
           /\ PERCENT[e] \in Nat /\ ECHO[e] \in Nat
           /\ SLOW \in Nat /\ QUEUE \in Nat /\ QUEUE > 0
           /\ COMMANDS \in Nat /\ COMMANDS > 0 /\ WIRE \in Nat /\ WIRE > 0
<1>1. Peer[e] \in End
    BY LinkAssumption
<1>2. DESIRED[e] \in Nat \ {0, 1} /\ RX[e] \in Nat \ {0} /\ MULT[e] \in Nat \ {0}
      /\ ECHO[e] \in Nat
    BY TimingAssumption, Zenon
<1>3. PERCENT[e] \in 75 .. 90
    BY TimingAssumption, Zenon
<1>4. SLOW \in Nat /\ QUEUE \in Nat /\ QUEUE > 0
      /\ COMMANDS \in Nat /\ COMMANDS > 0 /\ WIRE \in Nat /\ WIRE > 0
    BY TimingAssumption
<1> QED
    BY <1>1, <1>2, <1>3, <1>4

\* The intervals computed for a session are natural numbers.
LEMMA Intervals ==
    ASSUME NEW e \in End, NEW s \in PeerSession
    PROVE  /\ TransmitInterval(e, s) \in Nat
           /\ DetectionTime(e, s) \in Nat
           /\ EffectiveDesired(e, s) \in Nat
           /\ ECHO[e] * MULT[e] \in Nat
<1>1. s.rx \in Nat /\ s.mult \in Nat /\ s.desired \in Nat
    BY DEF PeerSession
<1>2. EffectiveDesired(e, s) \in Nat
    BY Settings DEF EffectiveDesired, Larger
<1>3. Larger(EffectiveDesired(e, s), s.rx) \in Nat /\ Larger(RX[e], s.desired) \in Nat
    BY <1>1, <1>2, Settings DEF Larger
<1>4. TransmitInterval(e, s) \in Nat
    BY <1>3, Settings, Products DEF TransmitInterval
<1>5. DetectionTime(e, s) \in Nat
    BY <1>1, <1>3, Products DEF DetectionTime
<1>6. ECHO[e] * MULT[e] \in Nat
    BY Settings, Products
<1> QED
    BY <1>2, <1>4, <1>5, <1>6

\* A new session, or none.
LEMMA NewSession ==
    ASSUME NEW live \in BOOLEAN, NEW subs \in SUBSET Consumer
    PROVE  New(live, subs) \in PeerSession /\ Sound(New(live, subs))
<1>1. Off \in Deadlines
    BY DeadlineFacts
<1> QED
    BY <1>1 DEF New, PeerSession, State, Sound, Watching

\* A session that falls is well formed and Down.
LEMMA Falls ==
    ASSUME NEW s \in PeerSession
    PROVE  /\ Fall(s) \in PeerSession /\ Sound(Fall(s))
           /\ Fall(s).state = "Down"
           /\ Fall(s).subscribers = s.subscribers /\ Fall(s).live = s.live
           /\ [Fall(s) EXCEPT !.echo_rx = Off] \in PeerSession
           /\ Sound([Fall(s) EXCEPT !.echo_rx = Off])
           /\ [Fall(s) EXCEPT !.echo_rx = Off].state = "Down"
           /\ [Fall(s) EXCEPT !.echo_rx = Off].subscribers = s.subscribers
<1>1. Off \in Deadlines
    BY DeadlineFacts
<1> QED
    BY <1>1 DEF Fall, PeerSession, State, Sound, Watching

\* The passes of the service keep a session well formed and its subscribers, and
\* change its state only by letting it fall.
LEMMA Passes ==
    ASSUME NEW e \in End, NEW s \in PeerSession, Sound(s)
    PROVE  /\ Detect(s) \in PeerSession /\ Sound(Detect(s))
           /\ Transmit(e, s) \in PeerSession /\ Sound(Transmit(e, s))
           /\ ServiceEcho(e, s) \in PeerSession /\ Sound(ServiceEcho(e, s))
           /\ Detect(s).subscribers = s.subscribers
           /\ Transmit(e, s).subscribers = s.subscribers
           /\ ServiceEcho(e, s).subscribers = s.subscribers
           /\ Detect(s).state \in {s.state, "Down"}
           /\ Transmit(e, s).state = s.state
           /\ ServiceEcho(e, s).state \in {s.state, "Down"}
<1>1. Detect(s) \in PeerSession /\ Sound(Detect(s)) /\ Detect(s).subscribers = s.subscribers
      /\ Detect(s).state \in {s.state, "Down"}
    BY Falls DEF Detect
<1>2. Transmit(e, s) \in PeerSession /\ Sound(Transmit(e, s))
      /\ Transmit(e, s).subscribers = s.subscribers /\ Transmit(e, s).state = s.state
  <2>1. TransmitInterval(e, s) \in Nat
    BY Intervals
  <2> DEFINE i == TransmitInterval(e, s)
  <2>2. [s EXCEPT !.next_tx = i] \in PeerSession
        /\ Sound([s EXCEPT !.next_tx = i])
        /\ [s EXCEPT !.next_tx = i].subscribers = s.subscribers
        /\ [s EXCEPT !.next_tx = i].state = s.state
    <3> HIDE DEF i
    <3> QED
        BY <2>1 DEF PeerSession, Sound, Watching, i
  <2> QED
    BY <2>2 DEF Transmit
<1>3. ServiceEcho(e, s) \in PeerSession /\ Sound(ServiceEcho(e, s))
      /\ ServiceEcho(e, s).subscribers = s.subscribers
      /\ ServiceEcho(e, s).state \in {s.state, "Down"}
  <2>1. ECHO[e] \in Nat /\ Off \in Deadlines
    BY Settings, DeadlineFacts
  <2>2. [s EXCEPT !.echo_tx = ECHO[e]] \in PeerSession
        /\ Sound([s EXCEPT !.echo_tx = ECHO[e]])
        /\ [s EXCEPT !.echo_tx = ECHO[e]].subscribers = s.subscribers
        /\ [s EXCEPT !.echo_tx = ECHO[e]].state = s.state
    BY <2>1 DEF PeerSession, Sound, Watching
  <2>3. [s EXCEPT !.echo_rx = Off] \in PeerSession
        /\ Sound([s EXCEPT !.echo_rx = Off])
        /\ [s EXCEPT !.echo_rx = Off].subscribers = s.subscribers
        /\ [s EXCEPT !.echo_rx = Off].state = s.state
    BY <2>1 DEF PeerSession, Sound, Watching
  <2>4. CASE EchoFails(e, s)
    <3>1. ServiceEcho(e, s) = [Fall(s) EXCEPT !.echo_rx = Off]
        BY <2>4 DEF ServiceEcho, EchoFails, EchoSends
    <3> QED
        BY <3>1, Falls
  <2>5. CASE EchoSends(e, s)
    <3>1. ServiceEcho(e, s) = [s EXCEPT !.echo_tx = ECHO[e]]
        BY <2>5 DEF ServiceEcho, EchoFails, EchoSends
    <3> QED
        BY <3>1, <2>2
  <2>6. CASE ~EchoFails(e, s) /\ ~EchoSends(e, s)
    <3>1. ServiceEcho(e, s) \in {s, [s EXCEPT !.echo_rx = Off]}
        BY <2>6 DEF ServiceEcho
    <3> QED
        BY <3>1, <2>3
  <2> QED
    BY <2>4, <2>5, <2>6
<1> QED
    BY <1>1, <1>2, <1>3

\* A received packet leaves a well-formed session; an Up session stays Up or falls.
LEMMA Received ==
    ASSUME NEW e \in End, NEW s \in PeerSession, NEW pkt \in ControlPacket, s.live
    PROVE  /\ OnPacket(e, s, pkt) \in PeerSession /\ Sound(OnPacket(e, s, pkt))
           /\ OnPacket(e, s, pkt).subscribers = s.subscribers
           /\ s.state = "Up" => OnPacket(e, s, pkt).state \in {"Up", "Down"}
<1> DEFINE to == Reception(s.state, pkt.state)
           n  == IF to = s.state THEN s.next_tx ELSE 0
           k  == ~(s.state = "Up" /\ to = "Down")
           t  == [s EXCEPT !.state = to, !.discr = k,
                           !.desired = pkt.desired, !.rx = pkt.rx, !.mult = pkt.mult,
                           !.next_tx = n]
<1>1. s.state \in State /\ pkt.state \in State
    BY DEF PeerSession, ControlPacket
<1>2. /\ to \in State
      /\ s.state = "Up" => to \in {"Up", "Down"}
      /\ to \in {"Init", "Up"} => k = TRUE
    BY <1>1 DEF Reception, State
<1>3. n \in Nat /\ k \in BOOLEAN
    BY DEF PeerSession
<1>4. t \in PeerSession /\ t.state = to /\ t.live = s.live /\ t.discr = k
      /\ t.subscribers = s.subscribers
  <2> HIDE DEF to, n, k
  <2> QED
    BY <1>2, <1>3 DEF PeerSession, ControlPacket, t
<1>5. DetectionTime(e, t) \in Nat
  <2> HIDE DEF t
  <2> QED
    BY <1>4, Intervals
<1>6. DetectionTime(e, t) \in Deadlines /\ DetectionTime(e, t) # Off
    BY <1>5, DeadlineFacts
<1>7. OnPacket(e, s, pkt) = [t EXCEPT !.detect = DetectionTime(e, t)]
    BY DEF OnPacket
<1> DEFINE d == DetectionTime(e, t)
<1> HIDE DEF t, to, k, n, d
<1>8. [t EXCEPT !.detect = d] \in PeerSession
      /\ [t EXCEPT !.detect = d].state = to
      /\ [t EXCEPT !.detect = d].discr = k
      /\ [t EXCEPT !.detect = d].live = s.live
      /\ [t EXCEPT !.detect = d].detect = d
      /\ [t EXCEPT !.detect = d].subscribers = s.subscribers
    BY <1>4, <1>6 DEF PeerSession, d
<1> QED
    BY <1>2, <1>6, <1>7, <1>8 DEF Sound, Watching, d

\* A command leaves a well-formed session; a session it does not remove keeps its state.
LEMMA Handled ==
    ASSUME NEW s \in PeerSession, NEW cmd \in Command, Sound(s)
    PROVE  /\ Handle(s, cmd) \in PeerSession /\ Sound(Handle(s, cmd))
           /\ s.state = "Up" => Handle(s, cmd).state \in {"Up", "Down"}
<1>1. cmd.consumer \in Consumer
    BY DEF Command
<1>2. /\ New(TRUE, {cmd.consumer}) \in PeerSession /\ Sound(New(TRUE, {cmd.consumer}))
      /\ New(FALSE, {}) \in PeerSession /\ Sound(New(FALSE, {}))
    BY <1>1, NewSession
<1>3. ASSUME NEW subs \in SUBSET Consumer
      PROVE  /\ [s EXCEPT !.subscribers = subs] \in PeerSession
             /\ Sound([s EXCEPT !.subscribers = subs])
             /\ [s EXCEPT !.subscribers = subs].state = s.state
    BY DEF PeerSession, Sound, Watching
<1>4. s.subscribers \cup {cmd.consumer} \in SUBSET Consumer
      /\ s.subscribers \ {cmd.consumer} \in SUBSET Consumer
    BY <1>1 DEF PeerSession
<1>5. New(TRUE, {cmd.consumer}).state = "Down" /\ New(FALSE, {}).state = "Down"
    BY DEF New
<1>6. Handle(s, cmd) \in {New(TRUE, {cmd.consumer}), New(FALSE, {}),
                          [s EXCEPT !.subscribers = s.subscribers \cup {cmd.consumer}],
                          [s EXCEPT !.subscribers = s.subscribers \ {cmd.consumer}]}
    BY DEF Handle
<1> QED
    BY <1>2, <1>3, <1>4, <1>5, <1>6

\* A notification is added where there is room, and none is ever taken away.
LEMMA Notified ==
    ASSUME TypeOK, NEW e \in End, NEW told \in SUBSET Consumer
    PROVE  /\ NotifyDown(e, told) \in [Consumer -> 0 .. QUEUE]
           /\ \A c \in Consumer : notes[e][c] > 0 => NotifyDown(e, told)[c] > 0
           /\ \A c \in told \ respawned[e] : NotifyDown(e, told)[c] > 0
<1>1. QUEUE \in Nat /\ QUEUE > 0
    BY Settings
<1>2. \A c \in Consumer : notes[e][c] \in 0 .. QUEUE
    BY DEF TypeOK
<1>3. ASSUME NEW c \in Consumer
      PROVE  /\ NotifyDown(e, told)[c] \in 0 .. QUEUE
             /\ notes[e][c] > 0 => NotifyDown(e, told)[c] > 0
             /\ c \in told \ respawned[e] => NotifyDown(e, told)[c] > 0
  <2>1. NotifyDown(e, told)[c] = IF c \in told \ respawned[e] /\ notes[e][c] < QUEUE
                                   THEN notes[e][c] + 1 ELSE notes[e][c]
    BY DEF NotifyDown
  <2> QED
    BY <1>1, <1>2, <2>1
<1>4. NotifyDown(e, told) \in [Consumer -> 0 .. QUEUE]
  <2>1. NotifyDown(e, told) = [c \in Consumer |-> NotifyDown(e, told)[c]]
    BY DEF NotifyDown
  <2> QED
    BY <1>3, <2>1
<1> QED
    BY <1>3, <1>4

\* The two passes after an arm that left the session t: the session stays well formed,
\* and if it was Up before the arm and is not after the passes, its riders are told.
LEMMA Service ==
    ASSUME BfdInv, NEW e \in End, NEW t \in PeerSession, NEW echo \in BOOLEAN,
           Sound(t), session[e].state = "Up" => t.state \in {"Up", "Down"},
           Serviced(e, t, echo)
    PROVE  /\ session' \in [End -> PeerSession] /\ notes' \in [End -> [Consumer -> 0 .. QUEUE]]
           /\ looping' \in [End -> BOOLEAN] /\ riding' \in [End -> SUBSET Consumer]
           /\ Watched' /\ FallReported'
<1> DEFINE d == Detect(t)
           x == Transmit(e, d)
           v == ServiceEcho(e, x)
           told == Told(e, t)
<1>1. d \in PeerSession /\ Sound(d) /\ d.subscribers = t.subscribers
      /\ d.state \in {t.state, "Down"}
    BY Passes
<1>2. x \in PeerSession /\ Sound(x) /\ x.subscribers = t.subscribers /\ x.state = d.state
    BY <1>1, Passes
<1>3. v \in PeerSession /\ Sound(v) /\ v.subscribers = t.subscribers
      /\ v.state \in {x.state, "Down"}
  <2> HIDE DEF x
  <2> QED
    BY <1>2, Passes
<1>4. told \in SUBSET Consumer
    BY DEF Told, PeerSession
<1>5. session[e] \in PeerSession /\ Sound(session[e])
    BY DEF BfdInv, TypeOK, Watched, Sound
<1>6. (session[e].state = "Up" /\ v.state # "Up") => told = t.subscribers
  <2> SUFFICES ASSUME session[e].state = "Up", v.state # "Up"
               PROVE  Fell(session[e], t) \/ Fell(t, d) \/ Fell(x, v)
    BY DEF Told
  <2>1. session[e].live
    BY <1>5 DEF Sound, Watching
  <2>2. CASE t.state = "Down"
    BY <2>1, <2>2 DEF Fell
  <2>3. CASE t.state = "Up"
    <3>1. t.live /\ (d.state = "Up" => d.live) /\ (x.state = "Up" => x.live)
        BY <2>3, <1>1, <1>2 DEF Sound, Watching
    <3> HIDE DEF d, x, v
    <3> QED
        BY <2>3, <3>1, <1>1, <1>2, <1>3 DEF Fell
  <2> QED
    BY <2>2, <2>3
<1>7. /\ session' = [session EXCEPT ![e] = v]
      /\ notes' = [notes EXCEPT ![e] = NotifyDown(e, told)]
      /\ \E b \in BOOLEAN : looping' = [looping EXCEPT ![e] = b]
      /\ riding' = [riding EXCEPT ![e] = {c \in adjacent[e] \cap v.subscribers :
                                            v.state = "Up" \/ c \in riding[e]}]
      /\ respawned' = respawned
  <2>1. EchoSends(e, x) \/ echo \in BOOLEAN
    OBVIOUS
  <2> QED
    BY <2>1 DEF Serviced
<1> HIDE DEF d, x, v, told
<1>8. session' \in [End -> PeerSession] /\ looping' \in [End -> BOOLEAN]
    BY <1>3, <1>7 DEF BfdInv, TypeOK
<1>9. notes' \in [End -> [Consumer -> 0 .. QUEUE]]
    BY <1>4, <1>7, Notified, Zenon DEF BfdInv, TypeOK
<1>10. riding' \in [End -> SUBSET Consumer]
  <2>1. {c \in adjacent[e] \cap v.subscribers : v.state = "Up" \/ c \in riding[e]}
          \in SUBSET Consumer
    BY DEF BfdInv, TypeOK
  <2> QED
    BY <2>1, <1>7 DEF BfdInv, TypeOK
<1>11. Watched'
    BY <1>3, <1>7 DEF BfdInv, TypeOK, Watched, Sound, Watching
<1>12. FallReported'
  <2> SUFFICES ASSUME NEW f \in End, NEW c \in Consumer \ respawned[f]
               PROVE  ~RidesSilence(f, c)'
    BY <1>7 DEF FallReported
  <2>1. CASE f # e
    <3>1. session'[f] = session[f] /\ notes'[f] = notes[f] /\ riding'[f] = riding[f]
        BY <2>1, <1>7 DEF BfdInv, TypeOK
    <3> QED
        BY <3>1 DEF BfdInv, FallReported, RidesSilence
  <2>2. CASE f = e
    <3>1. session'[e] = v /\ notes'[e] = NotifyDown(e, told)
          /\ (c \in riding'[e] => c \in v.subscribers /\ (v.state = "Up" \/ c \in riding[e]))
        BY <1>7 DEF BfdInv, TypeOK
    <3> SUFFICES ASSUME c \in riding'[e], v.state # "Up"
                 PROVE  notes'[e][c] # 0
        BY <2>2, <3>1 DEF RidesSilence
    <3>2. CASE session[e].state = "Up"
        BY <2>2, <3>1, <3>2, <1>3, <1>4, <1>6, Notified DEF BfdInv
    <3>3. CASE session[e].state # "Up"
      <4>1. notes[e][c] # 0
        BY <2>2, <3>1, <3>3 DEF BfdInv, FallReported, RidesSilence
      <4>2. notes[e][c] > 0
        BY <4>1, Settings DEF BfdInv, TypeOK
      <4> QED
        BY <4>2, <3>1, <1>4, Notified DEF BfdInv
    <3> QED
        BY <3>2, <3>3
  <2> QED
    BY <2>1, <2>2
<1> QED
    BY <1>8, <1>9, <1>10, <1>11, <1>12

\* The packets a serviced session sends keep the link within its bound.
LEMMA Sending ==
    ASSUME NEW e \in End, NEW t \in PeerSession, Sound(t),
           NEW w \in [End -> Seq(ControlPacket)], \A f \in End : Len(w[f]) <= WIRE,
           NEW m \in [End -> Nat], Sends(e, t, w, m)
    PROVE  /\ wire' \in [End -> Seq(ControlPacket)]
           /\ \A f \in End : Len(wire'[f]) <= WIRE
           /\ missed' \in [End -> Nat]
<1> DEFINE p == Peer[e]
           k == BuildControl(e, Detect(t))
<1>1. p \in End /\ WIRE \in Nat /\ RX[e] \in Nat /\ MULT[e] \in Nat /\ MULT[Peer[p]] \in Nat
    BY Settings
<1>2. k \in ControlPacket
  <2>1. Detect(t) \in PeerSession
    BY Passes
  <2>2. EffectiveDesired(e, Detect(t)) \in Nat
    BY <2>1, Intervals
  <2> QED
    BY <1>1, <2>1, <2>2 DEF BuildControl, ControlPacket, PeerSession
<1>3. Sent(e, t) \in {<<>>, <<k>>}
    BY DEF Sent
<1> HIDE DEF p, k
<1>4. /\ w[p] \o Sent(e, t) \in Seq(ControlPacket)
      /\ Len(w[p] \o Sent(e, t)) <= Len(w[p]) + 1
  <2>1. CASE Sent(e, t) = <<>>
    BY <1>1, <2>1
  <2>2. CASE Sent(e, t) = <<k>>
    <3>1. <<k>> \in Seq(ControlPacket) /\ Len(<<k>>) = 1
        BY <1>2
    <3>2. w[p] \in Seq(ControlPacket)
        BY <1>1
    <3> QED
        BY <2>2, <3>1, <3>2
  <2> QED
    BY <1>3, <2>1, <2>2
<1>5. wire' = IF Carries(p, w) THEN [w EXCEPT ![p] = w[p] \o Sent(e, t)] ELSE w
    BY DEF Sends, p
<1>6. wire' \in [End -> Seq(ControlPacket)]
    BY <1>1, <1>4, <1>5
<1>7. \A f \in End : Len(wire'[f]) <= WIRE
  <2>1. CASE Carries(p, w)
    <3>1. Len(w[p]) < WIRE /\ Len(w[p]) \in Nat
        BY <2>1, <1>1 DEF Carries
    <3>2. Len(w[p] \o Sent(e, t)) <= WIRE
      <4>1. Len(w[p] \o Sent(e, t)) \in Nat
        BY <1>4
      <4> QED
        BY <4>1, <3>1, <1>1, <1>4
    <3>3. wire' = [w EXCEPT ![p] = w[p] \o Sent(e, t)]
        BY <2>1, <1>5
    <3> QED
        BY <3>2, <3>3, <1>1
  <2> QED
    BY <2>1, <1>5
<1>8. \E n \in Nat : missed' \in {m, [m EXCEPT ![p] = n]}
  <2>1. m[p] \in Nat
    BY <1>1
  <2>2. Lost(p, m[p]) \in Nat
    BY <1>1, <2>1 DEF Lost
  <2>3. missed' \in {m, [m EXCEPT ![p] = Lost(p, m[p])]}
    BY DEF Sends, p
  <2> QED
    BY <2>2, <2>3
<1> QED
    BY <1>1, <1>6, <1>7, <1>8

\* The start of the daemon.
LEMMA Starts == Init => BfdInv
<1> SUFFICES ASSUME Init PROVE BfdInv
    OBVIOUS
<1>1. New(FALSE, {}) \in PeerSession /\ Sound(New(FALSE, {})) /\ QUEUE \in Nat
      /\ New(FALSE, {}).state = "Down"
    BY NewSession, TimingAssumption DEF New
<1>2. ASSUME NEW e \in End
      PROVE  commands[e] \in Seq(Command) /\ Len(commands[e]) <= COMMANDS
  <2>1. REGISTERED[e] \in Seq(Consumer) /\ Len(REGISTERED[e]) <= COMMANDS
    BY LinkAssumption, Zenon
  <2> DEFINE q == [i \in 1 .. Len(REGISTERED[e]) |->
                     [op |-> "Register", consumer |-> REGISTERED[e][i]]]
  <2>2. DOMAIN REGISTERED[e] = 1 .. Len(REGISTERED[e]) /\ Len(REGISTERED[e]) \in Nat
    BY <2>1
  <2>3. commands[e] = q
    BY <2>2 DEF Init
  <2>4. \A i \in 1 .. Len(REGISTERED[e]) : REGISTERED[e][i] \in Consumer
    BY <2>1
  <2>5. q \in Seq(Command) /\ Len(q) = Len(REGISTERED[e])
    BY <2>2, <2>4 DEF Command
  <2> QED
    BY <2>1, <2>3, <2>5
<1>3. commands \in [End -> Seq(Command)]
  <2>1. commands = [e \in End |-> commands[e]]
    BY DEF Init
  <2> QED
    BY <1>2, <2>1
<1>4. TypeOK
  <2>1. session \in [End -> PeerSession]
    BY <1>1 DEF Init
  <2>2. wire \in [End -> Seq(ControlPacket)] /\ \A e \in End : Len(wire[e]) <= WIRE
    BY TimingAssumption DEF Init
  <2>3. notes \in [End -> [Consumer -> 0 .. QUEUE]]
    BY <1>1 DEF Init
  <2>4. looping \in [End -> BOOLEAN] /\ link \in [End -> BOOLEAN]
        /\ adjacent \in [End -> SUBSET Consumer] /\ respawned \in [End -> SUBSET Consumer]
        /\ missed \in [End -> Nat] /\ riding \in [End -> SUBSET Consumer]
    BY DEF Init
  <2> QED
    BY <1>2, <1>3, <2>1, <2>2, <2>3, <2>4 DEF TypeOK
<1>5. Watched
    BY <1>1 DEF Init, Watched, Sound
<1>6. FallReported
    BY DEF Init, FallReported, RidesSilence
<1> QED
    BY <1>4, <1>5, <1>6 DEF BfdInv

\* A consumer's queue command fits in the channel.
LEMMA Reconciled ==
    ASSUME TypeOK, NEW e \in End, NEW c \in Consumer,
           NEW op \in {"Register", "Deregister"},
           Reconcile(e, c, op) \/ UNCHANGED commands
    PROVE  /\ commands' \in [End -> Seq(Command)]
           /\ \A f \in End : Len(commands'[f]) <= COMMANDS
<1>1. CASE UNCHANGED commands
    BY <1>1 DEF TypeOK
<1>2. CASE Reconcile(e, c, op) /\ c \notin Static(e)
  <2> DEFINE q == Append(commands[e], [op |-> op, consumer |-> c])
  <2>1. Len(commands[e]) < COMMANDS /\ commands' = [commands EXCEPT ![e] = q]
    BY <1>2 DEF Reconcile
  <2>2. commands[e] \in Seq(Command) /\ [op |-> op, consumer |-> c] \in Command
    BY DEF TypeOK, Command
  <2>3. q \in Seq(Command) /\ Len(q) = Len(commands[e]) + 1
    BY <2>2
  <2> HIDE DEF q
  <2>4. Len(q) <= COMMANDS
    <3>1. COMMANDS \in Nat /\ Len(commands[e]) \in Nat
        BY <2>2, Settings
    <3> QED
        BY <3>1, <2>1, <2>3
  <2> QED
    BY <2>1, <2>3, <2>4 DEF TypeOK
<1>3. CASE Reconcile(e, c, op) /\ c \in Static(e)
    BY <1>1, <1>3 DEF Reconcile
<1> QED
    BY <1>1, <1>2, <1>3

\* A step of the run loop: an arm that left the session t, then the passes.
LEMMA Arm ==
    ASSUME BfdInv, NEW e \in End, NEW t \in PeerSession, NEW echo \in BOOLEAN,
           Sound(t), session[e].state = "Up" => t.state \in {"Up", "Down"},
           NEW w \in [End -> Seq(ControlPacket)], \A f \in End : Len(w[f]) <= WIRE,
           NEW m \in [End -> Nat],
           Serviced(e, t, echo), Sends(e, t, w, m),
           commands' \in [End -> Seq(Command)],
           \A f \in End : Len(commands'[f]) <= COMMANDS
    PROVE  BfdInv'
<1>1. /\ session' \in [End -> PeerSession] /\ notes' \in [End -> [Consumer -> 0 .. QUEUE]]
      /\ looping' \in [End -> BOOLEAN] /\ riding' \in [End -> SUBSET Consumer]
      /\ Watched' /\ FallReported'
    BY Service
<1>2. /\ wire' \in [End -> Seq(ControlPacket)]
      /\ \A f \in End : Len(wire'[f]) <= WIRE
      /\ missed' \in [End -> Nat]
    BY Sending
<1>3. link' \in [End -> BOOLEAN] /\ adjacent' \in [End -> SUBSET Consumer]
      /\ respawned' \in [End -> SUBSET Consumer]
    BY DEF Serviced, BfdInv, TypeOK
<1> QED
    BY <1>1, <1>2, <1>3 DEF BfdInv, TypeOK

\* Every step keeps the invariant.
LEMMA Steps == BfdInv /\ [Next]_vars => BfdInv'
<1> SUFFICES ASSUME BfdInv, [Next]_vars
             PROVE  BfdInv'
    OBVIOUS
<1>1. ASSUME NEW e \in End
      PROVE  /\ session[e] \in PeerSession /\ Sound(session[e]) /\ looping[e] \in BOOLEAN
             /\ session[e].state = "Up" => session[e].state \in {"Up", "Down"}
    BY DEF BfdInv, TypeOK, Watched, Sound
<1>2. /\ wire \in [End -> Seq(ControlPacket)] /\ \A f \in End : Len(wire[f]) <= WIRE
      /\ missed \in [End -> Nat]
      /\ commands \in [End -> Seq(Command)]
      /\ \A f \in End : Len(commands[f]) <= COMMANDS
    BY DEF BfdInv, TypeOK
<1>3. ASSUME NEW e \in End, Timer(e)
      PROVE  BfdInv'
    BY <1>1, <1>2, <1>3, Arm DEF Timer
<1>4. ASSUME NEW e \in End, Receive(e)
      PROVE  BfdInv'
  <2> DEFINE s == session[e]
             k == Head(wire[e])
             t == IF s.live /\ Decodes(k) THEN OnPacket(e, s, k) ELSE s
             w == [wire EXCEPT ![e] = Tail(@)]
             m == [missed EXCEPT ![e] = 0]
  <2>1. Serviced(e, t, looping[e]) /\ Sends(e, t, w, m) /\ commands' = commands
        /\ wire[e] # <<>>
    BY <1>4 DEF Receive
  <2>2. wire[e] \in Seq(ControlPacket) /\ Len(wire[e]) <= WIRE
    BY <1>2
  <2>3. k \in ControlPacket /\ Tail(wire[e]) \in Seq(ControlPacket)
        /\ Len(Tail(wire[e])) <= WIRE
    BY <2>1, <2>2, Settings
  <2>4. t \in PeerSession /\ Sound(t) /\ (s.state = "Up" => t.state \in {"Up", "Down"})
    BY <1>1, <2>3, Received
  <2>5. w \in [End -> Seq(ControlPacket)] /\ \A f \in End : Len(w[f]) <= WIRE
    BY <1>2, <2>3
  <2>6. m \in [End -> Nat]
    BY <1>2
  <2> HIDE DEF t, w, m
  <2> QED
    BY <1>1, <1>2, <2>1, <2>4, <2>5, <2>6, Arm
<1>5. ASSUME NEW e \in End, EchoReturn(e)
      PROVE  BfdInv'
  <2> DEFINE r == ECHO[e] * MULT[e]
             t == [session[e] EXCEPT !.echo_rx = r]
  <2>1. Serviced(e, t, FALSE) /\ Sends(e, t, wire, missed) /\ commands' = commands
    BY <1>5 DEF EchoReturn
  <2>2. r \in Deadlines
    BY <1>1, Intervals, DeadlineFacts
  <2> HIDE DEF r
  <2>3. t \in PeerSession /\ Sound(t) /\ t.state = session[e].state
    BY <1>1, <2>2 DEF PeerSession, Sound, Watching
  <2> HIDE DEF t
  <2> QED
    BY <1>1, <1>2, <2>1, <2>3, Arm
<1>6. ASSUME NEW e \in End, HandleCommand(e)
      PROVE  BfdInv'
  <2> DEFINE cmd == Head(commands[e])
             t == Handle(session[e], cmd)
  <2>1. /\ Serviced(e, t, t.live /\ looping[e]) /\ Sends(e, t, wire, missed)
        /\ commands[e] # <<>> /\ commands' = [commands EXCEPT ![e] = Tail(commands[e])]
    BY <1>6 DEF HandleCommand
  <2>2. commands[e] \in Seq(Command) /\ Len(commands[e]) <= COMMANDS
    BY <1>2
  <2>3. cmd \in Command /\ Tail(commands[e]) \in Seq(Command)
        /\ Len(Tail(commands[e])) <= COMMANDS
    BY <2>1, <2>2, Settings
  <2>4. t \in PeerSession /\ Sound(t)
        /\ (session[e].state = "Up" => t.state \in {"Up", "Down"})
    BY <1>1, <2>3, Handled
  <2>5. commands' \in [End -> Seq(Command)] /\ \A f \in End : Len(commands'[f]) <= COMMANDS
    BY <1>2, <2>1, <2>3
  <2>6. (t.live /\ looping[e]) \in BOOLEAN
    OBVIOUS
  <2> HIDE DEF t
  <2> QED
    BY <1>1, <1>2, <2>1, <2>4, <2>5, <2>6, Arm
<1>7. ASSUME NEW e \in End, NEW c \in Consumer, AdjacencyUp(e, c)
      PROVE  BfdInv'
  <2> DEFINE r == IF session[e].state = "Up" /\ c \in session[e].subscribers
                    THEN riding[e] \cup {c} ELSE riding[e]
  <2>1. commands' \in [End -> Seq(Command)] /\ \A f \in End : Len(commands'[f]) <= COMMANDS
    BY <1>7, Reconciled DEF AdjacencyUp, BfdInv
  <2>2. r \in SUBSET Consumer /\ riding' = [riding EXCEPT ![e] = r]
        /\ adjacent' = [adjacent EXCEPT ![e] = adjacent[e] \cup {c}]
        /\ adjacent[e] \cup {c} \in SUBSET Consumer
        /\ UNCHANGED <<session, wire, looping, link, notes, respawned, missed>>
    BY <1>7 DEF AdjacencyUp, BfdInv, TypeOK
  <2>3. \A d \in r : session[e].state = "Up" \/ d \in riding[e]
    OBVIOUS
  <2> HIDE DEF r
  <2>4. TypeOK'
    BY <2>1, <2>2 DEF BfdInv, TypeOK
  <2>5. Watched'
    BY <2>2 DEF BfdInv, Watched
  <2>6. FallReported'
    BY <2>2, <2>3 DEF BfdInv, TypeOK, FallReported, RidesSilence
  <2> QED
    BY <2>4, <2>5, <2>6 DEF BfdInv
<1>8. ASSUME NEW e \in End, NEW c \in Consumer, Drop(e, c),
             \/ UNCHANGED notes
             \/ notes[e][c] > 0 /\ notes' = [notes EXCEPT ![e][c] = @ - 1]
      PROVE  BfdInv'
  <2>1. commands' \in [End -> Seq(Command)] /\ \A f \in End : Len(commands'[f]) <= COMMANDS
    BY <1>8, Reconciled DEF Drop, BfdInv
  <2>2. /\ riding' = [riding EXCEPT ![e] = riding[e] \ {c}]
        /\ adjacent' = [adjacent EXCEPT ![e] = adjacent[e] \ {c}]
        /\ riding[e] \ {c} \in SUBSET Consumer /\ adjacent[e] \ {c} \in SUBSET Consumer
        /\ UNCHANGED <<session, wire, looping, link, respawned, missed>>
    BY <1>8 DEF Drop, BfdInv, TypeOK
  <2>3. /\ notes' \in [End -> [Consumer -> 0 .. QUEUE]]
        /\ \A f \in End, d \in Consumer : (f = e /\ d = c) \/ notes'[f][d] = notes[f][d]
    <3>1. notes \in [End -> [Consumer -> 0 .. QUEUE]] /\ QUEUE \in Nat
        BY Settings DEF BfdInv, TypeOK
    <3>2. CASE notes[e][c] > 0 /\ notes' = [notes EXCEPT ![e][c] = @ - 1]
      <4>1. notes[e][c] - 1 \in 0 .. QUEUE
        BY <3>1, <3>2
      <4> DEFINE n == notes[e][c] - 1
      <4>2. notes' = [notes EXCEPT ![e] = [notes[e] EXCEPT ![c] = n]]
        BY <3>1, <3>2
      <4> HIDE DEF n
      <4>3. [notes[e] EXCEPT ![c] = n] \in [Consumer -> 0 .. QUEUE]
        BY <3>1, <4>1 DEF n
      <4> QED
        BY <3>1, <4>2, <4>3
    <3> QED
        BY <1>8, <3>1, <3>2
  <2>4. TypeOK'
    BY <2>1, <2>2, <2>3 DEF BfdInv, TypeOK
  <2>5. Watched'
    BY <2>2 DEF BfdInv, Watched
  <2>6. FallReported'
    BY <2>2, <2>3 DEF BfdInv, TypeOK, FallReported, RidesSilence
  <2> QED
    BY <2>4, <2>5, <2>6 DEF BfdInv
<1>9. ASSUME NEW e \in End, NEW c \in Consumer, Respawn(e, c)
      PROVE  BfdInv'
  <2>1. /\ riding' = [riding EXCEPT ![e] = riding[e] \ {c}]
        /\ adjacent' = [adjacent EXCEPT ![e] = adjacent[e] \ {c}]
        /\ respawned' = [respawned EXCEPT ![e] = respawned[e] \cup {c}]
        /\ riding[e] \ {c} \in SUBSET Consumer /\ adjacent[e] \ {c} \in SUBSET Consumer
        /\ respawned[e] \cup {c} \in SUBSET Consumer
        /\ UNCHANGED <<session, wire, looping, link, commands, missed>>
    BY <1>9 DEF Respawn, BfdInv, TypeOK
  <2>2. /\ notes' \in [End -> [Consumer -> 0 .. QUEUE]]
        /\ \A f \in End, d \in Consumer : (f = e /\ d = c) \/ notes'[f][d] = notes[f][d]
    <3>1. notes \in [End -> [Consumer -> 0 .. QUEUE]] /\ 0 \in 0 .. QUEUE
      <4>1. QUEUE \in Nat
        BY Settings
      <4>2. 0 \in 0 .. QUEUE
        BY <4>1
      <4> QED
        BY <4>2 DEF BfdInv, TypeOK
    <3>2. notes' = [notes EXCEPT ![e] = [notes[e] EXCEPT ![c] = 0]]
        BY <1>9 DEF Respawn
    <3>3. [notes[e] EXCEPT ![c] = 0] \in [Consumer -> 0 .. QUEUE]
        BY <3>1
    <3> QED
        BY <3>1, <3>2, <3>3
  <2>3. TypeOK'
    BY <2>1, <2>2 DEF BfdInv, TypeOK
  <2>4. Watched'
    BY <2>1 DEF BfdInv, Watched
  <2>5. FallReported'
    BY <2>1, <2>2 DEF BfdInv, TypeOK, FallReported, RidesSilence
  <2> QED
    BY <2>3, <2>4, <2>5 DEF BfdInv
<1>10. ASSUME NEW e \in End, Lose(e)
       PROVE  BfdInv'
  <2>1. wire[e] \in Seq(ControlPacket) /\ wire[e] # <<>> /\ Len(wire[e]) <= WIRE
    BY <1>2, <1>10 DEF Lose
  <2>2. Tail(wire[e]) \in Seq(ControlPacket) /\ Len(Tail(wire[e])) <= WIRE
    <3>1. WIRE \in Nat /\ Len(wire[e]) \in Nat
        BY <2>1, Settings
    <3>2. Tail(wire[e]) \in Seq(ControlPacket) /\ Len(Tail(wire[e])) = Len(wire[e]) - 1
        BY <2>1
    <3> QED
        BY <2>1, <3>1, <3>2
  <2>3. Lost(e, missed[e]) \in Nat
    BY <1>2 DEF Lost
  <2>4. /\ wire' = [wire EXCEPT ![e] = Tail(wire[e])]
        /\ missed' = [missed EXCEPT ![e] = Lost(e, missed[e])]
        /\ UNCHANGED <<session, looping, link, commands, notes, adjacent, respawned, riding>>
    BY <1>10 DEF Lose
  <2>5. TypeOK'
    BY <2>2, <2>3, <2>4 DEF BfdInv, TypeOK
  <2> QED
    BY <2>4, <2>5 DEF BfdInv, Watched, FallReported, RidesSilence
<1>11. ASSUME NEW e \in End, LoseEcho(e) \/ Toggle(e)
       PROVE  BfdInv'
    BY <1>11 DEF LoseEcho, Toggle, BfdInv, TypeOK, Watched, FallReported, RidesSilence
<1>12. CASE Tick
  <2>1. ASSUME NEW e \in End
        PROVE  /\ session'[e] \in PeerSession /\ Sound(session'[e])
               /\ session'[e].state = session[e].state
    <3> DEFINE s == session[e]
               n == Less(s.next_tx)   d == Less(s.detect)
               x == Less(s.echo_tx)   r == Less(s.echo_rx)
    <3>1. s \in PeerSession /\ Sound(s)
        BY <1>1, <2>1
    <3>2. n \in Nat /\ x \in Nat /\ d \in Deadlines /\ r \in Deadlines
          /\ (d = Off <=> s.detect = Off)
        BY <3>1, DeadlineFacts DEF PeerSession
    <3>3. session'[e] = [s EXCEPT !.next_tx = n, !.detect = d, !.echo_tx = x, !.echo_rx = r]
        BY <1>12, <2>1 DEF Tick
    <3> DEFINE u == [s EXCEPT !.next_tx = n, !.detect = d, !.echo_tx = x, !.echo_rx = r]
    <3> HIDE DEF s, n, d, x, r
    <3>4. u \in PeerSession
        BY <3>1, <3>2 DEF PeerSession
    <3>5. u.state = s.state /\ u.live = s.live /\ u.discr = s.discr /\ u.detect = d
        BY <3>1 DEF PeerSession
    <3>6. Sound(u)
        BY <3>1, <3>2, <3>5 DEF Sound, Watching
    <3> HIDE DEF u
    <3>7. session'[e] = u
        BY <3>3 DEF u
    <3> QED
        BY <3>4, <3>5, <3>6, <3>7 DEF s
  <2>2. /\ session' = [e \in End |-> session'[e]]
        /\ UNCHANGED <<wire, looping, link, commands, notes, adjacent, respawned,
                       missed, riding>>
    BY <1>12 DEF Tick
  <2>3. session' \in [End -> PeerSession]
    BY <2>1, <2>2
  <2>4. TypeOK'
    BY <2>2, <2>3 DEF BfdInv, TypeOK
  <2>5. Watched'
    BY <2>1 DEF Watched, Sound, Watching
  <2>6. FallReported'
    BY <2>1, <2>2 DEF BfdInv, FallReported, RidesSilence
  <2> QED
    BY <2>4, <2>5, <2>6 DEF BfdInv
<1>13. CASE UNCHANGED vars
    BY <1>13 DEF vars, BfdInv, TypeOK, Watched, FallReported, RidesSilence
<1>14. \A e \in End : USERS[e] \subseteq Consumer
    BY LinkAssumption, Zenon
<1>15. ASSUME NEW e \in End, NEW c \in Consumer, AdjacencyLost(e, c) \/ BfdDown(e, c)
       PROVE  BfdInv'
    BY <1>8, <1>15 DEF AdjacencyLost, BfdDown
<1> QED
    BY <1>3, <1>4, <1>5, <1>6, <1>7, <1>9, <1>10, <1>11, <1>12, <1>13, <1>14, <1>15
    DEF Next

\* The inductive invariant holds in every state.
THEOREM BfdInvariant == Spec => []BfdInv
BY Starts, Steps, PTL DEF Spec

\* Types and the channel bounds, for any intervals, consumers and registrations.
THEOREM BfdTyped == Spec => []TypeOK
<1>1. BfdInv => TypeOK
    BY DEF BfdInv
<1> QED
    BY <1>1, BfdInvariant, PTL

\* session.rs and on_receive: a session that is forming or Up has its detection armed
\* and its neighbour known, whatever is lost, registered, deregistered or restarted.
THEOREM SessionsWatched == Spec => []Watched
<1>1. BfdInv => Watched
    BY DEF BfdInv
<1> QED
    BY <1>1, BfdInvariant, PTL

\* notify_down: everyone who rides on a session that was Up and fell has a notification
\* waiting, unless its engine was respawned.
THEOREM FallsReported == Spec => []FallReported
<1>1. BfdInv => FallReported
    BY DEF BfdInv
<1> QED
    BY <1>1, BfdInvariant, PTL

-----------------------------------------------------------------------------
(* The detection time, for any intervals, multipliers and jitter: it runs out *)
(* on an end that is Up only after as many packets lost in a row as the       *)
(* neighbour's multiplier, as long as the neighbour keeps to its last rate.   *)


\* The rate an end announces and keeps to while it is not Up.
SlowRate(p) == Larger(DESIRED[p], SLOW)

\* The unit of e's detection time, and the most time p leaves between two packets.
Unit(e, s) == Larger(RX[e], s.desired)
Pace(p, s) == Larger(EffectiveDesired(p, s), RX[Peer[p]])

\* The packets p sends, and those it sends while it is Up.
Honest(p) ==
    {pkt \in ControlPacket :
        /\ Decodes(pkt) /\ pkt.mult = MULT[p] /\ pkt.rx = RX[p]
        /\ pkt.desired = IF pkt.state = "Up" THEN DESIRED[p] ELSE SlowRate(p)}
UpPacket == {pkt \in ControlPacket : pkt.state = "Up"}

\* What e has from its neighbour once it has heard of it.
Heard(e, s) ==
    /\ s.rx <= RX[Peer[e]]
    /\ Watching(s) => s.mult = MULT[Peer[e]] /\ s.desired >= DESIRED[Peer[e]]

\* The packets on the link are honest, and no end waits longer than its pace.
RatesInv ==
    /\ BfdInv
    /\ \A e \in End : /\ wire[e] \in Seq(Honest(Peer[e]))
                      /\ Heard(e, session[e])
                      /\ session[e].next_tx < Pace(e, session[e])

\* The packets sent to e since it last heard one: lost, or on the link.
Count(e) == missed[e] + Len(wire[e])

\* The neighbour of e is forming or Up, or will be when it takes a packet on the link.
Engaged(e) == Watching(session[Peer[e]]) \/ wire[Peer[e]] \notin Seq(UpPacket)

Wait(s) == IF Watching(s) THEN s.next_tx ELSE 0

\* As long as fewer packets than the multiplier are missing, the detection time of e
\* outlasts the ones that would make up the number.
Clock(e) ==
    /\ session[e].state = "Up" /\ Engaged(e) /\ Count(e) < MULT[Peer[e]]
    => session[e].detect >
          (MULT[Peer[e]] - 1 - Count(e)) * Unit(e, session[e]) + Wait(session[Peer[e]])

Alarm(e) ==
    /\ session[e].state = "Up" /\ Engaged(e) /\ session[e].detect = 0
    => missed[e] >= MULT[Peer[e]]

TimingInv == \A e \in End : Clock(e) /\ Alarm(e)

\* An end that is Up reckons with the pace its neighbour sends at.
PaceKnown ==
    \A e \in End :
        session[e].state = "Up" /\ Watching(session[Peer[e]])
        => Unit(e, session[e]) >= Pace(Peer[e], session[Peer[e]])

\* The ends of the link and their settings.
LEMMA Ends ==
    ASSUME NEW e \in End
    PROVE  /\ Peer[e] \in End /\ Peer[e] # e /\ Peer[Peer[e]] = e
           /\ DESIRED[e] \in Nat /\ DESIRED[e] >= 2
           /\ RX[e] \in Nat /\ RX[e] >= 1 /\ MULT[e] \in Nat /\ MULT[e] >= 1
           /\ PERCENT[e] \in 75 .. 90
           /\ SlowRate(e) \in Nat /\ SlowRate(e) >= DESIRED[e]
<1>1. Peer[e] \in End /\ Peer[e] # e /\ Peer[Peer[e]] = e
    BY LinkAssumption, Zenon
<1>2. DESIRED[e] \in Nat \ {0, 1} /\ RX[e] \in Nat \ {0} /\ MULT[e] \in Nat \ {0}
      /\ PERCENT[e] \in 75 .. 90
    BY TimingAssumption, Zenon
<1>3. SLOW \in Nat
    BY TimingAssumption
<1> QED
    BY <1>1, <1>2, <1>3 DEF SlowRate, Larger

\* What is added to a queue and taken from it.
LEMMA Queue ==
    ASSUME NEW S, NEW q \in Seq(S)
    PROVE  /\ Len(q) \in Nat /\ (q = <<>> <=> Len(q) = 0)
           /\ \A y \in S : /\ Append(q, y) \in Seq(S) /\ Len(Append(q, y)) = Len(q) + 1
                          /\ q = <<>> => Head(Append(q, y)) = y
           /\ q # <<>> => /\ Head(q) \in S /\ Tail(q) \in Seq(S)
                          /\ Len(Tail(q)) = Len(q) - 1
OBVIOUS

\* A jittered interval is positive and shorter than the interval.
LEMMA Jitter ==
    ASSUME NEW l \in Nat, l >= 2, NEW p \in 75 .. 90
    PROVE  (l * p) \div 100 >= 1 /\ (l * p) \div 100 < l
<1>1. l * p <= l * 90 /\ l * p >= l * 75 /\ l * p \in Nat
    OBVIOUS
<1> DEFINE n == l * p
<1>2. n <= l * 90 /\ n >= l * 75 /\ n \in Nat
    BY <1>1
<1> HIDE DEF n
<1>3. n \div 100 >= 1 /\ n \div 100 < l
    BY <1>2
<1> QED
    BY <1>3 DEF n

\* An end that has heard its neighbour's RX sends faster than its pace.
LEMMA Quick ==
    ASSUME NEW e \in End, NEW s \in PeerSession, s.rx <= RX[Peer[e]]
    PROVE  /\ TransmitInterval(e, s) \in Nat /\ TransmitInterval(e, s) >= 1
           /\ TransmitInterval(e, s) < Pace(e, s)
           /\ Pace(e, s) \in Nat /\ Pace(e, s) >= 2
           /\ EffectiveDesired(e, s) = IF s.state = "Up" THEN DESIRED[e] ELSE SlowRate(e)
<1> DEFINE l == Larger(EffectiveDesired(e, s), s.rx)
<1>1. s.rx \in Nat /\ RX[Peer[e]] \in Nat /\ DESIRED[e] \in Nat /\ DESIRED[e] >= 2
      /\ SlowRate(e) \in Nat /\ SlowRate(e) >= DESIRED[e]
    BY Ends DEF PeerSession
<1>2. EffectiveDesired(e, s) = IF s.state = "Up" THEN DESIRED[e] ELSE SlowRate(e)
    BY DEF EffectiveDesired, SlowRate
<1>3. l \in Nat /\ l >= 2 /\ l <= Pace(e, s) /\ Pace(e, s) \in Nat
    BY <1>1, <1>2 DEF Pace, Larger
<1>4. TransmitInterval(e, s) = (l * PERCENT[e]) \div 100
    BY DEF TransmitInterval
<1> HIDE DEF l
<1>5. (l * PERCENT[e]) \div 100 >= 1 /\ (l * PERCENT[e]) \div 100 < l
    BY <1>3, Ends, Jitter
<1>6. TransmitInterval(e, s) \in Nat
    BY Intervals
<1> QED
    BY <1>2, <1>3, <1>4, <1>5, <1>6

\* What the two passes leave of a session.
LEMMA Served ==
    ASSUME NEW e \in End, NEW t \in PeerSession, Sound(t),
           NEW d, d = Detect(t), NEW x, x = Transmit(e, d),
           NEW v, v = ServiceEcho(e, x)
    PROVE  /\ d \in PeerSession /\ x \in PeerSession /\ v \in PeerSession
           /\ Sound(d) /\ Sound(v)
           /\ d.rx = t.rx
           /\ v.rx = t.rx /\ v.mult = t.mult /\ v.desired = t.desired
           /\ d = t \/ (d.state = "Down" /\ d.next_tx = 0)
           /\ \/ v.next_tx = 0 /\ v.state = "Down"
              \/ v.state = d.state /\ Transmits(d) /\ v.next_tx = TransmitInterval(e, d)
              \/ v.state = d.state /\ ~Transmits(d) /\ v.next_tx = d.next_tx
           /\ Watching(v) => d = t /\ v.state = t.state /\ v.detect = t.detect /\ t.detect # 0
<1>1. d \in PeerSession /\ Sound(d)
    BY Passes
<1>2. x \in PeerSession /\ Sound(x)
    BY <1>1, Passes
<1>3. v \in PeerSession /\ Sound(v)
    BY <1>2, Passes
<1>4. /\ d.rx = t.rx /\ d.mult = t.mult /\ d.desired = t.desired
      /\ d = t \/ (d.state = "Down" /\ d.next_tx = 0)
      /\ Watching(d) => d = t /\ t.detect # 0
    BY DEF Detect, Fall, Expired, Watching, Sound, PeerSession
<1>5. /\ x.rx = d.rx /\ x.mult = d.mult /\ x.desired = d.desired
      /\ x.state = d.state /\ x.detect = d.detect
      /\ \/ Transmits(d) /\ x.next_tx = TransmitInterval(e, d)
         \/ ~Transmits(d) /\ x.next_tx = d.next_tx
    BY <1>1 DEF Transmit, PeerSession
<1>6. /\ v.rx = x.rx /\ v.mult = x.mult /\ v.desired = x.desired
      /\ \/ v.next_tx = 0 /\ v.state = "Down"
         \/ v.state = x.state /\ v.next_tx = x.next_tx /\ v.detect = x.detect
  <2>1. CASE EchoFails(e, x)
    <3>1. v = [Fall(x) EXCEPT !.echo_rx = Off]
        BY <2>1 DEF ServiceEcho, EchoFails, EchoSends
    <3> QED
        BY <3>1, <1>2 DEF Fall, PeerSession
  <2>2. CASE ~EchoFails(e, x)
    <3>1. v \in {x, [x EXCEPT !.echo_tx = ECHO[e]], [x EXCEPT !.echo_rx = Off]}
        BY <2>2 DEF ServiceEcho
    <3> QED
        BY <3>1, <1>2 DEF PeerSession
  <2> QED
    BY <2>1, <2>2
<1> QED
    BY <1>1, <1>2, <1>3, <1>4, <1>5, <1>6 DEF Watching

\* The session t an arm leaves at e, with the link and the losses then: untouched but
\* for Echo and the subscribers, new or removed, or after a packet.
Kept(e, t) ==
    LET s == session[e] IN
    /\ t.state = s.state /\ t.next_tx = s.next_tx /\ t.detect = s.detect
    /\ t.desired = s.desired /\ t.rx = s.rx /\ t.mult = s.mult

Armed(e, t, w, m) ==
    \/ Kept(e, t) /\ w = wire /\ m = missed
    \/ t.state = "Down" /\ t.next_tx = 0 /\ t.rx = 1 /\ w = wire /\ m = missed
    \/ /\ wire[e] # <<>>
       /\ w = [wire EXCEPT ![e] = Tail(wire[e])] /\ m = [missed EXCEPT ![e] = 0]
       /\ IF session[e].live THEN t = OnPacket(e, session[e], Head(wire[e]))
                             ELSE t = session[e]

\* The deadlines and rates OnPacket sets.
LEMMA Took ==
    ASSUME NEW e \in End, NEW s \in PeerSession, NEW pkt \in ControlPacket,
           NEW t, t = OnPacket(e, s, pkt)
    PROVE  /\ t.state = Reception(s.state, pkt.state)
           /\ t.next_tx = IF t.state = s.state THEN s.next_tx ELSE 0
           /\ t.desired = pkt.desired /\ t.rx = pkt.rx /\ t.mult = pkt.mult
           /\ t.detect = pkt.mult * Larger(RX[e], pkt.desired)
    BY DEF OnPacket, PeerSession, DetectionTime

\* Every arm of the run loop is one of the three, followed by the two passes.
LEMMA Loop ==
    ASSUME RatesInv, NEW e \in End,
           Timer(e) \/ Receive(e) \/ EchoReturn(e) \/ HandleCommand(e)
    PROVE  \E t, w, m :
              /\ t \in PeerSession /\ Sound(t) /\ Armed(e, t, w, m)
              /\ session' = [session EXCEPT ![e] = ServiceEcho(e, Transmit(e, Detect(t)))]
              /\ Sends(e, t, w, m)
<1>1. session[e] \in PeerSession /\ Sound(session[e]) /\ Kept(e, session[e])
    BY DEF RatesInv, BfdInv, TypeOK, Watched, Sound, Kept
<1>2. CASE Timer(e)
  <2>1. Armed(e, session[e], wire, missed)
    BY <1>1 DEF Armed
  <2>2. /\ session' = [session EXCEPT ![e] = ServiceEcho(e, Transmit(e, Detect(session[e])))]
        /\ Sends(e, session[e], wire, missed)
    BY <1>2 DEF Timer, Serviced
  <2> QED
    BY <1>1, <2>1, <2>2
<1>3. CASE Receive(e)
  <2> DEFINE s == session[e]
             k == Head(wire[e])
             t == IF s.live /\ Decodes(k) THEN OnPacket(e, s, k) ELSE s
             w == [wire EXCEPT ![e] = Tail(wire[e])]
             m == [missed EXCEPT ![e] = 0]
  <2>1. /\ session' = [session EXCEPT ![e] = ServiceEcho(e, Transmit(e, Detect(t)))]
        /\ Sends(e, t, w, m) /\ wire[e] # <<>>
    BY <1>3 DEF Receive, Serviced
  <2>2. wire[e] \in Seq(Honest(Peer[e]))
    BY DEF RatesInv
  <2>3. k \in Honest(Peer[e])
    BY <2>1, <2>2
  <2>4. k \in ControlPacket /\ Decodes(k)
    BY <2>3 DEF Honest
  <2>5. t \in PeerSession /\ Sound(t)
    BY <1>1, <2>4, Received
  <2>6. Armed(e, t, w, m)
    BY <2>1, <2>4 DEF Armed
  <2> HIDE DEF t, w, m
  <2> QED
    BY <2>1, <2>5, <2>6
<1>4. CASE EchoReturn(e)
  <2> DEFINE r == ECHO[e] * MULT[e]
             t == [session[e] EXCEPT !.echo_rx = r]
  <2>1. /\ session' = [session EXCEPT ![e] = ServiceEcho(e, Transmit(e, Detect(t)))]
        /\ Sends(e, t, wire, missed)
    BY <1>4 DEF EchoReturn, Serviced
  <2>2. r \in Deadlines
    BY <1>1, Intervals, DeadlineFacts
  <2> HIDE DEF r
  <2>3. t \in PeerSession /\ Sound(t) /\ Kept(e, t)
    BY <1>1, <2>2 DEF PeerSession, Sound, Watching, Kept
  <2>4. Armed(e, t, wire, missed)
    BY <2>3 DEF Armed
  <2> HIDE DEF t
  <2> QED
    BY <2>1, <2>3, <2>4
<1>5. CASE HandleCommand(e)
  <2> DEFINE cmd == Head(commands[e])
             t == Handle(session[e], cmd)
  <2>1. /\ session' = [session EXCEPT ![e] = ServiceEcho(e, Transmit(e, Detect(t)))]
        /\ Sends(e, t, wire, missed) /\ commands[e] # <<>>
    BY <1>5 DEF HandleCommand, Serviced
  <2>2. commands[e] \in Seq(Command)
    BY DEF RatesInv, BfdInv, TypeOK
  <2>3. cmd \in Command
    BY <2>1, <2>2
  <2>4. t \in PeerSession /\ Sound(t)
    BY <1>1, <2>3, Handled
  <2>5. \/ t \in {New(TRUE, {cmd.consumer}), New(FALSE, {})}
        \/ \E q : t = [session[e] EXCEPT !.subscribers = q]
    BY DEF Handle
  <2> HIDE DEF t
  <2>6. Armed(e, t, wire, missed)
    BY <1>1, <2>5 DEF Armed, New, Kept, PeerSession
  <2> QED
    BY <2>1, <2>4, <2>6
<1> QED
    BY <1>2, <1>3, <1>4, <1>5

\* What a serviced session puts on the link to its neighbour, and nowhere else.
LEMMA Carried ==
    ASSUME RatesInv, NEW e \in End, NEW t \in PeerSession, Sound(t), NEW w, NEW m,
           Armed(e, t, w, m), Sends(e, t, w, m), NEW d, d = Detect(t)
    PROVE  /\ \A f \in End : f # Peer[e] => wire'[f] = w[f] /\ missed'[f] = m[f]
           /\ w[Peer[e]] = wire[Peer[e]] /\ m[Peer[e]] = missed[Peer[e]]
           /\ BuildControl(e, d) \in Honest(e) /\ BuildControl(e, d).state = d.state
           /\ \/ /\ ~Transmits(d)
                 /\ wire'[Peer[e]] = wire[Peer[e]] /\ missed'[Peer[e]] = missed[Peer[e]]
              \/ /\ Transmits(d) /\ Len(wire[Peer[e]]) < WIRE
                 /\ wire'[Peer[e]] = Append(wire[Peer[e]], BuildControl(e, d))
                 /\ missed'[Peer[e]] = missed[Peer[e]]
              \/ /\ Transmits(d)
                 /\ wire'[Peer[e]] = wire[Peer[e]]
                 /\ missed'[Peer[e]] = Lost(Peer[e], missed[Peer[e]])
<1> DEFINE p == Peer[e]
           q == Sent(e, t)
           b == BuildControl(e, d)
<1>1. p \in End /\ p # e
    BY Ends
<1>2. wire \in [End -> Seq(ControlPacket)] /\ missed \in [End -> Nat]
    BY DEF RatesInv, BfdInv, TypeOK
<1>3. DOMAIN w = End /\ DOMAIN m = End /\ w[p] = wire[p] /\ m[p] = missed[p]
    BY <1>1, <1>2 DEF Armed
<1>4. /\ wire' = IF Carries(p, w) THEN [w EXCEPT ![p] = w[p] \o q] ELSE w
      /\ missed' = IF Carries(p, w) \/ q = <<>> THEN m ELSE [m EXCEPT ![p] = Lost(p, m[p])]
    BY DEF Sends
<1>5. q = IF Transmits(d) THEN <<b>> ELSE <<>>
    BY DEF Sent
<1>6. wire[p] \in Seq(ControlPacket)
    BY <1>1, <1>2
<1>7. \A f \in End : f # p => wire'[f] = w[f] /\ missed'[f] = m[f]
    BY <1>3, <1>4
<1>8. b \in Honest(e) /\ b.state = d.state
  <2>1. d \in PeerSession /\ Sound(d)
    BY Passes
  <2>2. /\ EffectiveDesired(e, d) \in Nat
        /\ EffectiveDesired(e, d) = IF d.state = "Up" THEN DESIRED[e] ELSE SlowRate(e)
    BY <2>1, Intervals DEF EffectiveDesired, SlowRate
  <2>3. d.state \in State /\ d.discr \in BOOLEAN /\ (d.state \in {"Init", "Up"} => d.discr)
    BY <2>1 DEF PeerSession, Sound, Watching
  <2>4. RX[e] \in Nat /\ MULT[e] \in Nat
    BY Ends
  <2> QED
    BY <2>2, <2>3, <2>4 DEF BuildControl, Honest, ControlPacket, Decodes, State
<1>9. CASE ~Transmits(d)
  <2>1. q = <<>>
    BY <1>5, <1>9
  <2>2. wire[p] \o q = wire[p]
    BY <1>6, <2>1
  <2>3. wire'[p] = wire[p] /\ missed'[p] = missed[p]
    BY <1>1, <1>3, <1>4, <2>1, <2>2
  <2> QED
    BY <1>3, <1>7, <1>8, <1>9, <2>3
<1>10. CASE Transmits(d) /\ Carries(p, w)
  <2>1. q = <<b>> /\ Len(wire[p]) < WIRE
    BY <1>3, <1>5, <1>10 DEF Carries
  <2>2. b \in ControlPacket
    BY <1>8 DEF Honest
  <2> HIDE DEF b, q
  <2>3. wire[p] \o q = Append(wire[p], b)
    BY <1>6, <2>1, <2>2
  <2>4. wire'[p] = Append(wire[p], b) /\ missed'[p] = missed[p]
    BY <1>1, <1>3, <1>4, <1>10, <2>3
  <2> QED
    BY <1>3, <1>7, <1>8, <1>10, <2>1, <2>4 DEF b
<1>11. CASE Transmits(d) /\ ~Carries(p, w)
  <2>1. q # <<>>
    BY <1>5, <1>11
  <2>2. wire'[p] = wire[p] /\ missed'[p] = Lost(p, missed[p])
    BY <1>1, <1>3, <1>4, <1>11, <2>1
  <2> QED
    BY <1>3, <1>7, <1>8, <1>11, <2>2
<1> QED
    BY <1>9, <1>10, <1>11

\* What an arm leaves of the packets to e, and of what e has heard.
LEMMA ArmFacts ==
    ASSUME RatesInv, NEW e \in End, NEW t \in PeerSession, NEW w, NEW m,
           Armed(e, t, w, m)
    PROVE  /\ Heard(e, t)
           /\ w[e] \in Seq(Honest(Peer[e]))
           /\ t.next_tx = 0 \/ (t.state = session[e].state /\ t.next_tx = session[e].next_tx)
<1>1. /\ session[e] \in PeerSession /\ wire[e] \in Seq(Honest(Peer[e])) /\ Heard(e, session[e])
      /\ wire \in [End -> Seq(ControlPacket)]
    BY DEF RatesInv, BfdInv, TypeOK
<1>2. CASE Kept(e, t) /\ w = wire
    BY <1>1, <1>2 DEF Kept, Heard, Watching
<1>3. CASE t.state = "Down" /\ t.next_tx = 0 /\ t.rx = 1 /\ w = wire
    BY <1>1, <1>3, Ends DEF Heard, Watching
<1>4. CASE /\ wire[e] # <<>>
           /\ w = [wire EXCEPT ![e] = Tail(wire[e])]
           /\ IF session[e].live THEN t = OnPacket(e, session[e], Head(wire[e]))
                                 ELSE t = session[e]
  <2>1. Head(wire[e]) \in Honest(Peer[e]) /\ w[e] \in Seq(Honest(Peer[e]))
    BY <1>1, <1>4
  <2>2. CASE ~session[e].live
    BY <1>1, <1>4, <2>1, <2>2
  <2>3. CASE session[e].live
    <3> DEFINE k == Head(wire[e])
    <3>1. k \in ControlPacket
        BY <2>1 DEF Honest
    <3>2. /\ t.next_tx = IF t.state = session[e].state THEN session[e].next_tx ELSE 0
          /\ t.desired = k.desired /\ t.rx = k.rx /\ t.mult = k.mult
        BY <1>1, <1>4, <2>3, <3>1, Took
    <3>3. k.mult = MULT[Peer[e]] /\ k.rx = RX[Peer[e]] /\ k.desired >= DESIRED[Peer[e]]
        BY <2>1, Ends DEF Honest
    <3>4. RX[Peer[e]] \in Nat
        BY Ends
    <3> QED
        BY <2>1, <3>2, <3>3, <3>4 DEF Heard
  <2> QED
    BY <2>2, <2>3
<1> QED
    BY <1>2, <1>3, <1>4 DEF Armed

\* A session's pace follows its state alone.
LEMMA PaceOf ==
    ASSUME NEW e \in End, NEW s, NEW t, s.state = t.state
    PROVE  Pace(e, s) = Pace(e, t)
BY DEF Pace, EffectiveDesired

\* A step of the run loop keeps the rates.
LEMMA LoopRates ==
    ASSUME RatesInv, BfdInv', NEW e \in End, NEW t \in PeerSession, NEW w, NEW m,
           Sound(t), Armed(e, t, w, m), Sends(e, t, w, m),
           session' = [session EXCEPT ![e] = ServiceEcho(e, Transmit(e, Detect(t)))]
    PROVE  RatesInv'
<1> DEFINE d == Detect(t)
           x == Transmit(e, d)
           v == ServiceEcho(e, x)
           p == Peer[e]
<1>1. /\ d \in PeerSession /\ v \in PeerSession
      /\ d.rx = t.rx /\ v.rx = t.rx /\ v.mult = t.mult /\ v.desired = t.desired
      /\ d = t \/ (d.state = "Down" /\ d.next_tx = 0)
      /\ \/ v.next_tx = 0 /\ v.state = "Down"
         \/ v.state = d.state /\ Transmits(d) /\ v.next_tx = TransmitInterval(e, d)
         \/ v.state = d.state /\ ~Transmits(d) /\ v.next_tx = d.next_tx
      /\ Watching(v) => v.state = t.state
    BY Served
<1>2. /\ Heard(e, t) /\ w[e] \in Seq(Honest(p))
      /\ t.next_tx = 0 \/ (t.state = session[e].state /\ t.next_tx = session[e].next_tx)
    BY ArmFacts
<1>3. p \in End /\ p # e /\ Peer[p] = e
    BY Ends
<1>4. /\ wire[p] \in Seq(Honest(e)) /\ session[e].next_tx < Pace(e, session[e])
      /\ session \in [End -> PeerSession]
    BY <1>3 DEF RatesInv, BfdInv, TypeOK
<1>5. session' = [session EXCEPT ![e] = v]
    OBVIOUS
<1>6. /\ \A f \in End : f # p => wire'[f] = w[f]
      /\ BuildControl(e, d) \in Honest(e)
      /\ wire'[p] \in {wire[p], Append(wire[p], BuildControl(e, d))}
    BY Carried
<1> HIDE DEF d, x, v
<1>7. wire'[p] \in Seq(Honest(e))
  <2>1. Append(wire[p], BuildControl(e, d)) \in Seq(Honest(e))
    BY <1>4, <1>6, Queue
  <2> QED
    BY <1>4, <1>6, <2>1
<1>8. ASSUME NEW f \in End
      PROVE  wire'[f] \in Seq(Honest(Peer[f]))
  <2>1. CASE f = p
    BY <1>3, <1>7, <2>1
  <2>2. CASE f = e
    BY <1>2, <1>3, <1>6, <2>2
  <2>3. CASE f # p /\ f # e
    <3>1. w[f] = wire[f]
        BY <2>3 DEF Armed, RatesInv, BfdInv, TypeOK
    <3> QED
        BY <1>6, <2>3, <3>1 DEF RatesInv
  <2> QED
    BY <2>1, <2>2, <2>3
<1>9. Heard(e, v)
    BY <1>1, <1>2 DEF Heard, Watching
<1>10. v.next_tx < Pace(e, v)
  <2>1. Pace(e, v) \in Nat /\ Pace(e, v) >= 2
    BY <1>1, <1>9, Quick DEF Heard
  <2>2. CASE v.next_tx = 0
    BY <2>1, <2>2
  <2>3. CASE v.state = d.state /\ v.next_tx = TransmitInterval(e, d)
    <3>1. d.rx <= RX[Peer[e]]
        BY <1>1, <1>2 DEF Heard
    <3> QED
        BY <1>1, <2>3, <3>1, Quick, PaceOf
  <2>4. CASE v.state = d.state /\ v.next_tx = d.next_tx /\ v.next_tx # 0
    <3>1. d = t /\ t.state = session[e].state /\ t.next_tx = session[e].next_tx
        BY <1>1, <1>2, <2>4
    <3>2. v.state = session[e].state /\ v.next_tx = session[e].next_tx
        BY <2>4, <3>1
    <3>3. Pace(e, v) = Pace(e, session[e])
        BY <3>2, PaceOf
    <3> QED
        BY <1>4, <3>2, <3>3
  <2> QED
    BY <1>1, <2>2, <2>3, <2>4
<1>11. ASSUME NEW f \in End
       PROVE  Heard(f, session'[f]) /\ session'[f].next_tx < Pace(f, session'[f])
  <2>1. CASE f = e
    BY <1>4, <1>5, <1>9, <1>10, <2>1
  <2>2. CASE f # e
    <3>1. session'[f] = session[f]
        BY <1>4, <1>5, <2>2
    <3> QED
        BY <3>1 DEF RatesInv
  <2> QED
    BY <2>1, <2>2
<1>12. \A f \in End : /\ wire'[f] \in Seq(Honest(Peer[f]))
                      /\ Heard(f, session'[f])
                      /\ session'[f].next_tx < Pace(f, session'[f])
    BY <1>8, <1>11
<1> QED
    BY <1>12 DEF RatesInv, Heard, Pace, EffectiveDesired, Watching

\* In the first state nothing is on the link and nobody has been heard.
LEMMA StartRates == Init => RatesInv
<1> SUFFICES ASSUME Init PROVE RatesInv
    OBVIOUS
<1>1. BfdInv
    BY Starts
<1>2. ASSUME NEW e \in End
      PROVE  /\ wire[e] \in Seq(Honest(Peer[e])) /\ Heard(e, session[e])
             /\ session[e].next_tx < Pace(e, session[e])
  <2>1. session[e] = New(FALSE, {}) /\ wire[e] = <<>>
    BY DEF Init
  <2>2. session[e].rx = 1 /\ session[e].next_tx = 0 /\ session[e].state = "Down"
    BY <2>1 DEF New
  <2>3. session[e] \in PeerSession /\ RX[Peer[e]] >= 1 /\ RX[Peer[e]] \in Nat
    BY <1>1, Ends DEF BfdInv, TypeOK
  <2>4. Heard(e, session[e])
    BY <2>2, <2>3 DEF Heard, Watching
  <2>5. Pace(e, session[e]) >= 2 /\ Pace(e, session[e]) \in Nat
    BY <2>3, <2>4, Quick DEF Heard
  <2>6. <<>> \in Seq(Honest(Peer[e]))
    OBVIOUS
  <2>7. wire[e] \in Seq(Honest(Peer[e]))
    BY <2>1, <2>6
  <2>8. session[e].next_tx < Pace(e, session[e])
    BY <2>2, <2>5
  <2> QED
    BY <2>4, <2>7, <2>8
<1> QED
    BY <1>1, <1>2 DEF RatesInv

\* The steps of the consumers, of Echo and of the link leave sessions, packets and
\* losses alone.
LEMMA Elsewhere ==
    ASSUME NEW e \in End, NEW c,
           \/ AdjacencyUp(e, c) \/ AdjacencyLost(e, c) \/ BfdDown(e, c) \/ Respawn(e, c)
           \/ LoseEcho(e) \/ Toggle(e)
    PROVE  UNCHANGED <<session, wire, missed>>
BY DEF AdjacencyUp, AdjacencyLost, BfdDown, Respawn, Drop, LoseEcho, Toggle

\* What the clock leaves of a session.
LEMMA Ticked ==
    ASSUME RatesInv, Tick, NEW e \in End
    PROVE  /\ session'[e].state = session[e].state /\ session'[e].desired = session[e].desired
           /\ session'[e].rx = session[e].rx /\ session'[e].mult = session[e].mult
           /\ session'[e].next_tx = Less(session[e].next_tx)
           /\ session'[e].detect = Less(session[e].detect)
           /\ ~Due(e) /\ wire[e] = <<>>
           /\ session[e] \in PeerSession
<1>1. session[e] \in PeerSession
    BY DEF RatesInv, BfdInv, TypeOK
<1>2. session'[e] = [session[e] EXCEPT
                       !.next_tx = Less(@), !.detect = Less(@),
                       !.echo_tx = Less(@), !.echo_rx = Less(@)]
    BY DEF Tick
<1>3. ~Due(e) /\ wire[e] = <<>>
    BY DEF Tick
<1> QED
    BY <1>1, <1>2, <1>3 DEF PeerSession

\* Every step keeps the rates.
LEMMA StepRates == RatesInv /\ [Next]_vars => RatesInv'
<1> SUFFICES ASSUME RatesInv, [Next]_vars
             PROVE  RatesInv'
    OBVIOUS
<1>1. BfdInv'
    BY Steps DEF RatesInv
<1>2. ASSUME NEW e \in End, Timer(e) \/ Receive(e) \/ EchoReturn(e) \/ HandleCommand(e)
      PROVE  RatesInv'
  <2>1. PICK t, w, m :
              /\ t \in PeerSession /\ Sound(t) /\ Armed(e, t, w, m)
              /\ session' = [session EXCEPT ![e] = ServiceEcho(e, Transmit(e, Detect(t)))]
              /\ Sends(e, t, w, m)
    BY <1>2, Loop
  <2> QED
    BY <1>1, <2>1, LoopRates
<1>3. CASE UNCHANGED <<session, wire, missed>>
    BY <1>1, <1>3 DEF RatesInv, Heard, Pace, EffectiveDesired, Watching
<1>4. ASSUME NEW e \in End, Lose(e)
      PROVE  RatesInv'
  <2>1. /\ wire' = [wire EXCEPT ![e] = Tail(wire[e])] /\ session' = session
        /\ wire[e] # <<>> /\ wire \in [End -> Seq(ControlPacket)]
    BY <1>4 DEF Lose, RatesInv, BfdInv, TypeOK
  <2>2. Tail(wire[e]) \in Seq(Honest(Peer[e]))
    BY <2>1, Queue DEF RatesInv
  <2>3. \A f \in End : wire'[f] \in Seq(Honest(Peer[f]))
    BY <2>1, <2>2 DEF RatesInv
  <2> QED
    BY <1>1, <2>1, <2>3 DEF RatesInv, Heard, Pace, EffectiveDesired, Watching
<1>5. CASE Tick
  <2>1. wire' = wire
    BY <1>5 DEF Tick
  <2>2. ASSUME NEW e \in End
        PROVE  Heard(e, session'[e]) /\ session'[e].next_tx < Pace(e, session'[e])
    <3>1. /\ session'[e].state = session[e].state /\ session'[e].desired = session[e].desired
          /\ session'[e].rx = session[e].rx /\ session'[e].mult = session[e].mult
          /\ session'[e].next_tx = Less(session[e].next_tx)
          /\ session[e] \in PeerSession
        BY <1>5, Ticked
    <3>2. Heard(e, session[e]) /\ session[e].next_tx < Pace(e, session[e])
        BY DEF RatesInv
    <3>3. Pace(e, session'[e]) = Pace(e, session[e]) /\ Pace(e, session[e]) \in Nat
        BY <3>1, <3>2, PaceOf, Quick DEF Heard
    <3>4. session[e].next_tx \in Nat
        BY <3>1 DEF PeerSession
    <3> QED
        BY <3>1, <3>2, <3>3, <3>4 DEF Heard, Watching, Less
  <2>3. \A e \in End : Heard(e, session'[e]) /\ session'[e].next_tx < Pace(e, session'[e])
    BY <2>2
  <2> QED
    BY <1>1, <2>1, <2>3 DEF RatesInv, Heard, Pace, EffectiveDesired, Watching
<1>6. CASE UNCHANGED vars
    BY <1>3, <1>6 DEF vars
<1> QED
    BY <1>2, <1>3, <1>4, <1>5, <1>6, Elsewhere DEF Next

\* The rates hold in every state.
THEOREM RatesKept == Spec => []RatesInv
BY StartRates, StepRates, PTL DEF Spec

\* The arithmetic of the countdown: u is a unit of the detection time, n the time to
\* the next packet, k the packets missing out of mult.
LEMMA Countdown ==
    ASSUME NEW mult \in Nat, NEW k \in Nat, NEW u \in Nat, NEW n \in Nat, n < u
    PROVE  /\ mult * u > (mult - 1 - k) * u + n
           /\ \A left \in Nat : left > (mult - 1 - k) * u
                               => left > (mult - 1 - (k + 1)) * u + n
<1>1. k * u \in Nat
    OBVIOUS
<1>2. (mult - 1 - k) * u = mult * u - u - k * u
    OBVIOUS
<1>3. (mult - 1 - (k + 1)) * u = mult * u - u - u - k * u
    OBVIOUS
<1>4. mult * u \in Nat
    OBVIOUS
<1> DEFINE a == k * u
           b == mult * u
           c == (mult - 1 - k) * u
           d == (mult - 1 - (k + 1)) * u
<1>5. a \in Nat /\ b \in Nat /\ c = b - u - a /\ d = b - u - u - a
    BY <1>1, <1>2, <1>3, <1>4
<1> HIDE DEF a, b, c, d
<1>6. b > c + n /\ \A left \in Nat : left > c => left > d + n
    BY <1>5
<1> QED
    BY <1>6 DEF b, c, d

\* The neighbour of e, which is Up, takes a step: the packets missing at e grow by
\* the one it sends, and the detection time of e outlasts the rest.
LEMMA NeighbourSteps ==
    ASSUME RatesInv, RatesInv', TimingInv, PaceKnown',
           NEW e \in End, NEW t \in PeerSession, NEW w, NEW m,
           Sound(t), Armed(e, t, w, m), Sends(e, t, w, m),
           session' = [session EXCEPT ![e] = ServiceEcho(e, Transmit(e, Detect(t)))]
    PROVE  Clock(Peer[e])' /\ Alarm(Peer[e])'
<1> DEFINE d == Detect(t)
           x == Transmit(e, d)
           v == ServiceEcho(e, x)
           p == Peer[e]
           s == session[e]
           r == session[p]
<1>1. /\ d \in PeerSession /\ v \in PeerSession /\ d.rx = t.rx /\ Sound(v)
      /\ \/ v.next_tx = 0 /\ v.state = "Down"
         \/ v.state = d.state /\ Transmits(d) /\ v.next_tx = TransmitInterval(e, d)
         \/ v.state = d.state /\ ~Transmits(d) /\ v.next_tx = d.next_tx
      /\ Watching(v) => d = t /\ v.state = t.state
    BY Served
<1>2. /\ Heard(e, t)
      /\ t.next_tx = 0 \/ (t.state = s.state /\ t.next_tx = s.next_tx)
    BY ArmFacts
<1>3. p \in End /\ p # e /\ Peer[p] = e
    BY Ends
<1>4. /\ session \in [End -> PeerSession] /\ wire \in [End -> Seq(ControlPacket)]
      /\ missed \in [End -> Nat] /\ wire' \in [End -> Seq(ControlPacket)]
      /\ missed' \in [End -> Nat] /\ r \in PeerSession /\ s \in PeerSession
    BY <1>3 DEF RatesInv, BfdInv, TypeOK
<1>5. session'[e] = v /\ session'[p] = r
    BY <1>3, <1>4
<1>6. /\ wire'[e] = w[e]
      /\ \/ ~Transmits(d) /\ wire'[p] = wire[p] /\ missed'[p] = missed[p]
         \/ /\ Transmits(d)
            /\ wire'[p] = Append(wire[p], BuildControl(e, d)) /\ missed'[p] = missed[p]
         \/ Transmits(d) /\ wire'[p] = wire[p] /\ missed'[p] = Lost(p, missed[p])
      /\ BuildControl(e, d) \in ControlPacket
    BY <1>3, Carried DEF Honest
<1> HIDE DEF d, x, v
<1>7. MULT[e] \in Nat /\ missed[p] \in Nat /\ Len(wire[p]) \in Nat /\ Count(p) \in Nat
    BY <1>3, <1>4, Ends DEF Count
<1>8. /\ Count(p)' \in Nat /\ missed'[p] >= missed[p]
      /\ ~Transmits(d) => Count(p)' = Count(p)
      /\ Transmits(d) => Count(p)' = Count(p) + 1 \/ Count(p)' >= MULT[e]
  <2>1. Len(Append(wire[p], BuildControl(e, d))) = Len(wire[p]) + 1
    BY <1>3, <1>4, <1>6, Queue
  <2>2. Lost(p, missed[p]) = IF missed[p] < MULT[e] THEN missed[p] + 1 ELSE missed[p]
    BY <1>3 DEF Lost
  <2>3. Count(p)' = missed'[p] + Len(wire'[p])
    BY DEF Count
  <2>4. CASE ~Transmits(d)
    BY <1>6, <1>7, <2>3, <2>4 DEF Count
  <2>5. CASE Transmits(d) /\ wire'[p] = Append(wire[p], BuildControl(e, d)) /\ missed'[p] = missed[p]
    BY <1>7, <2>1, <2>3, <2>5 DEF Count
  <2>6. CASE Transmits(d) /\ wire'[p] = wire[p] /\ missed'[p] = Lost(p, missed[p])
    <3>1. CASE missed[p] < MULT[e]
      <4>1. missed'[p] = missed[p] + 1 /\ Count(p)' = missed[p] + 1 + Len(wire[p])
        BY <2>2, <2>3, <2>6, <3>1
      <4> QED
        BY <1>7, <2>6, <4>1 DEF Count
    <3>2. CASE ~(missed[p] < MULT[e])
      <4>1. missed'[p] = missed[p] /\ Count(p)' = missed[p] + Len(wire[p])
        BY <2>2, <2>3, <2>6, <3>2
      <4> QED
        BY <1>7, <2>6, <3>2, <4>1
    <3> QED
        BY <3>1, <3>2
  <2> QED
    BY <1>6, <2>4, <2>5, <2>6
<1>9. Engaged(p)' => Engaged(p)
  <2> SUFFICES ASSUME ~Watching(s), wire[e] \in Seq(UpPacket)
               PROVE  ~Watching(v) /\ w[e] \in Seq(UpPacket)
    BY <1>3, <1>5, <1>6 DEF Engaged
  <2>1. s.state = "Down"
    BY <1>4 DEF PeerSession, State, Watching
  <2>2. CASE Kept(e, t) /\ w = wire
    BY <1>1, <2>1, <2>2 DEF Kept, Watching
  <2>3. CASE t.state = "Down" /\ w = wire
    BY <1>1, <2>1, <2>3 DEF Watching
  <2>4. CASE /\ wire[e] # <<>> /\ w = [wire EXCEPT ![e] = Tail(wire[e])]
             /\ IF s.live THEN t = OnPacket(e, s, Head(wire[e])) ELSE t = s
    <3>1. Head(wire[e]) \in UpPacket /\ Tail(wire[e]) \in Seq(UpPacket) /\ w[e] = Tail(wire[e])
        BY <1>4, <2>4, Queue
    <3>2. Head(wire[e]) \in ControlPacket /\ Head(wire[e]).state = "Up"
        BY <3>1 DEF UpPacket
    <3>3. t.state = "Down"
      <4>1. CASE s.live
        <5>1. t.state = Reception("Down", "Up")
            BY <1>4, <2>1, <2>4, <3>2, <4>1, Took
        <5> QED
            BY <5>1 DEF Reception
      <4>2. CASE ~s.live
        BY <2>1, <2>4, <4>2
      <4> QED
        BY <4>1, <4>2
    <3> QED
        BY <1>1, <3>1, <3>3 DEF Watching
  <2> QED
    BY <2>2, <2>3, <2>4 DEF Armed
<1>10. Alarm(p)'
  <2> SUFFICES ASSUME r.state = "Up", Engaged(p)', r.detect = 0
               PROVE  missed'[p] >= MULT[e]
    BY <1>3, <1>5 DEF Alarm
  <2>1. missed[p] >= MULT[e]
    BY <1>3, <1>9 DEF TimingInv, Alarm
  <2>2. missed'[p] \in Nat
    BY <1>3, <1>4
  <2> QED
    BY <1>7, <1>8, <2>1, <2>2
<1>11. Clock(p)'
  <2> DEFINE u == Unit(p, r)
  <2> SUFFICES ASSUME r.state = "Up", Engaged(p)', Count(p)' < MULT[e]
               PROVE  r.detect > (MULT[e] - 1 - Count(p)') * u + Wait(v)
    BY <1>3, <1>5 DEF Clock
  <2>1. Count(p) < MULT[e]
    BY <1>7, <1>8
  <2>2. r.detect > (MULT[e] - 1 - Count(p)) * u + Wait(s)
    BY <1>3, <1>9, <2>1 DEF TimingInv, Clock
  <2>3. u \in Nat /\ u >= 1
    <3>1. RX[p] \in Nat /\ RX[p] >= 1 /\ r.desired \in Nat
        BY <1>3, <1>4, Ends DEF PeerSession
    <3> QED
        BY <3>1 DEF Unit, Larger
  <2>4. r.detect \in Nat
    <3>1. r.detect \in Deadlines /\ r.detect # Off
        BY <1>3, <1>4 DEF PeerSession, RatesInv, BfdInv, Watched, Watching
    <3> QED
        BY <3>1 DEF Deadlines
  <2>5. Watching(v) => Pace(e, v) <= u
    <3>1. PaceKnown' => (Watching(session'[e]) => Unit(p, session'[p]) >= Pace(e, session'[e]))
        BY <1>3, <1>5 DEF PaceKnown, Unit, Pace, EffectiveDesired, Watching
    <3> QED
        BY <1>5, <3>1
  <2>6. Pace(e, v) \in Nat /\ v.next_tx \in Nat /\ v.next_tx < Pace(e, v)
    <3>1. v.next_tx < Pace(e, v) /\ Heard(e, v)
        BY <1>5 DEF RatesInv, Heard, Pace, EffectiveDesired, Watching
    <3> QED
        BY <1>1, <3>1, Quick DEF Heard, PeerSession
  <2>7. Wait(v) \in Nat /\ Wait(v) < u
    BY <2>3, <2>5, <2>6 DEF Wait
  <2>8. Wait(s) \in Nat
    BY <1>4 DEF Wait, PeerSession
  <2> HIDE DEF u
  <2> DEFINE c == (MULT[e] - 1 - Count(p)) * u
  <2>9. c \in Int
    BY <1>7, <2>3
  <2>10. CASE Transmits(d)
    <3>1. Count(p)' = Count(p) + 1
        BY <1>7, <1>8, <2>10
    <3>2. r.detect > c
      <4> HIDE DEF c
      <4> QED
        BY <2>2, <2>4, <2>8, <2>9 DEF c
    <3> QED
        BY <1>7, <2>3, <2>4, <2>7, <3>1, <3>2, Countdown
  <2>11. CASE ~Transmits(d)
    <3>1. Count(p)' = Count(p)
        BY <1>8, <2>11
    <3>2. Wait(v) <= Wait(s)
      <4>1. CASE ~Watching(v)
        BY <2>8, <4>1 DEF Wait
      <4>2. CASE Watching(v)
        <5>1. v.state = t.state /\ d = t /\ v.next_tx \in {0, t.next_tx}
            BY <1>1, <2>11, <4>2
        <5>2. v.next_tx = 0 \/ (v.next_tx = s.next_tx /\ Watching(s))
            BY <1>2, <4>2, <5>1 DEF Watching
        <5> QED
            BY <2>8, <4>2, <5>2 DEF Wait
      <4> QED
        BY <4>1, <4>2
    <3> HIDE DEF c
    <3> QED
        BY <2>2, <2>4, <2>7, <2>8, <2>9, <3>1, <3>2 DEF c
  <2> QED
    BY <2>10, <2>11
<1> QED
    BY <1>10, <1>11

\* e, which is Up afterwards, takes a step: it has just heard its neighbour, or its
\* detection time stands as it was.
LEMMA OwnSteps ==
    ASSUME RatesInv, RatesInv', TimingInv, PaceKnown',
           NEW e \in End, NEW t \in PeerSession, NEW w, NEW m,
           Sound(t), Armed(e, t, w, m), Sends(e, t, w, m),
           session' = [session EXCEPT ![e] = ServiceEcho(e, Transmit(e, Detect(t)))]
    PROVE  Clock(e)' /\ Alarm(e)'
<1> DEFINE d == Detect(t)
           x == Transmit(e, d)
           v == ServiceEcho(e, x)
           p == Peer[e]
           s == session[e]
           r == session[p]
<1>1. /\ v \in PeerSession /\ v.desired = t.desired /\ v.mult = t.mult
      /\ Watching(v) => d = t /\ v.state = t.state /\ v.detect = t.detect /\ t.detect # 0
    BY Served
<1>2. p \in End /\ p # e /\ Peer[p] = e
    BY Ends
<1>3. /\ session \in [End -> PeerSession] /\ wire \in [End -> Seq(ControlPacket)]
      /\ missed \in [End -> Nat] /\ wire' \in [End -> Seq(ControlPacket)]
      /\ missed' \in [End -> Nat] /\ r \in PeerSession /\ s \in PeerSession
    BY <1>2 DEF RatesInv, BfdInv, TypeOK
<1>4. session'[e] = v /\ session'[p] = r
    BY <1>2, <1>3
<1>5. /\ wire'[e] = w[e] /\ missed'[e] = m[e]
      /\ wire'[p] \in {wire[p], Append(wire[p], BuildControl(e, d))}
      /\ BuildControl(e, d) \in ControlPacket /\ BuildControl(e, d).state = d.state
    BY <1>2, Carried DEF Honest
<1> HIDE DEF d, x, v
<1>6. SUFFICES ASSUME v.state = "Up"
               PROVE  Clock(e)' /\ Alarm(e)'
    BY <1>4 DEF Clock, Alarm
<1>7. t.state = "Up" /\ d.state = "Up" /\ v.detect = t.detect /\ t.detect # 0
    BY <1>1, <1>6 DEF Watching
<1>8. Alarm(e)'
    BY <1>4, <1>7 DEF Alarm
<1>9. Engaged(e)' => Engaged(e)
  <2> SUFFICES ASSUME wire[p] \in Seq(UpPacket)
               PROVE  wire'[p] \in Seq(UpPacket)
    BY <1>4 DEF Engaged
  <2>1. BuildControl(e, d) \in UpPacket
    BY <1>5, <1>7 DEF UpPacket
  <2>2. Append(wire[p], BuildControl(e, d)) \in Seq(UpPacket)
    BY <2>1, Queue
  <2> QED
    BY <1>5, <2>2
<1>10. Clock(e)'
  <2> DEFINE u == Unit(e, v)
  <2> SUFFICES ASSUME Engaged(e)', Count(e)' < MULT[p]
               PROVE  t.detect > (MULT[p] - 1 - Count(e)') * u + Wait(r)
    BY <1>4, <1>7 DEF Clock
  <2>1. CASE Kept(e, t) /\ w = wire /\ m = missed
    <3>1. Count(e)' = Count(e)
        BY <1>5, <2>1 DEF Count
    <3>2. s.state = "Up" /\ t.detect = s.detect /\ u = Unit(e, s)
        BY <1>1, <1>7, <2>1 DEF Kept, Unit
    <3> QED
        BY <1>9, <3>1, <3>2 DEF TimingInv, Clock
  <2>2. CASE /\ wire[e] # <<>>
             /\ w = [wire EXCEPT ![e] = Tail(wire[e])] /\ m = [missed EXCEPT ![e] = 0]
             /\ IF s.live THEN t = OnPacket(e, s, Head(wire[e])) ELSE t = s
    <3>1. s.live
        BY <1>7, <2>2 DEF Sound, Watching, RatesInv, BfdInv, Watched
    <3>2. wire[e] \in Seq(Honest(p))
        BY DEF RatesInv
    <3>3. Head(wire[e]) \in Honest(p)
        BY <2>2, <3>2, Queue
    <3>4. Head(wire[e]) \in ControlPacket /\ Head(wire[e]).mult = MULT[p]
        BY <3>3 DEF Honest
    <3>5. t.detect = MULT[p] * u
        BY <1>1, <1>3, <2>2, <3>1, <3>4, Took DEF Unit
    <3>6. u \in Nat /\ u >= 1
      <4>1. RX[e] \in Nat /\ RX[e] >= 1 /\ v.desired \in Nat
        BY <1>1, Ends DEF PeerSession
      <4> QED
        BY <4>1 DEF Unit, Larger
    <3>7. Wait(r) \in Nat /\ Wait(r) < u
      <4>1. Watching(r) => Pace(p, r) <= u
        <5>1. PaceKnown' => (Watching(session'[p]) => Unit(e, session'[e]) >= Pace(p, session'[p]))
            BY <1>4, <1>6 DEF PaceKnown, Unit, Pace, EffectiveDesired, Watching
        <5> QED
            BY <1>4, <5>1
      <4>2. r.next_tx < Pace(p, r) /\ Heard(p, r)
        BY <1>2 DEF RatesInv
      <4>3. r.next_tx \in Nat /\ Pace(p, r) \in Nat
        BY <1>2, <1>3, <4>2, Quick DEF Heard, PeerSession
      <4> QED
        BY <3>6, <4>1, <4>2, <4>3 DEF Wait
    <3>8. Count(e)' \in Nat
      <4>1. missed'[e] \in Nat /\ Len(wire'[e]) \in Nat
        BY <1>3
      <4> QED
        BY <4>1 DEF Count
    <3>9. MULT[p] \in Nat
        BY <1>2, Ends
    <3> HIDE DEF u
    <3>10. MULT[p] * u > (MULT[p] - 1 - Count(e)') * u + Wait(r)
        BY <3>6, <3>7, <3>8, <3>9, Countdown
    <3> QED
        BY <3>5, <3>10
  <2>3. t.state # "Down"
    BY <1>7
  <2> QED
    BY <2>1, <2>2, <2>3 DEF Armed
<1> QED
    BY <1>8, <1>10

\* An end of another link does not notice.
LEMMA OtherLink ==
    ASSUME NEW f \in End, TimingInv, Peer[f] \in End,
           session'[f] = session[f], session'[Peer[f]] = session[Peer[f]],
           wire'[f] = wire[f], wire'[Peer[f]] = wire[Peer[f]], missed'[f] = missed[f]
    PROVE  Clock(f)' /\ Alarm(f)'
<1>1. Clock(f) /\ Alarm(f)
    BY DEF TimingInv
<1> QED
    BY <1>1 DEF Clock, Alarm, Engaged, Count, Unit, Wait, Watching

\* Nothing has been heard in the first state.
LEMMA StartTiming == Init => TimingInv
<1> SUFFICES ASSUME Init, NEW e \in End
             PROVE  Clock(e) /\ Alarm(e)
    BY DEF TimingInv
<1>1. session[e].state = "Down"
    BY DEF Init, New
<1> QED
    BY <1>1 DEF Clock, Alarm

\* A step keeps the countdown if afterwards both ends know the pace of the other.
LEMMA StepTiming ==
    ASSUME RatesInv, RatesInv', TimingInv, PaceKnown', [Next]_vars
    PROVE  TimingInv'
<1>1. /\ session \in [End -> PeerSession] /\ wire \in [End -> Seq(ControlPacket)]
      /\ missed \in [End -> Nat]
    BY DEF RatesInv, BfdInv, TypeOK
<1>2. ASSUME NEW e \in End, Timer(e) \/ Receive(e) \/ EchoReturn(e) \/ HandleCommand(e)
      PROVE  TimingInv'
  <2>1. PICK t, w, m :
              /\ t \in PeerSession /\ Sound(t) /\ Armed(e, t, w, m)
              /\ session' = [session EXCEPT ![e] = ServiceEcho(e, Transmit(e, Detect(t)))]
              /\ Sends(e, t, w, m)
    BY <1>2, Loop
  <2>2. Clock(e)' /\ Alarm(e)'
    BY <2>1, OwnSteps
  <2>3. Clock(Peer[e])' /\ Alarm(Peer[e])'
    BY <2>1, NeighbourSteps
  <2>4. ASSUME NEW f \in End, f # e, f # Peer[e]
        PROVE  Clock(f)' /\ Alarm(f)'
    <3>1. Peer[f] \in End /\ Peer[f] # e /\ Peer[f] # Peer[e] /\ Peer[e] \in End
        BY <2>4, Ends
    <3>2. session'[f] = session[f] /\ session'[Peer[f]] = session[Peer[f]]
        BY <1>1, <2>1, <2>4, <3>1
    <3>3. \A g \in End : g # Peer[e] => wire'[g] = w[g] /\ missed'[g] = m[g]
        BY <2>1, Carried
    <3>4. \A g \in End : g # e => w[g] = wire[g] /\ m[g] = missed[g]
        BY <1>1, <2>1 DEF Armed
    <3> QED
        BY <2>4, <3>1, <3>2, <3>3, <3>4, OtherLink
  <2>5. \A f \in End : Clock(f)' /\ Alarm(f)'
    BY <2>2, <2>3, <2>4
  <2> QED
    BY <2>5 DEF TimingInv
<1>3. CASE UNCHANGED <<session, wire, missed>>
  <2>1. ASSUME NEW f \in End
        PROVE  Clock(f)' /\ Alarm(f)'
    BY <1>3, Ends, OtherLink
  <2> QED
    BY <2>1 DEF TimingInv
<1>4. ASSUME NEW e \in End, Lose(e)
      PROVE  TimingInv'
  <2> DEFINE p == Peer[e]
  <2>1. /\ wire' = [wire EXCEPT ![e] = Tail(wire[e])] /\ session' = session
        /\ missed' = [missed EXCEPT ![e] = Lost(e, missed[e])] /\ wire[e] # <<>>
    BY <1>4 DEF Lose
  <2>2. p \in End /\ p # e /\ Peer[p] = e
    BY Ends
  <2>3. wire'[p] = wire[p] /\ missed'[p] = missed[p]
        /\ wire'[e] = Tail(wire[e]) /\ missed'[e] = Lost(e, missed[e])
    BY <1>1, <2>1, <2>2
  <2>4. wire[e] \in Seq(ControlPacket) /\ missed[e] \in Nat /\ MULT[p] \in Nat
    BY <1>1, <2>2, Ends
  <2>5. Len(wire[e]) \in Nat /\ Len(wire[e]) > 0 /\ Len(Tail(wire[e])) = Len(wire[e]) - 1
    BY <2>1, <2>4, Queue
  <2>6. /\ missed'[e] >= missed[e]
        /\ Count(e)' = Count(e) \/ Count(e)' >= MULT[p]
    <3>1. Count(e)' = missed'[e] + (Len(wire[e]) - 1)
        BY <2>3, <2>5 DEF Count
    <3>2. CASE missed[e] < MULT[p]
      <4>1. missed'[e] = missed[e] + 1
        BY <2>3, <3>2 DEF Lost
      <4> QED
        <5>1. Count(e)' = missed[e] + 1 + (Len(wire[e]) - 1)
            BY <3>1, <4>1
        <5>2. Count(e) = missed[e] + Len(wire[e])
            BY DEF Count
        <5> QED
            BY <2>4, <2>5, <4>1, <5>1, <5>2
    <3>3. CASE ~(missed[e] < MULT[p])
      <4>1. missed'[e] = missed[e]
        BY <2>3, <3>3 DEF Lost
      <4> QED
        <5>1. Count(e)' = missed[e] + (Len(wire[e]) - 1)
            BY <3>1, <4>1
        <5> QED
            BY <2>4, <2>5, <3>3, <4>1, <5>1
    <3> QED
        BY <3>2, <3>3
  <2>7. Clock(e)' /\ Alarm(e)'
    <3>1. Clock(e) /\ Alarm(e)
        BY DEF TimingInv
    <3>2. session' = session /\ (Engaged(e)' <=> Engaged(e))
        BY <2>1, <2>2, <2>3 DEF Engaged
    <3>3. Alarm(e)'
      <4>1. missed'[e] \in Nat
        BY <2>3, <2>4 DEF Lost
      <4> QED
        BY <2>4, <2>6, <3>1, <3>2, <4>1 DEF Alarm
    <3>4. Clock(e)'
      <4> SUFFICES ASSUME Count(e)' < MULT[p]
                   PROVE  Clock(e)'
        BY <3>2 DEF Clock
      <4>1. Count(e)' = Count(e)
        <5>1. Count(e)' \in Nat
            BY <2>3, <2>4, <2>5 DEF Count, Lost
        <5> QED
            BY <2>4, <2>6, <5>1
      <4> QED
        BY <3>1, <3>2, <4>1 DEF Clock
    <3> QED
        BY <3>3, <3>4
  <2>8. Clock(p)' /\ Alarm(p)'
    <3>1. Clock(p) /\ Alarm(p)
        BY <2>2 DEF TimingInv
    <3>2. session' = session /\ Count(p)' = Count(p)
        BY <2>1, <2>3 DEF Count
    <3>3. Engaged(p)' => Engaged(p)
      <4>1. wire[e] \in Seq(UpPacket) => Tail(wire[e]) \in Seq(UpPacket)
        BY <2>1, Queue
      <4> QED
        BY <2>1, <2>2, <2>3, <4>1 DEF Engaged
    <3> QED
        BY <2>3, <3>1, <3>2, <3>3 DEF Clock, Alarm
  <2>9. ASSUME NEW f \in End, f # e, f # p
        PROVE  Clock(f)' /\ Alarm(f)'
    <3>1. Peer[f] \in End /\ Peer[f] # e
        BY <2>9, Ends
    <3>2. wire'[f] = wire[f] /\ wire'[Peer[f]] = wire[Peer[f]] /\ missed'[f] = missed[f]
        BY <1>1, <2>1, <2>9, <3>1
    <3> QED
        BY <2>1, <3>1, <3>2, OtherLink
  <2>10. \A f \in End : Clock(f)' /\ Alarm(f)'
    BY <2>7, <2>8, <2>9
  <2> QED
    BY <2>10 DEF TimingInv
<1>5. ASSUME Tick, NEW e \in End
      PROVE  Clock(e)' /\ Alarm(e)'
  <2> DEFINE p == Peer[e]
             s == session[e]
             r == session[p]
  <2>1. p \in End
    BY Ends
  <2>2. /\ session'[e].state = s.state /\ session'[e].desired = s.desired
        /\ session'[e].detect = Less(s.detect) /\ s \in PeerSession
        /\ ~Due(e) /\ wire[e] = <<>>
    BY <1>5, Ticked
  <2>3. /\ session'[p].state = r.state /\ session'[p].next_tx = Less(r.next_tx)
        /\ ~Due(p) /\ wire[p] = <<>> /\ r \in PeerSession
    BY <1>5, <2>1, Ticked
  <2>4. wire' = wire /\ missed' = missed
    BY <1>5 DEF Tick
  <2>5. wire[p] \in Seq(UpPacket)
    <3>1. <<>> \in Seq(UpPacket)
        OBVIOUS
    <3> QED
        BY <2>3, <3>1
  <2>6. SUFFICES ASSUME s.state = "Up", Watching(r)
                 PROVE  Clock(e)' /\ Alarm(e)'
    <3>1. Engaged(e)' <=> Watching(r)
        BY <2>3, <2>4, <2>5 DEF Engaged, Watching
    <3> QED
        BY <2>2, <3>1 DEF Clock, Alarm
  <2>7. s.live /\ s.detect # Off /\ s.detect # 0 /\ r.live /\ r.next_tx # 0
    <3>1. s.live /\ s.detect # Off /\ r.live
        BY <2>1, <2>6 DEF RatesInv, BfdInv, Watched, Watching
    <3> QED
        BY <2>2, <2>3, <2>6, <3>1 DEF Due, Expired, Watching
  <2>8. s.detect \in Nat /\ s.detect > 0 /\ r.next_tx \in Nat /\ r.next_tx > 0
    <3>1. s.detect \in Deadlines /\ r.next_tx \in Nat
        BY <2>2, <2>3 DEF PeerSession
    <3> QED
        BY <2>7, <3>1 DEF Deadlines
  <2>9. session'[e].detect = s.detect - 1 /\ session'[p].next_tx = r.next_tx - 1
    BY <2>2, <2>3, <2>8 DEF Less
  <2>10. Count(e)' = missed[e] /\ Count(e) = missed[e] /\ missed[e] \in Nat
    <3>1. Len(wire[e]) = 0 /\ missed[e] \in Nat
        BY <1>1, <2>2
    <3> QED
        BY <2>4, <3>1 DEF Count
  <2>11. MULT[p] \in Nat
    BY <2>1, Ends
  <2> DEFINE c == (MULT[p] - 1 - missed[e]) * Unit(e, s)
  <2>12. c \in Int /\ (missed[e] < MULT[p] => c >= 0)
    <3>1. Unit(e, s) \in Nat
        BY <2>2, Ends DEF Unit, Larger, PeerSession
    <3>2. MULT[p] - 1 - missed[e] \in Int /\ (missed[e] < MULT[p] => MULT[p] - 1 - missed[e] \in Nat)
        BY <2>10, <2>11
    <3> QED
        BY <3>1, <3>2
  <2>13. Engaged(e)
    BY <2>6 DEF Engaged
  <2>14. missed[e] < MULT[p] => s.detect > c + r.next_tx
    BY <2>6, <2>10, <2>13 DEF TimingInv, Clock, Wait
  <2>15. missed[e] < MULT[p] => s.detect - 1 > c + (r.next_tx - 1) /\ s.detect - 1 > 0
    <3> HIDE DEF c
    <3> QED
        BY <2>8, <2>12, <2>14
  <2>16. Unit(e, session'[e]) = Unit(e, s) /\ Wait(session'[p]) = r.next_tx - 1
    BY <2>2, <2>3, <2>6, <2>9 DEF Unit, Wait, Watching
  <2>17. Clock(e)'
    BY <2>9, <2>10, <2>15, <2>16 DEF Clock
  <2>18. Alarm(e)'
    BY <2>4, <2>9, <2>10, <2>11, <2>15 DEF Alarm
  <2> QED
    BY <2>17, <2>18
<1>6. CASE Tick
  <2>1. \A e \in End : Clock(e)' /\ Alarm(e)'
    BY <1>5, <1>6
  <2> QED
    BY <2>1 DEF TimingInv
<1>7. CASE UNCHANGED vars
    BY <1>3, <1>7 DEF vars
<1> QED
    BY <1>2, <1>3, <1>4, <1>6, <1>7, Elsewhere DEF Next

\* The invariants give the property.
LEMMA AlarmsAreReal == RatesInv /\ TimingInv => NoFalseAlarm
<1> SUFFICES ASSUME RatesInv, TimingInv, NEW e \in End,
                    session[e].state = "Up", session[e].detect = 0,
                    session[Peer[e]].state = "Up"
             PROVE  missed[e] >= session[e].mult
    BY DEF NoFalseAlarm
<1>1. Engaged(e)
    BY DEF Engaged, Watching
<1>2. missed[e] >= MULT[Peer[e]]
    BY <1>1 DEF TimingInv, Alarm
<1>3. session[e].mult = MULT[Peer[e]]
    BY DEF RatesInv, Heard, Watching
<1> QED
    BY <1>2, <1>3

\* Detection time and jitter: whatever is lost, delayed, registered or restarted, for
\* any intervals, multipliers and queues, a session whose two ends are Up expires only
\* after as many lost packets as the multiplier, in every behaviour in which an Up
\* end reckons with the rate at which its neighbour sends.
THEOREM AlarmsAtKnownPace == Spec /\ []PaceKnown => []NoFalseAlarm
<1>1. RatesInv /\ RatesInv' /\ TimingInv /\ PaceKnown' /\ [Next]_vars => TimingInv'
    BY StepTiming
<1> QED
    BY <1>1, RatesKept, StartTiming, AlarmsAreReal, PTL DEF Spec
----------------------------------------------------------------------------
(* When the pace is known *)

\* The slow rate of a session that is forming is no slower than the agreed one.
NoSlowStart == \A e \in End : SLOW <= Larger(DESIRED[Peer[e]], RX[e])

\* With one rate throughout, what an end has heard is the rate.
LEMMA OneRate ==
    ASSUME NoSlowStart
    PROVE  RatesInv => PaceKnown
<1> SUFFICES ASSUME RatesInv, NEW e \in End, session[e].state = "Up"
             PROVE  Unit(e, session[e]) >= Pace(Peer[e], session[Peer[e]])
    BY DEF PaceKnown
<1> DEFINE p == Peer[e]
<1>1. p \in End /\ Peer[p] = e
    BY Ends
<1>2. session[e].desired >= DESIRED[p] /\ session[e].desired \in Nat
    BY DEF RatesInv, BfdInv, TypeOK, PeerSession, Heard, Watching
<1>3. SLOW \in Nat /\ DESIRED[p] \in Nat /\ RX[e] \in Nat
    BY <1>1, Settings
<1>4. SLOW <= Larger(DESIRED[p], RX[e])
    BY DEF NoSlowStart
<1> QED
    BY <1>1, <1>2, <1>3, <1>4 DEF Unit, Pace, EffectiveDesired, Larger

\* The one packet on the link to e, while the link holds one each way.
UpOn(e)   == wire[e] # <<>> /\ Head(wire[e]).state = "Up"
DownOn(e) == wire[e] # <<>> /\ Head(wire[e]).state = "Down"

\* The neighbour of e is Init, or can become it, only once: an Up end has then heard of
\* the slow rate, and takes no Up packet of an earlier session.
Handshake(e) ==
    LET a == session[e]
        b == session[Peer[e]]
    IN /\ (a.state = "Up" /\ (b.state = "Init" \/ DownOn(Peer[e]))) => a.desired >= SlowRate(Peer[e])
       /\ (UpOn(e) /\ (b.state = "Init" \/ DownOn(Peer[e]))) => a.state = "Down"
       /\ (b.state = "Up" /\ DownOn(Peer[e]) /\ a.state # "Down") => b.next_tx > 0
       /\ (b.state = "Up" /\ wire[e] # <<>> /\ ~UpOn(e)) => b.next_tx > 0

HandshakeInv == \A e \in End : Handshake(e)

\* An Up end whose neighbour is still forming has heard of its slow rate.
LEMMA HandshakeKnowsPace == RatesInv /\ HandshakeInv => PaceKnown
<1> SUFFICES ASSUME RatesInv, HandshakeInv, NEW e \in End, session[e].state = "Up",
                    Watching(session[Peer[e]])
             PROVE  Unit(e, session[e]) >= Pace(Peer[e], session[Peer[e]])
    BY DEF PaceKnown
<1> DEFINE p == Peer[e]
<1>1. p \in End /\ Peer[p] = e
    BY Ends
<1>2. session[e].desired >= DESIRED[p] /\ session[e].desired \in Nat
    BY DEF RatesInv, BfdInv, TypeOK, PeerSession, Heard, Watching
<1>3. DESIRED[p] \in Nat /\ RX[e] \in Nat /\ SlowRate(p) \in Nat
    BY <1>1, Ends
<1>4. session[p].state = "Init" => session[e].desired >= SlowRate(p)
    BY DEF HandshakeInv, Handshake
<1>5. EffectiveDesired(p, session[p]) = IF session[p].state = "Up" THEN DESIRED[p] ELSE SlowRate(p)
    BY DEF EffectiveDesired, SlowRate
<1>6. session[p].state \in {"Init", "Up"}
    BY DEF Watching
<1> QED
    BY <1>1, <1>2, <1>3, <1>4, <1>5, <1>6 DEF Unit, Pace, Larger

\* A step of e's run loop keeps the handshake of both ends.
LEMMA LoopHandshake ==
    ASSUME WIRE = 1, RatesInv, HandshakeInv,
           NEW e \in End, NEW t \in PeerSession, NEW w, NEW m,
           Sound(t), Armed(e, t, w, m), Sends(e, t, w, m),
           session' = [session EXCEPT ![e] = ServiceEcho(e, Transmit(e, Detect(t)))]
    PROVE  Handshake(e)' /\ Handshake(Peer[e])'
<1> DEFINE d == Detect(t)
           x == Transmit(e, d)
           v == ServiceEcho(e, x)
           p == Peer[e]
           s == session[e]
           r == session[p]
           k == Head(wire[e])
<1>1. /\ v \in PeerSession /\ v.desired = t.desired /\ d \in PeerSession /\ d.rx = t.rx
      /\ \/ v.next_tx = 0 /\ v.state = "Down"
         \/ v.state = d.state /\ Transmits(d) /\ v.next_tx = TransmitInterval(e, d)
         \/ v.state = d.state /\ ~Transmits(d) /\ v.next_tx = d.next_tx
      /\ Watching(v) => d = t /\ v.state = t.state
    BY Served
<1>2. p \in End /\ p # e /\ Peer[p] = e
    BY Ends
<1>3. /\ session \in [End -> PeerSession] /\ r \in PeerSession /\ s \in PeerSession
      /\ wire \in [End -> Seq(ControlPacket)] /\ wire[e] \in Seq(Honest(p))
      /\ wire[p] \in Seq(Honest(e)) /\ Len(wire[e]) <= 1
    BY <1>2 DEF RatesInv, BfdInv, TypeOK
<1>4. session'[e] = v /\ session'[p] = r
    BY <1>2, <1>3
<1>5. /\ wire'[e] = w[e] /\ BuildControl(e, d) \in Honest(e)
      /\ BuildControl(e, d).state = d.state
      /\ \/ wire'[p] = wire[p]
         \/ /\ Transmits(d) /\ Len(wire[p]) < WIRE
            /\ wire'[p] = Append(wire[p], BuildControl(e, d))
    BY <1>2, Carried
<1> HIDE DEF d, x, v
\* The link to the neighbour: as it was, or with the one packet just sent.
<1>6. \/ wire'[p] = wire[p]
      \/ /\ Transmits(d) /\ wire[p] = <<>> /\ wire'[p] # <<>>
         /\ Head(wire'[p]).state = d.state
  <2>1. CASE wire'[p] = wire[p]
    BY <2>1
  <2>2. CASE /\ Transmits(d) /\ Len(wire[p]) < WIRE
             /\ wire'[p] = Append(wire[p], BuildControl(e, d))
    <3>1. wire[p] = <<>>
        BY <1>3, <2>2, Queue
    <3>2. Append(wire[p], BuildControl(e, d)) # <<>>
      <4> DEFINE q == Append(wire[p], BuildControl(e, d))
      <4>1. q \in Seq(Honest(e)) /\ Len(q) = Len(wire[p]) + 1 /\ Len(wire[p]) \in Nat
        BY <1>3, <1>5, Queue
      <4> HIDE DEF q
      <4>2. q # <<>>
        BY <4>1, Queue
      <4> QED
        BY <4>2 DEF q
    <3>3. Head(Append(wire[p], BuildControl(e, d))) = BuildControl(e, d)
        BY <1>3, <1>5, <3>1, Queue
    <3> QED
        BY <1>5, <2>2, <3>1, <3>2, <3>3
  <2> QED
    BY <1>5, <2>1, <2>2
\* The arm: the state is kept, lost, or follows from the one packet on the link.
<1>7. \/ t.state = s.state /\ t.desired = s.desired /\ t.next_tx = s.next_tx /\ wire'[e] = wire[e]
      \/ t.state = "Down" /\ wire'[e] = wire[e]
      \/ t.state = "Down" /\ wire'[e] = <<>>
      \/ /\ wire[e] # <<>> /\ wire'[e] = <<>>
         /\ k \in Honest(p) /\ t.desired = k.desired
         /\ t.state = Reception(s.state, k.state)
  <2>1. CASE Kept(e, t) /\ w = wire
    BY <1>5, <2>1 DEF Kept
  <2>2. CASE t.state = "Down" /\ w = wire
    BY <1>5, <2>2
  <2>3. CASE /\ wire[e] # <<>> /\ w = [wire EXCEPT ![e] = Tail(wire[e])]
             /\ IF s.live THEN t = OnPacket(e, s, k) ELSE t = s
    <3>1. k \in Honest(p) /\ Tail(wire[e]) \in Seq(Honest(p))
          /\ Len(Tail(wire[e])) = Len(wire[e]) - 1 /\ Len(wire[e]) \in Nat
        BY <1>3, <2>3, Queue
    <3>2. Tail(wire[e]) = <<>>
        BY <1>3, <2>3, <3>1, Queue
    <3>3. wire'[e] = <<>>
        BY <1>3, <1>5, <2>3, <3>2
    <3>4. CASE s.live
      <4>1. k \in ControlPacket
        BY <3>1 DEF Honest
      <4> QED
        BY <1>3, <2>3, <3>1, <3>3, <3>4, <4>1, Took
    <3>5. CASE ~s.live
      <4>1. ~Watching(s)
        BY <3>5 DEF RatesInv, BfdInv, Watched
      <4>2. t.state = "Down"
        BY <1>3, <2>3, <3>5, <4>1 DEF Watching, PeerSession, State
      <4> QED
        BY <3>3, <4>2
    <3> QED
        BY <3>4, <3>5
  <2> QED
    BY <2>1, <2>2, <2>3 DEF Armed
\* A session that is forming or Up has just sent, or has time left until it does.
<1>8. Watching(v) => v.next_tx > 0
  <2> SUFFICES ASSUME Watching(v)
               PROVE  v.next_tx > 0
    OBVIOUS
  <2>1. d = t /\ t.live /\ v.state # "Down"
    BY <1>1 DEF Sound, Watching
  <2>2. CASE Transmits(d)
    <3>1. d.rx <= RX[Peer[e]]
        BY <1>1, ArmFacts DEF Heard
    <3>2. TransmitInterval(e, d) \in Nat /\ TransmitInterval(e, d) >= 1
        BY <1>1, <3>1, Quick
    <3> QED
        BY <1>1, <2>1, <2>2, <3>2
  <2>3. CASE ~Transmits(d)
    <3>1. d.next_tx # 0 /\ d.next_tx \in Nat
        BY <1>1, <2>1, <2>3 DEF Transmits, PeerSession
    <3> QED
        BY <1>1, <2>1, <2>3, <3>1
  <2> QED
    BY <2>2, <2>3
<1>9. /\ v.state \in {"Down", "Init", "Up"} /\ s.state \in {"Down", "Init", "Up"}
      /\ r.state \in {"Down", "Init", "Up"}
      /\ wire[e] # <<>> => k.state \in {"Down", "Init", "Up"}
  <2>1. wire[e] # <<>> => k \in Honest(p)
    BY <1>3, Queue
  <2> QED
    BY <1>1, <1>3, <2>1 DEF PeerSession, State, Honest, ControlPacket
<1>10. v.state # "Down" => /\ Watching(v) /\ d.state = v.state /\ t.state = v.state
    BY <1>1, <1>9 DEF Watching
<1>11. Handshake(e) /\ Handshake(p)
    BY <1>2 DEF HandshakeInv
\* What the neighbour of e may have on the link after the step, it had before.
<1>12. /\ DownOn(p)' /\ v.state # "Down" => DownOn(p)
       /\ DownOn(e)' => DownOn(e) /\ wire'[e] = wire[e]
       /\ UpOn(e)' => UpOn(e) /\ wire'[e] = wire[e]
       /\ UpOn(p)' => UpOn(p) \/ (Transmits(d) /\ d.state = "Up")
  <2>1. wire'[e] \in {wire[e], <<>>}
    BY <1>7
  <2> QED
    BY <1>6, <1>10, <2>1 DEF DownOn, UpOn
<1>13. v.state = "Init" => s.state = "Init" \/ DownOn(e)
    BY <1>7, <1>9, <1>10 DEF Reception, DownOn
<1>14. Handshake(e)'
  <2>1. ASSUME v.state = "Up", r.state = "Init" \/ DownOn(p)'
        PROVE  v.desired >= SlowRate(p)
    <3>1. r.state = "Init" \/ DownOn(p)
        BY <1>12, <2>1
    <3>2. t.state = "Up" /\ v.desired = t.desired
        BY <1>1, <1>10, <2>1
    <3>3. CASE t.state = s.state /\ t.desired = s.desired
        BY <1>11, <3>1, <3>2, <3>3 DEF Handshake
    <3>4. CASE /\ wire[e] # <<>> /\ k \in Honest(p) /\ t.desired = k.desired
               /\ t.state = Reception(s.state, k.state)
      <4>1. k.state # "Up"
        <5> SUFFICES ASSUME k.state = "Up"
                     PROVE  FALSE
            OBVIOUS
        <5>1. s.state = "Down"
            BY <1>11, <3>1, <3>4 DEF Handshake, UpOn
        <5> QED
            BY <3>2, <3>4, <5>1 DEF Reception
      <4>2. k.desired = SlowRate(p)
        BY <3>4, <4>1 DEF Honest
      <4>3. SlowRate(p) \in Nat
        BY <1>2, Ends
      <4> QED
        BY <3>2, <3>4, <4>2, <4>3
    <3> QED
        BY <1>7, <3>2, <3>3, <3>4
  <2>2. ASSUME UpOn(e)', r.state = "Init" \/ DownOn(p)'
        PROVE  v.state = "Down"
    <3> SUFFICES ASSUME v.state # "Down"
                 PROVE  FALSE
        OBVIOUS
    <3>1. UpOn(e) /\ wire'[e] = wire[e] /\ (r.state = "Init" \/ DownOn(p))
        BY <1>12, <2>2
    <3>2. s.state = "Down"
        BY <1>11, <3>1 DEF Handshake
    <3>3. wire'[e] # <<>>
        BY <2>2 DEF UpOn
    <3> QED
        BY <1>7, <1>10, <3>2, <3>3
  <2>3. ASSUME r.state = "Up", DownOn(p)', v.state # "Down"
        PROVE  r.next_tx > 0
    <3>1. DownOn(p)
        BY <1>12, <2>3
    <3>2. CASE s.state # "Down"
        BY <1>11, <2>3, <3>1, <3>2 DEF Handshake
    <3>3. CASE s.state = "Down"
      <4>1. wire[e] # <<>> /\ k.state # "Up"
        BY <1>7, <1>10, <2>3, <3>3 DEF Reception
      <4> QED
        BY <1>11, <2>3, <4>1 DEF Handshake, UpOn
    <3> QED
        BY <3>2, <3>3
  <2>4. ASSUME r.state = "Up", wire'[e] # <<>>, ~UpOn(e)'
        PROVE  r.next_tx > 0
    <3>1. wire'[e] = wire[e]
        BY <1>7, <2>4
    <3> QED
        BY <1>11, <2>4, <3>1 DEF Handshake, UpOn
  <2> QED
    BY <1>4, <2>1, <2>2, <2>3, <2>4 DEF Handshake
<1>15. Handshake(p)'
  <2>1. v.state = "Init" \/ DownOn(e)' => s.state = "Init" \/ DownOn(e)
    BY <1>12, <1>13
  <2>2. ASSUME r.state = "Up", v.state = "Init" \/ DownOn(e)'
        PROVE  r.desired >= SlowRate(e)
    BY <1>2, <1>11, <2>1, <2>2 DEF Handshake
  <2>3. ASSUME UpOn(p)', v.state = "Init" \/ DownOn(e)'
        PROVE  r.state = "Down"
    <3>1. CASE UpOn(p)
        BY <1>2, <1>11, <2>1, <2>3, <3>1 DEF Handshake
    <3>2. CASE Transmits(d) /\ d.state = "Up"
      <4>1. v.state # "Init"
        BY <1>10, <3>2
      <4>2. DownOn(e) /\ wire'[e] = wire[e] /\ wire'[e] # <<>>
        BY <1>12, <2>3, <4>1 DEF DownOn
      <4>3. d = t
        BY <3>2, Served DEF d
      <4>4. s.state = "Up" /\ s.next_tx = 0
        BY <1>7, <3>2, <4>2, <4>3 DEF Transmits
      <4> QED
        BY <1>2, <1>3, <1>9, <1>11, <4>2, <4>4 DEF Handshake
    <3> QED
        BY <1>12, <2>3, <3>1, <3>2
  <2>4. v.state = "Up" => v.next_tx > 0
    BY <1>8 DEF Watching
  <2> QED
    BY <1>2, <1>4, <2>2, <2>3, <2>4 DEF Handshake
<1> QED
    BY <1>14, <1>15

\* Every step keeps the handshake.
LEMMA StepHandshake ==
    ASSUME WIRE = 1, RatesInv, HandshakeInv, [Next]_vars
    PROVE  HandshakeInv'
<1>1. session \in [End -> PeerSession] /\ wire \in [End -> Seq(ControlPacket)]
    BY DEF RatesInv, BfdInv, TypeOK
<1>2. ASSUME NEW f \in End,
             session'[f] = session[f], session'[Peer[f]] = session[Peer[f]],
             wire'[f] = wire[f], wire'[Peer[f]] = wire[Peer[f]]
      PROVE  Handshake(f)'
  <2>1. Handshake(f)
    BY DEF HandshakeInv
  <2> QED
    BY <1>2, <2>1 DEF Handshake, UpOn, DownOn
<1>3. ASSUME NEW e \in End, Timer(e) \/ Receive(e) \/ EchoReturn(e) \/ HandleCommand(e)
      PROVE  HandshakeInv'
  <2>1. PICK t, w, m :
              /\ t \in PeerSession /\ Sound(t) /\ Armed(e, t, w, m)
              /\ session' = [session EXCEPT ![e] = ServiceEcho(e, Transmit(e, Detect(t)))]
              /\ Sends(e, t, w, m)
    BY <1>3, Loop
  <2>2. Handshake(e)' /\ Handshake(Peer[e])'
    BY <2>1, LoopHandshake
  <2>3. ASSUME NEW f \in End, f # e, f # Peer[e]
        PROVE  Handshake(f)'
    <3>1. Peer[f] \in End /\ Peer[f] # e /\ Peer[f] # Peer[e] /\ Peer[e] \in End
        BY <2>3, Ends
    <3>2. session'[f] = session[f] /\ session'[Peer[f]] = session[Peer[f]]
        BY <1>1, <2>1, <2>3, <3>1
    <3>3. \A g \in End : g # Peer[e] => wire'[g] = w[g]
        BY <2>1, Carried
    <3>4. \A g \in End : g # e => w[g] = wire[g]
        BY <1>1, <2>1 DEF Armed
    <3> QED
        BY <1>2, <2>3, <3>1, <3>2, <3>3, <3>4
  <2>4. \A f \in End : Handshake(f)'
    BY <2>2, <2>3
  <2> QED
    BY <2>4 DEF HandshakeInv
<1>4. CASE UNCHANGED <<session, wire, missed>>
    BY <1>2, <1>4 DEF HandshakeInv
<1>5. ASSUME NEW e \in End, Lose(e)
      PROVE  HandshakeInv'
  <2>1. session' = session /\ wire' = [wire EXCEPT ![e] = Tail(wire[e])] /\ wire[e] # <<>>
    BY <1>5 DEF Lose
  <2>2. wire'[e] = <<>>
    <3>1. wire[e] \in Seq(ControlPacket) /\ Len(wire[e]) <= 1
        BY DEF RatesInv, BfdInv, TypeOK
    <3>2. Tail(wire[e]) \in Seq(ControlPacket) /\ Len(Tail(wire[e])) = Len(wire[e]) - 1
          /\ Len(wire[e]) \in Nat /\ Len(wire[e]) # 0
        BY <2>1, <3>1, Queue
    <3>3. Tail(wire[e]) = <<>>
        BY <3>1, <3>2, Queue
    <3> QED
        BY <1>1, <2>1, <3>3
  <2>3. ASSUME NEW f \in End
        PROVE  Handshake(f)'
    <3>1. Peer[f] \in End /\ Handshake(f)
        BY Ends DEF HandshakeInv
    <3>2. /\ wire'[f] \in {wire[f], <<>>} /\ wire'[Peer[f]] \in {wire[Peer[f]], <<>>}
          /\ session' = session
        BY <1>1, <2>1, <2>2, <3>1
    <3> QED
        BY <3>1, <3>2 DEF Handshake, UpOn, DownOn
  <2> QED
    BY <2>3 DEF HandshakeInv
<1>6. CASE Tick
  <2>1. ASSUME NEW f \in End
        PROVE  Handshake(f)'
    <3>1. Peer[f] \in End /\ Handshake(f)
        BY Ends DEF HandshakeInv
    <3>2. session'[f].state = session[f].state /\ session'[f].desired = session[f].desired
          /\ wire[f] = <<>>
        BY <1>6, Ticked
    <3>3. session'[Peer[f]].state = session[Peer[f]].state /\ wire[Peer[f]] = <<>>
        BY <1>6, <3>1, Ticked
    <3>4. wire' = wire
        BY <1>6 DEF Tick
    <3> QED
        BY <3>1, <3>2, <3>3, <3>4 DEF Handshake, UpOn, DownOn
  <2> QED
    BY <2>1 DEF HandshakeInv
<1>7. CASE UNCHANGED vars
    BY <1>4, <1>7 DEF vars
<1> QED
    BY <1>3, <1>4, <1>5, <1>6, <1>7, Elsewhere DEF Next

\* Both ends are Down and nothing is under way in the first state.
LEMMA StartHandshake == Init => HandshakeInv
<1> SUFFICES ASSUME Init, NEW e \in End
             PROVE  Handshake(e)
    BY DEF HandshakeInv
<1>1. Peer[e] \in End
    BY Ends
<1>2. session[e].state = "Down" /\ session[Peer[e]].state = "Down"
      /\ wire[e] = <<>> /\ wire[Peer[e]] = <<>>
    BY <1>1 DEF Init, New
<1> QED
    BY <1>2 DEF Handshake, UpOn, DownOn

\* The detection time of a session whose two ends are Up never runs out before the
\* neighbour's multiplier of packets is lost in a row: neither jitter, nor the slow
\* start and the change of rate as the session comes up, nor a registration that comes
\* and goes looks like a failure (transmit_interval, detection_time, on_packet), for
\* any intervals, multipliers, jitter and Echo settings.  It needs that an Up packet of
\* an earlier session is not taken for the present one's, as the daemon does not compare
\* discriminators: the slow start is no slower than the agreed rate, or at most one
\* packet is under way in each direction.
THEOREM AlarmsGenuine ==
    ASSUME NoSlowStart \/ WIRE = 1
    PROVE  Spec => []NoFalseAlarm
<1>1. CASE NoSlowStart
  <2>1. RatesInv => PaceKnown
    BY <1>1, OneRate
  <2> QED
    BY <2>1, RatesKept, AlarmsAtKnownPace, PTL
<1>2. CASE WIRE = 1
  <2>1. RatesInv /\ HandshakeInv /\ [Next]_vars => HandshakeInv'
    BY <1>2, StepHandshake
  <2>2. Spec => []HandshakeInv
    BY <2>1, RatesKept, StartHandshake, PTL DEF Spec
  <2> QED
    BY <2>2, RatesKept, HandshakeKnowsPace, AlarmsAtKnownPace, PTL
<1> QED
    BY <1>1, <1>2
=============================================================================
