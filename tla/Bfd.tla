-------------------------------- MODULE Bfd --------------------------------
(* Bidirectional Forwarding Detection between the two ends of one link: the   *)
(* session state machine of wren-bfd (session.rs), the daemon's run loop with *)
(* its transmit, detection and Echo deadlines (bfd.rs), and the protocols     *)
(* that register with it and are told when a session that was Up falls.       *)
(*                                                                            *)
(* Every arm of the loop's select! is followed by `service` and               *)
(* `service_echo`, so an action here is one arm and both passes.  A deadline  *)
(* is the time left to it: 0 is due, Off is not armed.  Control packets keep  *)
(* their order on the link and may be lost.  Both ends run this code, so no   *)
(* packet is AdminDown or carries a Poll; sessions are unauthenticated.       *)
EXTENDS Integers, Sequences, FiniteSets

CONSTANTS
    End,        \* the two ends of the link
    Peer,       \* the other end
    Consumer,   \* the protocols that may register a peer
    USERS,      \* those with `bfd = true` at each end
    REGISTERED, \* the registrations sent once, at start-up (BGP neighbours)
    DESIRED,    \* desired_min_tx_us of each end
    RX,         \* required_min_rx_us of each end
    MULT,       \* detect_mult of each end
    PERCENT,    \* the jitter of each end's transmit interval, in percent
    ECHO,       \* the Echo interval of each end, 0 when Echo is off
    SLOW,       \* SLOW_TX_FLOOR_US
    QUEUE,      \* QUERY_QUEUE, the capacity of a consumer's channel
    COMMANDS,   \* BFD_QUEUE, the capacity of the registration channel
    WIRE        \* bound: Control packets in flight to one end

ASSUME LinkAssumption ==
    /\ Peer \in [End -> End]
    /\ \A e \in End : Peer[e] # e /\ Peer[Peer[e]] = e
    /\ USERS \in [End -> SUBSET Consumer]
    /\ REGISTERED \in [End -> Seq(Consumer)]
    /\ \A e \in End : Len(REGISTERED[e]) <= COMMANDS

ASSUME TimingAssumption ==
    /\ DESIRED \in [End -> Nat \ {0, 1}] /\ RX \in [End -> Nat \ {0}]
    /\ MULT \in [End -> Nat \ {0}] /\ PERCENT \in [End -> 75 .. 90]
    /\ ECHO \in [End -> Nat]
    /\ SLOW \in Nat \ {0} /\ QUEUE \in Nat \ {0}
    /\ COMMANDS \in Nat \ {0} /\ WIRE \in Nat \ {0}

VARIABLES
    session,    \* session[e]: the PeerSession of end e, if it is live
    wire,       \* wire[e]: Control packets on their way to e
    looping,    \* looping[e]: an Echo packet of e is in the forwarding plane
    link,       \* link[e]: Control packets reach e
    commands,   \* commands[e]: the registration channel
    notes,      \* notes[e][c]: down notifications waiting for consumer c
    adjacent,   \* adjacent[e]: consumers with an adjacency over the link
    respawned,  \* respawned[e]: consumers the supervisor has restarted
    missed,     \* missed[e]: packets to e lost since the last one delivered
    riding      \* riding[e]: adjacent subscribers that have seen the session Up

vars == <<session, wire, looping, link, commands, notes, adjacent, respawned,
          missed, riding>>

Static(e) == {REGISTERED[e][i] : i \in DOMAIN REGISTERED[e]}
Off == -1
Deadlines == Nat \cup {Off}
State == {"Down", "Init", "Up"}
Larger(m, n) == IF m >= n THEN m ELSE n

PeerSession == [live : BOOLEAN, state : State, discr : BOOLEAN,
                desired : Nat, rx : Nat, mult : Nat,
                next_tx : Nat, detect : Deadlines,
                subscribers : SUBSET Consumer,
                echo_tx : Nat, echo_rx : Deadlines]
ControlPacket == [state : State, discr : BOOLEAN, desired : Nat, rx : Nat, mult : Nat]
Command == [op : {"Register", "Deregister"}, consumer : Consumer]

\* Session::new, inside a session with no subscriber.
New(live, subs) ==
    [live |-> live, state |-> "Down", discr |-> FALSE,
     desired |-> 1, rx |-> 1, mult |-> 1, next_tx |-> 0, detect |-> Off,
     subscribers |-> subs, echo_tx |-> 0, echo_rx |-> Off]

\* The static registrations are sent while the daemon starts.
Init ==
    /\ session = [e \in End |-> New(FALSE, {})]
    /\ wire = [e \in End |-> <<>>]
    /\ looping = [e \in End |-> FALSE]
    /\ link = [e \in End |-> TRUE]
    /\ commands = [e \in End |-> [i \in DOMAIN REGISTERED[e] |->
                                    [op |-> "Register", consumer |-> REGISTERED[e][i]]]]
    /\ notes = [e \in End |-> [c \in Consumer |-> 0]]
    /\ adjacent = [e \in End |-> {}]
    /\ respawned = [e \in End |-> {}]
    /\ missed = [e \in End |-> 0]
    /\ riding = [e \in End |-> {}]
----------------------------------------------------------------------------
(* The session *)

EffectiveDesired(e, s) ==
    IF s.state = "Up" THEN DESIRED[e] ELSE Larger(DESIRED[e], SLOW)

\* Mutant: the slow rate is kept once the session is Up.
TransmitIntervalSlow(e, s) ==
    (Larger(Larger(DESIRED[e], SLOW), s.rx) * PERCENT[e]) \div 100

TransmitInterval(e, s) == (Larger(EffectiveDesired(e, s), s.rx) * PERCENT[e]) \div 100

DetectionTime(e, s) == s.mult * Larger(RX[e], s.desired)

BuildControl(e, s) ==
    [state |-> s.state, discr |-> s.discr,
     desired |-> EffectiveDesired(e, s), rx |-> RX[e], mult |-> MULT[e]]

\* ControlPacket::decode: your_discr may be zero only while the sender is Down.
Decodes(pkt) == pkt.discr \/ pkt.state = "Down"

\* Mutants: an Up session ignores Down; Init does not answer Up.
ReceptionDeaf(own, got) ==
    CASE own = "Down" /\ got = "Down"             -> "Init"
      [] own \in {"Down", "Init"} /\ got = "Init" -> "Up"
      [] own = "Init" /\ got = "Up"               -> "Up"
      [] OTHER                                    -> own
ReceptionStuck(own, got) ==
    CASE own = "Down" /\ got = "Down"             -> "Init"
      [] own \in {"Down", "Init"} /\ got = "Init" -> "Up"
      [] own = "Up" /\ got = "Down"               -> "Down"
      [] OTHER                                    -> own

\* The state after a packet in state `got` is received in state `own`.
Reception(own, got) ==
    CASE own = "Down" /\ got = "Down"             -> "Init"
      [] own \in {"Down", "Init"} /\ got = "Init" -> "Up"
      [] own = "Init" /\ got = "Up"               -> "Up"
      [] own = "Up" /\ got = "Down"               -> "Down"
      [] OTHER                                    -> own

\* Mutant: only an armed detection time is set again.
OnPacketUnarmed(e, s, pkt) ==
    LET to == Reception(s.state, pkt.state)
        t  == [s EXCEPT !.state = to,
                        !.discr = ~(s.state = "Up" /\ to = "Down"),
                        !.desired = pkt.desired, !.rx = pkt.rx, !.mult = pkt.mult,
                        !.next_tx = IF to = s.state THEN s.next_tx ELSE 0]
    IN IF s.detect = Off THEN t ELSE [t EXCEPT !.detect = DetectionTime(e, t)]

\* Session::on_packet, and the deadlines on_receive sets after it.
OnPacket(e, s, pkt) ==
    LET to == Reception(s.state, pkt.state)
        t  == [s EXCEPT !.state = to,
                        !.discr = ~(s.state = "Up" /\ to = "Down"),
                        !.desired = pkt.desired, !.rx = pkt.rx, !.mult = pkt.mult,
                        !.next_tx = IF to = s.state THEN s.next_tx ELSE 0]
    IN [t EXCEPT !.detect = DetectionTime(e, t)]

\* on_detect_timeout and on_echo_timeout, with the runner's handling of both.
Fall(s) == [s EXCEPT !.state = "Down", !.discr = FALSE, !.detect = Off, !.next_tx = 0]

Watching(s) == s.state \in {"Init", "Up"}
Expired(s)  == s.live /\ s.detect = 0 /\ Watching(s)

\* service, first half: an elapsed detection time fails the session.
Detect(s) == IF Expired(s) THEN Fall(s) ELSE s

\* service, second half: a due Control packet is sent.
Transmits(s)   == s.live /\ s.next_tx = 0
Transmit(e, s) == IF Transmits(s) THEN [s EXCEPT !.next_tx = TransmitInterval(e, s)] ELSE s

EchoRuns(e, s)  == s.live /\ ECHO[e] > 0
EchoFails(e, s) == EchoRuns(e, s) /\ s.state = "Up" /\ s.echo_rx = 0
EchoSends(e, s) == EchoRuns(e, s) /\ s.state = "Up" /\ s.echo_rx # 0 /\ s.echo_tx = 0

\* service_echo: an unresolved neighbour address is an Echo packet that is lost.
ServiceEcho(e, s) ==
    CASE EchoFails(e, s) -> [Fall(s) EXCEPT !.echo_rx = Off]
      [] EchoSends(e, s) -> [s EXCEPT !.echo_tx = ECHO[e]]
      [] EchoRuns(e, s) /\ s.state # "Up" -> [s EXCEPT !.echo_rx = Off]
      [] OTHER -> s
----------------------------------------------------------------------------
(* The run loop *)

Fell(s, t) == s.live /\ s.state = "Up" /\ t.state = "Down"

\* Mutant: the channel is not bounded.
NotifyDownAll(e, told) ==
    [c \in Consumer |-> IF c \in told \ respawned[e] THEN notes[e][c] + 1 ELSE notes[e][c]]

\* notify_down: try_send drops the notification when the channel is full, and
\* fails when the receiver is gone.
NotifyDown(e, told) ==
    [c \in Consumer |-> IF c \in told \ respawned[e] /\ notes[e][c] < QUEUE
                          THEN notes[e][c] + 1 ELSE notes[e][c]]

Lost(e, n) == IF n < MULT[Peer[e]] THEN n + 1 ELSE n

\* Mutant: a fall the neighbour signals is not reported.
ToldTimeouts(e, t) ==
    LET d == Detect(t)
        x == Transmit(e, d)
    IN IF Fell(t, d) \/ Fell(x, ServiceEcho(e, x)) THEN t.subscribers ELSE {}

\* The session t an arm leaves at end e is Down after it was Up before the arm, or
\* falls in the detection or the Echo pass: its subscribers are told.
Told(e, t) ==
    LET d == Detect(t)
        x == Transmit(e, d)
    IN IF Fell(session[e], t) \/ Fell(t, d) \/ Fell(x, ServiceEcho(e, x))
         THEN t.subscribers ELSE {}

\* The two passes over the session t an arm leaves at end e, with `echo` looping.
Serviced(e, t, echo) ==
    LET x == Transmit(e, Detect(t))
        v == ServiceEcho(e, x)
    IN /\ session' = [session EXCEPT ![e] = v]
       /\ notes' = [notes EXCEPT ![e] = NotifyDown(e, Told(e, t))]
       /\ looping' = [looping EXCEPT ![e] = EchoSends(e, x) \/ echo]
       /\ riding' = [riding EXCEPT ![e] = {c \in adjacent[e] \cap v.subscribers :
                                             v.state = "Up" \/ c \in @}]
       /\ UNCHANGED <<link, adjacent, respawned>>

\* What service puts on the wire for the session t.
Sent(e, t) == IF Transmits(Detect(t)) THEN <<BuildControl(e, Detect(t))>> ELSE <<>>

\* The packets of end e leave for its peer, with w in flight; a link that is cut or
\* full loses them.
Carries(p, w) == link[p] /\ Len(w[p]) < WIRE

Sends(e, t, w, m) ==
    LET p == Peer[e] IN
    /\ wire' = IF Carries(p, w) THEN [w EXCEPT ![p] = @ \o Sent(e, t)] ELSE w
    /\ missed' = IF Carries(p, w) \/ Sent(e, t) = <<>> THEN m
                 ELSE [m EXCEPT ![p] = Lost(p, @)]

Due(e) ==
    LET s == session[e] IN
    s.live /\ \/ s.next_tx = 0
              \/ Expired(s)
              \/ EchoFails(e, s) \/ EchoSends(e, s)

\* The timer arm.
Timer(e) ==
    /\ Due(e)
    /\ Serviced(e, session[e], looping[e])
    /\ Sends(e, session[e], wire, missed)
    /\ UNCHANGED commands

\* The receive arm: on_receive.
Receive(e) ==
    /\ wire[e] # <<>>
    /\ LET s == session[e]
           t == IF s.live /\ Decodes(Head(wire[e])) THEN OnPacket(e, s, Head(wire[e])) ELSE s
       IN /\ Serviced(e, t, looping[e])
          /\ Sends(e, t, [wire EXCEPT ![e] = Tail(@)], [missed EXCEPT ![e] = 0])
    /\ UNCHANGED commands

\* The Echo arm: on_echo_receive.
EchoReturn(e) ==
    /\ looping[e]
    /\ LET t == [session[e] EXCEPT !.echo_rx = ECHO[e] * MULT[e]] IN
       Serviced(e, t, FALSE) /\ Sends(e, t, wire, missed)
    /\ UNCHANGED commands

\* The registration arm: handle_command.  The transmit socket of a new session is taken
\* to open: where it does not, the code makes no session and tells nobody.
Handle(s, cmd) ==
    IF cmd.op = "Register"
      THEN IF s.live THEN [s EXCEPT !.subscribers = @ \cup {cmd.consumer}]
                     ELSE New(TRUE, {cmd.consumer})
      ELSE IF s.live /\ s.subscribers \ {cmd.consumer} = {}
             THEN New(FALSE, {})
             ELSE [s EXCEPT !.subscribers = @ \ {cmd.consumer}]

HandleCommand(e) ==
    /\ commands[e] # <<>>
    /\ commands' = [commands EXCEPT ![e] = Tail(@)]
    /\ LET t == Handle(session[e], Head(commands[e])) IN
       Serviced(e, t, t.live /\ looping[e]) /\ Sends(e, t, wire, missed)
----------------------------------------------------------------------------
(* The consumers *)

\* reconcile_bfd, at the end of every arm of a protocol's loop: a new adjacency is
\* registered, one that is gone deregistered.  `send` waits for room.
Reconcile(e, c, op) ==
    IF c \in Static(e) THEN UNCHANGED commands
    ELSE /\ Len(commands[e]) < COMMANDS
         /\ commands' = [commands EXCEPT ![e] = Append(@, [op |-> op, consumer |-> c])]

\* A protocol's adjacency to the peer forms.
AdjacencyUp(e, c) ==
    /\ c \notin adjacent[e] /\ link[e] /\ link[Peer[e]]
    /\ adjacent' = [adjacent EXCEPT ![e] = @ \cup {c}]
    /\ riding' = [riding EXCEPT ![e] =
                    IF session[e].state = "Up" /\ c \in session[e].subscribers
                      THEN @ \cup {c} ELSE @]
    /\ Reconcile(e, c, "Register")
    /\ UNCHANGED <<session, wire, looping, link, notes, respawned, missed>>

Drop(e, c) ==
    /\ adjacent' = [adjacent EXCEPT ![e] = @ \ {c}]
    /\ riding' = [riding EXCEPT ![e] = @ \ {c}]
    /\ IF c \in adjacent[e] THEN Reconcile(e, c, "Deregister") ELSE UNCHANGED commands
    /\ UNCHANGED <<session, wire, looping, link, respawned, missed>>

\* The protocol loses the adjacency by itself: its dead interval or hold time.
AdjacencyLost(e, c) ==
    /\ c \in adjacent[e]
    /\ Drop(e, c)
    /\ UNCHANGED notes

\* The bfd_down arm: force_neighbor_down.
BfdDown(e, c) ==
    /\ notes[e][c] > 0
    /\ notes' = [notes EXCEPT ![e][c] = @ - 1]
    /\ Drop(e, c)

\* The supervisor restarts a protocol on a reload: the new generation starts with no
\* adjacency, registers with the sender of the first generation's channel, and
\* listens on a new one nobody was given the sender of.
Respawn(e, c) ==
    /\ c \notin Static(e)
    /\ respawned' = [respawned EXCEPT ![e] = @ \cup {c}]
    /\ notes' = [notes EXCEPT ![e][c] = 0]
    /\ adjacent' = [adjacent EXCEPT ![e] = @ \ {c}]
    /\ riding' = [riding EXCEPT ![e] = @ \ {c}]
    /\ UNCHANGED <<session, wire, looping, link, commands, missed>>
----------------------------------------------------------------------------
(* The link, the forwarding plane and the clock *)

Lose(e) ==
    /\ wire[e] # <<>>
    /\ wire' = [wire EXCEPT ![e] = Tail(@)]
    /\ missed' = [missed EXCEPT ![e] = Lost(e, @)]
    /\ UNCHANGED <<session, looping, link, commands, notes, adjacent, respawned, riding>>

LoseEcho(e) ==
    /\ looping[e]
    /\ looping' = [looping EXCEPT ![e] = FALSE]
    /\ UNCHANGED <<session, wire, link, commands, notes, adjacent, respawned, missed, riding>>

\* One direction of the link fails, or comes back.
Toggle(e) ==
    /\ link' = [link EXCEPT ![e] = ~@]
    /\ UNCHANGED <<session, wire, looping, commands, notes, adjacent, respawned, missed, riding>>

Less(d) == IF d > 0 THEN d - 1 ELSE d

\* A unit of time passes when the BFD tasks have nothing left to do: a packet on
\* the link, an armed deadline and a command take less than a unit.
Tick ==
    /\ \A e \in End : ~Due(e) /\ wire[e] = <<>> /\ ~looping[e] /\ commands[e] = <<>>
    /\ session' = [e \in End |-> [session[e] EXCEPT
                     !.next_tx = Less(@), !.detect = Less(@),
                     !.echo_tx = Less(@), !.echo_rx = Less(@)]]
    /\ UNCHANGED <<wire, looping, link, commands, notes, adjacent, respawned, missed, riding>>

Next ==
    \/ \E e \in End : Timer(e) \/ Receive(e) \/ EchoReturn(e) \/ HandleCommand(e)
    \/ \E e \in End : \E c \in USERS[e] :
         AdjacencyUp(e, c) \/ AdjacencyLost(e, c) \/ BfdDown(e, c) \/ Respawn(e, c)
    \/ \E e \in End : Lose(e) \/ LoseEcho(e) \/ Toggle(e)
    \/ Tick

Spec == Init /\ [][Next]_vars
----------------------------------------------------------------------------
(* Correctness *)

\* Every variable has its type, and the channels are bounded.
TypeOK ==
    /\ session \in [End -> PeerSession]
    /\ wire \in [End -> Seq(ControlPacket)]
    /\ looping \in [End -> BOOLEAN] /\ link \in [End -> BOOLEAN]
    /\ commands \in [End -> Seq(Command)]
    /\ \A e \in End : Len(commands[e]) <= COMMANDS /\ Len(wire[e]) <= WIRE
    /\ notes \in [End -> [Consumer -> 0 .. QUEUE]]
    /\ adjacent \in [End -> SUBSET Consumer]
    /\ respawned \in [End -> SUBSET Consumer]
    /\ missed \in [End -> Nat]
    /\ riding \in [End -> SUBSET Consumer]

\* A session that is forming or Up always has its detection armed and knows whom it
\* talks to, so silence cannot go unnoticed and every packet it sends is accepted.
Watched ==
    \A e \in End : Watching(session[e]) =>
        session[e].live /\ session[e].detect # Off /\ session[e].discr

\* The detection time of a session whose two ends are Up runs out only after as many
\* lost packets in a row as the neighbour's detect multiplier: jitter, the slow start
\* and the change of rate when the session comes up never look like a failure. With
\* one packet under way each way: on_receive does not compare your_discr, so a packet
\* of an earlier session that overtakes a re-registration carries a stale rate.
NoFalseAlarm ==
    \A e \in End :
        /\ session[e].state = "Up" /\ session[e].detect = 0
        /\ session[Peer[e]].state = "Up"
        => missed[e] >= session[e].mult

\* c keeps an adjacency over a session that was Up and is not any more, and nothing
\* will tell it.
RidesSilence(e, c) ==
    c \in riding[e] /\ session[e].state # "Up" /\ notes[e][c] = 0

\* No consumer of the first generation keeps an adjacency over a failed session
\* without a notification waiting for it, whichever of the two ends, the detection
\* time or Echo brought the session down, and however often consumers come and go.
FallReported ==
    \A e \in End : \A c \in Consumer \ respawned[e] : ~RidesSilence(e, c)
----------------------------------------------------------------------------
(* Liveness *)

\* Time passes without end.  As Tick waits for the deadlines, packets and commands of
\* the present unit, this is also the fairness of the run loops and of the link.
FairSpec == Spec /\ []<><<Tick>>_vars

\* A failure of one direction brings both ends down: the one that hears nothing, and
\* the one that still hears its neighbour.
SilenceNoticed ==
    \A e \in End :
        ~link[e] ~> (link[e] \/ \A f \in End : session[f].state # "Up")

\* Both ends keep the peer registered, the link carries every packet both ways, and
\* Echo, where it runs, comes back in time.
Undisturbed ==
    \A e \in End : /\ session[e].live /\ link[e] /\ missed[e] = 0
                   /\ ~EchoFails(e, session[e])

\* Sessions that are left undisturbed come up and stay up, wherever the handshake,
\* the rates and the deadlines had got to.
SessionsForm == <>[]Undisturbed => <>[](\A e \in End : session[e].state = "Up")
============================================================================
