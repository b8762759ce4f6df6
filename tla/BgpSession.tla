----------------------------- MODULE BgpSession -----------------------------
(***************************************************************************)
(* BGP sessions between two speakers that both dial and accept:            *)
(* crates/wren-bgp/src/fsm.rs, and from crates/wren-daemon/src/bgp.rs the  *)
(* connector, the accept loop, the session task (drive_session) and the    *)
(* part of the central task that keeps one connection per peer.            *)
(*                                                                         *)
(* Every TCP connection has a session task at each end.  A task reads its  *)
(* socket, its timers and its command channel in one select, drives the    *)
(* FSM, and reports to its speaker's central task through a FIFO inbox.    *)
(* Connection slots are reused once nothing refers to them; the code's     *)
(* connection ids are never reused.                                        *)
(*                                                                         *)
(* Time is left to fairness: keepalives flow while both ends live, so the  *)
(* Hold timer fires only at an end whose peer can no longer be heard.      *)
(***************************************************************************)
EXTENDS Naturals, Sequences, FiniteSets

CONSTANTS
    Speaker,        \* the two speakers
    Id,             \* their BGP Identifiers
    OPEN,           \* what each announces: [as, role, hold]
    REMOTE,         \* what each is configured to expect of the other: [as, role, hold]
    Conn,           \* connection slots, positive numbers
    OPENER,         \* the speaker whose connector dials in each slot
    CMD_QUEUE,      \* capacity of a session's command channel
    BUDGETS         \* how often each fault may happen: records of
                    \*   fanout  route changes the central tasks push to their sessions
                    \*   cut     failures of the path between the speakers
                    \*   reset   connections reset by the network
                    \*   write   "never" or "may": whether one write on a reset
                    \*           connection fails before a read does

ASSUME SpeakerAssumption == \E a, b \in Speaker : a # b /\ Speaker = {a, b}
ASSUME ConnAssumption == Conn \subseteq Nat \ {0}
ASSUME QueueAssumption == CMD_QUEUE \in Nat
ASSUME BudgetsAssumption ==
    BUDGETS \subseteq [fanout : Nat, cut : Nat, reset : Nat, write : {"never", "may"}]

VARIABLES
    fsm,            \* the FSM state of each end of each connection, "none" when there is no task
    wire,           \* messages on their way to each end
    cmds,           \* the command channel of each end's task
    reset,          \* connections the network has reset
    path,           \* whether the path between the speakers works
    dialling,       \* the connection each connector is busy with, 0 while it waits to retry
    inbox,          \* messages for each central task
    sessions,       \* the connection each central task pushes routes to, 0 for none
    current_conn,   \* the connection whose Down it will honour, 0 for none
    learned,        \* whether it holds routes of the peer
    teardown,       \* how many requests to evict the peer it has still to read
    budget          \* faults and route changes still to come

sessVars == <<fsm, wire, cmds, reset, path, dialling, inbox, sessions,
              current_conn, learned, teardown, budget>>

Other(s) == CHOOSE o \in Speaker : o # s
Ends     == Conn \X Speaker
Live(e)  == fsm[e] # "none"
Peer(e)  == <<e[1], Other(e[2])>>

States   == {"none", "Idle", "Connect", "Active", "OpenSent", "OpenConfirm", "Established"}
Messages == {"OPEN", "KEEPALIVE", "UPDATE", "NOTIFICATION", "FIN"}
Commands == {"routes", "Shutdown", "BfdDown"}
Reports  == [kind : {"established", "down", "update"}, conn : Conn]

-----------------------------------------------------------------------------
(* The FSM: the next state, and what the runner carries out in this order: a   *)
(* message to write, dropping the connection, a report to the central task.   *)
(* Timer actions are left out.                                                *)

To(next, send, drop, report) == [next |-> next, send |-> send, drop |-> drop, report |-> report]
Stays(st) == To(st, "none", FALSE, "none")

\* A session that ends is reported if it was Established.
Down(st) == IF st = "Established" THEN "down" ELSE "none"
Notify(st) == To("Idle", "NOTIFICATION", TRUE, Down(st))

Handle(st, ev) ==
    CASE ev = "NotificationReceived" -> To("Idle", "none", TRUE, Down(st))
      [] st = "Idle" /\ ev = "ManualStart" -> To("Connect", "none", FALSE, "none")
      [] st \in {"Connect", "Active"} /\ ev = "TcpConnected" -> To("OpenSent", "OPEN", FALSE, "none")
      [] st = "OpenSent" /\ ev = "OpenReceived" -> To("OpenConfirm", "KEEPALIVE", FALSE, "none")
      [] st = "OpenSent" /\ ev = "OpenError" -> Notify(st)
      [] st = "OpenSent" /\ ev = "TcpConnectionFails" -> To("Active", "none", TRUE, "none")
      [] st = "OpenConfirm" /\ ev = "KeepAliveReceived"
           -> To("Established", "none", FALSE, "established")
      [] st \in {"OpenConfirm", "Established"} /\ ev = "KeepaliveTimerExpires"
           -> To(st, "KEEPALIVE", FALSE, "none")
      [] st \in {"OpenSent", "OpenConfirm", "Established"} /\ ev = "HoldTimerExpires" -> Notify(st)
      [] st \in {"OpenConfirm", "Established"} /\ ev = "TcpConnectionFails"
           -> To("Idle", "none", TRUE, Down(st))
      [] \/ st = "OpenSent" /\ ev \in {"KeepAliveReceived", "UpdateReceived"}
         \/ st = "OpenConfirm" /\ ev \in {"OpenReceived", "UpdateReceived"}
         \/ st = "Established" /\ ev = "OpenReceived"
           -> Notify(st)
      [] OTHER -> Stays(st)

\* The verdict of drive_session on the peer's OPEN.
CheckOpen(s, o) ==
    CASE o.as # REMOTE[s].as -> "OpenError"
      [] o.role # "none" /\ REMOTE[s].role # "none" /\ o.role # REMOTE[s].role -> "RoleMismatch"
      [] o.hold \in {1, 2} -> "OpenError"
      [] OTHER -> "OpenReceived"

\* A negotiated Hold Time of 0 disables both timers.
NegHold(s) == IF OPEN[s].hold < OPEN[Other(s)].hold THEN OPEN[s].hold ELSE OPEN[Other(s)].hold

Event(e, m) ==
    CASE m = "OPEN" -> CheckOpen(e[2], OPEN[Other(e[2])])
      [] m = "KEEPALIVE" -> "KeepAliveReceived"
      [] m = "UPDATE" -> "UpdateReceived"
      [] m = "NOTIFICATION" -> "NotificationReceived"
      [] m = "FIN" -> "TcpConnectionFails"

-----------------------------------------------------------------------------
(* The session task                                                         *)

\* A write reaches the other end's task, if there is one to read it and the
\* connection still stands.
Put(w, e, m) == IF Live(Peer(e)) /\ e[1] \notin reset THEN [w EXCEPT ![Peer(e)] = Append(@, m)] ELSE w

\* The task of e ends and its socket closes.
End(e, w) ==
    /\ fsm' = [fsm EXCEPT ![e] = "none"]
    /\ wire' = [Put(w, e, "FIN") EXCEPT ![e] = <<>>]
    /\ cmds' = [cmds EXCEPT ![e] = <<>>]
    /\ dialling' = [s \in Speaker |-> IF s = e[2] /\ dialling[s] = e[1] THEN 0 ELSE dialling[s]]

Spend(failing) ==
    budget' = IF failing THEN [budget EXCEPT !.write = "failed"] ELSE budget

\* Whether the write of a message fails.  The error leaves drive_session at
\* once: a SessionDown after it is never reported.
CanFail(e) == budget.write = "may" /\ e[1] \in reset
Fails(e, send) == {FALSE} \cup (IF CanFail(e) /\ send # "none" THEN {TRUE} ELSE {})

Written(e, send, w) == IF send = "none" THEN w ELSE Put(w, e, send)

Report(e, kind) ==
    inbox' = IF kind = "none" THEN inbox
             ELSE [inbox EXCEPT ![e[2]] = Append(@, [kind |-> kind, conn |-> e[1]])]

\* Run the FSM on an event and carry its actions out; w is the wire after the read.
Apply(e, ev, w) ==
    LET r == Handle(fsm[e], ev) IN
    \E failing \in Fails(e, r.send) :
        /\ Spend(failing)
        /\ Report(e, IF failing THEN "none" ELSE r.report)
        /\ IF failing THEN End(e, w)
           ELSE IF r.drop THEN End(e, Written(e, r.send, w))
           ELSE /\ fsm' = [fsm EXCEPT ![e] = r.next]
                /\ wire' = Written(e, r.send, w)
                /\ UNCHANGED <<cmds, dialling>>

\* An UPDATE in Established goes to the central task; the FSM only restarts a timer.
Deliver(e, w) ==
    /\ Report(e, "update")
    /\ wire' = w
    /\ UNCHANGED <<fsm, cmds, dialling, budget>>

\* Refuse the OPEN with Role Mismatch: not Established, so nothing to report.
Refuse(e, w) == End(e, Put(w, e, "NOTIFICATION")) /\ UNCHANGED <<inbox, budget>>

\* Read one message.
Read(e) ==
    /\ Live(e) /\ wire[e] # <<>>
    /\ path \/ e[1] \in reset
    /\ LET m == Head(wire[e])
           w == [wire EXCEPT ![e] = Tail(@)]
       IN IF m = "OPEN" /\ Event(e, m) = "RoleMismatch" THEN Refuse(e, w)
          ELSE IF m = "UPDATE" /\ fsm[e] = "Established" THEN Deliver(e, w)
          ELSE Apply(e, Event(e, m), w)
    /\ UNCHANGED <<reset, path, sessions, current_conn, learned, teardown>>

\* The peer cannot be heard: its task is gone without a word, or the path is down.
Silent(e) == ~path \/ (~Live(Peer(e)) /\ wire[e] = <<>>)

HoldExpires(e) ==
    /\ Live(e) /\ NegHold(e[2]) > 0 /\ Silent(e)
    /\ Apply(e, "HoldTimerExpires", wire)
    /\ UNCHANGED <<reset, path, sessions, current_conn, learned, teardown>>

\* A keepalive that arrives only restarts the peer's Hold timer, which Silent
\* stands for: the timer is modelled where the write may fail.
KeepaliveExpires(e) ==
    /\ fsm[e] \in {"OpenConfirm", "Established"} /\ NegHold(e[2]) > 0
    /\ e[1] \in reset
    /\ Apply(e, "KeepaliveTimerExpires", wire)
    /\ UNCHANGED <<reset, path, sessions, current_conn, learned, teardown>>

\* A command of the central task.  Routes are written; a failed write ends the
\* task without a Down.  Shutdown ends it without one on purpose, BfdDown with one.
Command(e) ==
    /\ Live(e) /\ cmds[e] # <<>>
    /\ LET c == Head(cmds[e]) IN
       \/ /\ c = "routes"
          /\ \E failing \in {FALSE} \cup (IF CanFail(e) THEN {TRUE} ELSE {}) :
               /\ Spend(failing)
               /\ IF failing THEN End(e, wire)
                  ELSE
                    /\ wire' = Put(wire, e, "UPDATE")
                    /\ cmds' = [cmds EXCEPT ![e] = Tail(@)]
                    /\ UNCHANGED <<fsm, dialling>>
          /\ UNCHANGED inbox
       \/ /\ c = "Shutdown"
          /\ End(e, Put(wire, e, "NOTIFICATION"))
          /\ UNCHANGED <<inbox, budget>>
       \/ /\ c = "BfdDown"
          /\ End(e, Put(wire, e, "NOTIFICATION"))
          /\ Report(e, "down")
          /\ UNCHANGED budget
    /\ UNCHANGED <<reset, path, sessions, current_conn, learned, teardown>>

-----------------------------------------------------------------------------
(* The connector and the accept loop                                        *)

\* Nothing refers to the slot any more.
Free(c) ==
    \A s \in Speaker :
        /\ ~Live(<<c, s>>) /\ sessions[s] # c /\ current_conn[s] # c /\ dialling[s] # c
        /\ \A i \in DOMAIN inbox[s] : inbox[s][i].conn # c

\* The connector dials whenever it has no session of its own, whatever the
\* central task holds; the accept loop spawns the other end.
Dial(s) ==
    /\ path /\ dialling[s] = 0
    /\ LET mine == {c \in Conn : OPENER[c] = s /\ Free(c)}
           up   == Handle(Handle("Idle", "ManualStart").next, "TcpConnected")
       IN \E c \in mine :
          /\ \A d \in mine : c <= d
          /\ fsm' = [e \in Ends |-> IF e[1] = c THEN up.next ELSE fsm[e]]
          /\ wire' = [e \in Ends |-> IF e[1] = c THEN <<up.send>> ELSE wire[e]]
          /\ dialling' = [dialling EXCEPT ![s] = c]
          /\ reset' = reset \ {c}
    /\ UNCHANGED <<cmds, path, inbox, sessions, current_conn, learned, teardown, budget>>

-----------------------------------------------------------------------------
(* The central task                                                         *)

CollisionKeepsInbound(s) == Id[s] < Id[Other(s)]
Inbound(s, c) == OPENER[c] # s

\* A slip, for the mutants: Each side keeps the connection it has.
NewWinsNever(s, c) == FALSE

NewWins(s, c) ==
    /\ Inbound(s, c) = CollisionKeepsInbound(s)
    /\ Inbound(s, sessions[s]) # CollisionKeepsInbound(s)

\* Sending to a task that has ended is an error the central task ignores.  The code's
\* channels, this one and the inbox, hold 256 messages and a sender waits for room; here
\* they are as long as the budget lets them grow, far below that.
Push(q, e, c) == IF Live(e) THEN [q EXCEPT ![e] = Append(@, c)] ELSE q

\* Established: resolve a collision, then push the routes to the winner.  (That a damped
\* peer is told to stop first is in Bgp!OnEstablished; no route limit is set here.)
OnEstablished(s, c) ==
    IF sessions[s] # 0 /\ ~NewWins(s, c)
    THEN /\ cmds' = Push(cmds, <<c, s>>, "Shutdown")
         /\ UNCHANGED <<sessions, current_conn, learned>>
    ELSE /\ cmds' = Push(IF sessions[s] # 0 THEN Push(cmds, <<sessions[s], s>>, "Shutdown")
                         ELSE cmds, <<c, s>>, "routes")
         /\ sessions' = [sessions EXCEPT ![s] = c]
         /\ current_conn' = [current_conn EXCEPT ![s] = c]
         /\ UNCHANGED learned

\* A slip, for the mutants: Down leaves the sender in the session table.
OnDownKeepsSender(s, c) ==
    /\ IF current_conn[s] # c THEN UNCHANGED <<sessions, current_conn, learned>>
       ELSE /\ current_conn' = [current_conn EXCEPT ![s] = 0]
            /\ learned' = [learned EXCEPT ![s] = FALSE]
            /\ UNCHANGED sessions
    /\ UNCHANGED cmds

\* Down: only the current connection counts.
OnDown(s, c) ==
    /\ IF current_conn[s] # c THEN UNCHANGED <<sessions, current_conn, learned>>
       ELSE /\ sessions' = [sessions EXCEPT ![s] = 0]
            /\ current_conn' = [current_conn EXCEPT ![s] = 0]
            /\ learned' = [learned EXCEPT ![s] = FALSE]
    /\ UNCHANGED cmds

\* Update: whatever connection it came over.
OnUpdate(s) ==
    /\ learned' = [learned EXCEPT ![s] = TRUE]
    /\ UNCHANGED <<cmds, sessions, current_conn>>

Central(s) ==
    /\ inbox[s] # <<>>
    /\ LET m == Head(inbox[s]) IN
       \/ m.kind = "established" /\ OnEstablished(s, m.conn)
       \/ m.kind = "down" /\ OnDown(s, m.conn)
       \/ m.kind = "update" /\ OnUpdate(s)
    /\ inbox' = [inbox EXCEPT ![s] = Tail(@)]
    /\ UNCHANGED <<fsm, wire, reset, path, dialling, teardown, budget>>

\* A route change is pushed without waiting.  When the session's queue is full,
\* or its task has ended, the eviction of the peer is requested, of the central
\* task itself.
Fanout(s) ==
    /\ sessions[s] # 0 /\ budget.fanout > 0
    /\ LET e == <<sessions[s], s>> IN
       IF Live(e) /\ Len(cmds[e]) < CMD_QUEUE
       THEN cmds' = [cmds EXCEPT ![e] = Append(@, "routes")] /\ UNCHANGED teardown
       ELSE /\ teardown' = [teardown EXCEPT ![s] = IF @ < CMD_QUEUE THEN @ + 1 ELSE @]
            /\ UNCHANGED cmds
    /\ budget' = [budget EXCEPT !.fanout = @ - 1]
    /\ UNCHANGED <<fsm, wire, reset, path, dialling, inbox, sessions, current_conn, learned>>

\* The request names the peer, so it evicts whatever session there is by then: its
\* sender is dropped, which does not end the task, for the task keeps a sender
\* of its own.
Teardown(s) ==
    /\ teardown[s] > 0
    /\ teardown' = [teardown EXCEPT ![s] = @ - 1]
    /\ sessions' = [sessions EXCEPT ![s] = 0]
    /\ UNCHANGED <<fsm, wire, cmds, reset, path, dialling, inbox, current_conn, learned, budget>>

-----------------------------------------------------------------------------
(* The network                                                              *)

\* The path fails.  BFD tells each central task, which tells its session.
Cut ==
    /\ path /\ budget.cut > 0
    /\ path' = FALSE
    /\ budget' = [budget EXCEPT !.cut = @ - 1]
    /\ UNCHANGED <<fsm, wire, cmds, reset, dialling, inbox, sessions, current_conn, learned,
                   teardown>>

Heal ==
    /\ ~path
    /\ path' = TRUE
    /\ UNCHANGED <<fsm, wire, cmds, reset, dialling, inbox, sessions, current_conn,
                   learned, teardown, budget>>

BfdDown(s) ==
    /\ ~path /\ sessions[s] # 0
    /\ LET e == <<sessions[s], s>> IN
       /\ \A i \in DOMAIN cmds[e] : cmds[e][i] # "BfdDown"
       /\ Live(e)
       /\ cmds' = [cmds EXCEPT ![e] = Append(@, "BfdDown")]
    /\ UNCHANGED <<fsm, wire, reset, path, dialling, inbox, sessions, current_conn,
                   learned, teardown, budget>>

\* A connection is reset: both ends find the error on their next read.
Reset(c) ==
    /\ budget.reset > 0
    /\ \E s \in Speaker : Live(<<c, s>>)
    /\ reset' = reset \cup {c}
    /\ wire' = [e \in Ends |-> IF e[1] = c /\ Live(e) THEN <<"FIN">> ELSE wire[e]]
    /\ budget' = [budget EXCEPT !.reset = @ - 1]
    /\ UNCHANGED <<fsm, cmds, path, dialling, inbox, sessions, current_conn, learned, teardown>>

-----------------------------------------------------------------------------
Init ==
    /\ fsm = [e \in Ends |-> "none"]
    /\ wire = [e \in Ends |-> <<>>]
    /\ cmds = [e \in Ends |-> <<>>]
    /\ reset = {}
    /\ path = TRUE
    /\ dialling = [s \in Speaker |-> 0]
    /\ inbox = [s \in Speaker |-> <<>>]
    /\ sessions = [s \in Speaker |-> 0]
    /\ current_conn = [s \in Speaker |-> 0]
    /\ learned = [s \in Speaker |-> FALSE]
    /\ teardown = [s \in Speaker |-> 0]
    /\ budget \in BUDGETS

Next ==
    \/ \E e \in Ends : Read(e) \/ HoldExpires(e) \/ KeepaliveExpires(e) \/ Command(e)
    \/ \E s \in Speaker : Dial(s) \/ Central(s) \/ Fanout(s) \/ Teardown(s) \/ BfdDown(s)
    \/ \E c \in Conn : Reset(c)
    \/ Cut \/ Heal

\* The runtime polls every task that has something to do; a connector retries
\* every CONNECT_RETRY; a path that failed comes back.
Fair ==
    /\ \A e \in Ends : WF_sessVars(Read(e)) /\ WF_sessVars(HoldExpires(e))
                       /\ WF_sessVars(Command(e))
    /\ \A s \in Speaker : WF_sessVars(Dial(s)) /\ WF_sessVars(Central(s))
                          /\ WF_sessVars(Teardown(s))
    /\ WF_sessVars(Heal)

Spec == Init /\ [][Next]_sessVars /\ Fair

-----------------------------------------------------------------------------
(* Properties                                                               *)

SessionTypeOK ==
    /\ fsm \in [Ends -> States]
    /\ \A e \in Ends : Live(e) => fsm[e] \in {"OpenSent", "OpenConfirm", "Established"}
    /\ wire \in [Ends -> Seq(Messages)] /\ cmds \in [Ends -> Seq(Commands)]
    /\ \A e \in Ends : ~Live(e) => wire[e] = <<>> /\ cmds[e] = <<>>
    /\ reset \subseteq Conn /\ path \in BOOLEAN
    /\ inbox \in [Speaker -> Seq(Reports)]
    /\ {sessions, current_conn, dialling} \subseteq [Speaker -> Conn \cup {0}]
    /\ learned \in [Speaker -> BOOLEAN] /\ teardown \in [Speaker -> Nat]
    /\ budget \in [fanout : Nat, cut : Nat, reset : Nat, write : {"never", "may", "failed"}]

\* Nothing is on its way between the tasks of a speaker or over the wire.
Quiet ==
    /\ \A s \in Speaker : inbox[s] = <<>> /\ teardown[s] = 0
    /\ \A e \in Ends : cmds[e] = <<>> /\ wire[e] = <<>>

\* Both ends reach the same verdict on a collision (docs/src/protocols/bgp.md:626):
\* once everything sent has been read, two speakers that each hold a session
\* hold the same connection, and it is Established at both ends.
SameVerdict ==
    Quiet => \A s \in Speaker :
        sessions[s] # 0 /\ sessions[Other(s)] # 0 =>
            /\ sessions[s] = sessions[Other(s)]
            /\ fsm[<<sessions[s], s>>] = "Established"

\* The FSM, the connections and the books of the central task fit together, and
\* both ends of a collision keep the same connection.
SessionInv == SessionTypeOK /\ SameVerdict

\* The current connection is up, and no route change reaches it any more.
Evicted(s) == sessions[s] = 0 /\ current_conn[s] # 0 /\ Live(<<current_conn[s], s>>)

\* Both speakers settle on one connection for good, over which each has learned
\* the other's routes, however the connections raced and failed before, unless a
\* failed write has ended a task without its Down or a live session was evicted.
Settled ==
    \/ <>(budget.write = "failed" \/ \E s \in Speaker : Evicted(s))
    \/ <>[](\E c \in Conn : \A s \in Speaker :
             /\ sessions[s] = c /\ current_conn[s] = c
             /\ fsm[<<c, s>>] = "Established" /\ learned[s])
=============================================================================
