--------------------------- MODULE BgpSessionProof ---------------------------
(***************************************************************************)
(* Both ends of a collision keep the same connection: the proof of         *)
(* SessionInv for any number of connections and faults.                    *)
(***************************************************************************)
EXTENDS BgpSession, TLAPS

\* No session is evicted while its task lives: neither for a full queue, nor by a request
\* that was meant for an earlier connection.
Kept == \A s \in Speaker : ~Evicted(s)

-----------------------------------------------------------------------------
(* The connections: what is on the wire to the two ends.                    *)

Has(q, x) == \E i \in 1..Len(q) : q[i] = x

\* An OPEN is the first thing on a connection, and read in OpenSent.
OpenFirst ==
    \A e \in Ends : \A i \in 1..Len(wire[e]) : wire[e][i] = "OPEN" => i = 1 /\ fsm[e] = "OpenSent"

\* On a reset connection there is nothing left to read but the error.
AtReset == \A e \in Ends : e[1] \in reset /\ Live(e) => wire[e] = <<"FIN">>

\* An end whose peer is gone will find out.
Closing == \A e \in Ends : Live(e) /\ ~Live(Peer(e)) => Has(wire[e], "FIN")

\* An end that still waits for the peer has something to read, now or as soon as
\* the peer has read its own OPEN.
Handshake ==
    \A e \in Ends :
        /\ fsm[e] = "OpenSent" => /\ wire[e] # <<>>
                                  /\ \/ fsm[Peer(e)] = "OpenSent" \/ e[1] \in reset
                                     \/ Len(wire[e]) > 1
        /\ fsm[e] = "OpenConfirm" => fsm[Peer(e)] = "OpenSent" \/ wire[e] # <<>>

WireInv == OpenFirst /\ AtReset /\ Closing /\ Handshake

-----------------------------------------------------------------------------
(* The books of the central tasks.                                          *)

Pending(s, c, kind) == Has(inbox[s], [kind |-> kind, conn |-> c])

Mentioned(s, c) == \E i \in 1..Len(inbox[s]) : inbox[s][i].conn = c

\* Of one connection, Established is reported first and Down last.
Ordered ==
    \A s \in Speaker : \A i, j \in 1..Len(inbox[s]) :
        i < j /\ inbox[s][i].conn = inbox[s][j].conn =>
            inbox[s][i].kind # "down" /\ inbox[s][j].kind # "established"

\* A connection that is not Established yet is unknown to the central task.
Unknown ==
    \A s \in Speaker, c \in Conn :
        fsm[<<c, s>>] \in {"OpenSent", "OpenConfirm"} =>
            ~Mentioned(s, c) /\ sessions[s] # c /\ cmds[<<c, s>>] = <<>>

\* Before its Established is read no command is sent to a session; after Shutdown
\* it is not the one in use; a Down is reported by a task that has ended.
Commanded ==
    \A s \in Speaker, c \in Conn :
        /\ Pending(s, c, "established") => sessions[s] # c /\ cmds[<<c, s>>] = <<>>
        /\ Has(cmds[<<c, s>>], "Shutdown") => sessions[s] # c
        /\ Pending(s, c, "down") => ~Live(<<c, s>>)

\* An Established connection is the one in use, or its fate is in a queue.
Known ==
    \A s \in Speaker, c \in Conn :
        fsm[<<c, s>>] = "Established" =>
            \/ Pending(s, c, "established") \/ sessions[s] = c
            \/ Has(cmds[<<c, s>>], "Shutdown")

\* A connection in use, or about to be, whose task has ended without a Down.
Lost(s, c) ==
    /\ sessions[s] = c \/ Pending(s, c, "established")
    /\ ~Live(<<c, s>>) /\ ~Pending(s, c, "down")

\* Only the failed write leaves one.
OneLost ==
    \A s, t \in Speaker, c, d \in Conn :
        Lost(s, c) => /\ budget.write = "failed"
                      /\ Lost(t, d) => s = t /\ c = d

\* The books agree with each other.
Current == \A s \in Speaker : sessions[s] # 0 => current_conn[s] = sessions[s]

BooksInv ==
    /\ Ordered /\ Unknown /\ Commanded /\ Known /\ OneLost /\ Current

IInv == SessionTypeOK /\ WireInv /\ BooksInv

-----------------------------------------------------------------------------
(* Sequences and ends.                                                      *)

LEMMA Appended ==
    ASSUME NEW S, NEW q \in Seq(S), NEW x \in S
    PROVE  /\ Append(q, x) \in Seq(S) /\ Len(Append(q, x)) = Len(q) + 1 /\ Len(q) \in Nat
           /\ Append(q, x) # <<>>
           /\ \A i \in 1..Len(q) : Append(q, x)[i] = q[i]
           /\ Append(q, x)[Len(q) + 1] = x
           /\ \A y : Has(Append(q, x), y) <=> Has(q, y) \/ y = x
<1>1. /\ Append(q, x) \in Seq(S) /\ Len(Append(q, x)) = Len(q) + 1 /\ Len(q) \in Nat
      /\ \A i \in 1..Len(q) : Append(q, x)[i] = q[i]
      /\ Append(q, x)[Len(q) + 1] = x
  OBVIOUS
<1>2. Append(q, x) # <<>>
  BY <1>1
<1>3. \A y : Has(Append(q, x), y) <=> Has(q, y) \/ y = x
  BY <1>1 DEF Has
<1> QED BY <1>1, <1>2, <1>3

LEMMA Shorter ==
    ASSUME NEW S, NEW q \in Seq(S), NEW r \in Seq(S), Len(r) = Len(q) - 1
    PROVE  r # q /\ (r = <<>> <=> Len(q) = 1)
<1>1. Len(q) \in Nat /\ Len(r) # Len(q)
  OBVIOUS
<1>2. r = <<>> <=> Len(r) = 0
  OBVIOUS
<1> QED BY <1>1, <1>2

LEMMA Shortened ==
    ASSUME NEW S, NEW q \in Seq(S), q # <<>>
    PROVE  /\ Tail(q) \in Seq(S) /\ Len(q) \in Nat /\ Len(q) > 0 /\ Len(Tail(q)) = Len(q) - 1
           /\ Head(q) = q[1] /\ Head(q) \in S
           /\ \A i \in 1..Len(Tail(q)) : Tail(q)[i] = q[i + 1]
           /\ \A y : Has(q, y) <=> Has(Tail(q), y) \/ y = Head(q)
           /\ Tail(q) # q /\ (Tail(q) = <<>> <=> Len(q) = 1)
<1>1. /\ Tail(q) \in Seq(S) /\ Len(q) \in Nat /\ Len(q) > 0 /\ Len(Tail(q)) = Len(q) - 1
      /\ Head(q) = q[1] /\ Head(q) \in S
      /\ \A i \in 1..Len(Tail(q)) : Tail(q)[i] = q[i + 1]
  OBVIOUS
<1>2. ASSUME NEW y PROVE Has(q, y) <=> Has(Tail(q), y) \/ y = Head(q)
  <2>1. ASSUME NEW i \in 1..Len(q), q[i] = y, y # Head(q) PROVE Has(Tail(q), y)
    <3>1. i - 1 \in 1..Len(Tail(q)) /\ Tail(q)[i - 1] = y
      BY <1>1, <2>1
    <3> QED BY <3>1 DEF Has
  <2>2. ASSUME NEW i \in 1..Len(Tail(q)), Tail(q)[i] = y PROVE Has(q, y)
    BY <1>1, <2>2 DEF Has
  <2>3. y = Head(q) => Has(q, y)
    BY <1>1 DEF Has
  <2> QED BY <2>1, <2>2, <2>3 DEF Has
<1>3. Tail(q) # q /\ (Tail(q) = <<>> <=> Len(q) = 1)
  <2> DEFINE r == Tail(q)
  <2>1. r \in Seq(S) /\ Len(r) = Len(q) - 1
    BY <1>1
  <2>2. r # q /\ (r = <<>> <=> Len(q) = 1)
    <3> HIDE DEF r
    <3> QED BY <2>1, Shorter
  <2> QED BY <2>2, Zenon
<1> QED BY <1>1, <1>2, <1>3

LEMMA Nothing == Len(<<>>) = 0 /\ \A y : ~Has(<<>>, y)
BY DEF Has

LEMMA TwoSpeakers ==
    \A s \in Speaker : /\ Other(s) \in Speaker /\ Other(s) # s /\ Other(Other(s)) = s
                       /\ \A t \in Speaker : t = s \/ t = Other(s)
<1>1. PICK a \in Speaker, b \in Speaker : a # b /\ Speaker = {a, b}
  BY SpeakerAssumption
<1>2. ASSUME NEW s \in Speaker
      PROVE  Other(s) \in Speaker /\ Other(s) # s
  <2>1. \E o \in Speaker : o # s
    BY <1>1
  <2> QED BY <2>1 DEF Other
<1>3. \A s, t \in Speaker : t = s \/ t = Other(s)
  BY <1>1, <1>2
<1>4. \A s \in Speaker : Other(Other(s)) = s
  BY <1>2, <1>3
<1> QED BY <1>2, <1>3, <1>4

LEMMA EndFacts ==
    /\ \A c \in Conn, s \in Speaker : <<c, s>> \in Ends /\ <<c, s>>[1] = c /\ <<c, s>>[2] = s
                                     /\ Peer(<<c, s>>) = <<c, Other(s)>>
    /\ \A e \in Ends : /\ e[1] \in Conn /\ e[2] \in Speaker /\ e = <<e[1], e[2]>>
                       /\ Peer(e) \in Ends /\ Peer(e) # e /\ Peer(Peer(e)) = e
                       /\ Peer(e)[1] = e[1] /\ Peer(e)[2] = Other(e[2])
    /\ \A e, f \in Ends : f[1] = e[1] => f = e \/ f = Peer(e)
BY TwoSpeakers DEF Ends, Peer

LEMMA NoConn == 0 \notin Conn
BY ConnAssumption

-----------------------------------------------------------------------------
(* What the FSM does in the states a task can be in.                        *)

Waiting == {"OpenSent", "OpenConfirm"}

LEMMA Machine ==
    /\ Handle("OpenSent", "OpenReceived") = To("OpenConfirm", "KEEPALIVE", FALSE, "none")
    /\ Handle("OpenConfirm", "KeepAliveReceived") = To("Established", "none", FALSE, "established")
    /\ Handle("Established", "KeepAliveReceived") = Stays("Established")
    /\ \A st \in {"OpenConfirm", "Established"} :
          Handle(st, "KeepaliveTimerExpires") = To(st, "KEEPALIVE", FALSE, "none")
    /\ \A st \in {"OpenSent", "OpenConfirm", "Established"} :
          /\ Handle(st, "NotificationReceived") = To("Idle", "none", TRUE, Down(st))
          /\ Handle(st, "HoldTimerExpires") = Notify(st)
          /\ Handle(st, "TcpConnectionFails").drop /\ Handle(st, "TcpConnectionFails").send = "none"
          /\ Handle(st, "TcpConnectionFails").report = Down(st)
    /\ \A ev \in {"OpenError", "KeepAliveReceived", "UpdateReceived"} :
          Handle("OpenSent", ev) = Notify("OpenSent")
    /\ Handle("OpenConfirm", "UpdateReceived") = Notify("OpenConfirm")
<1>1. Handle("OpenSent", "OpenReceived") = To("OpenConfirm", "KEEPALIVE", FALSE, "none")
  BY DEF Handle
<1>2. Handle("OpenConfirm", "KeepAliveReceived") = To("Established", "none", FALSE, "established")
  BY DEF Handle
<1>3. Handle("Established", "KeepAliveReceived") = Stays("Established")
  BY DEF Handle
<1>4. ASSUME NEW st \in {"OpenConfirm", "Established"}
      PROVE  Handle(st, "KeepaliveTimerExpires") = To(st, "KEEPALIVE", FALSE, "none")
  BY DEF Handle
<1>5. ASSUME NEW st \in {"OpenSent", "OpenConfirm", "Established"}
      PROVE  Handle(st, "NotificationReceived") = To("Idle", "none", TRUE, Down(st))
  BY DEF Handle
<1>6. ASSUME NEW st \in {"OpenSent", "OpenConfirm", "Established"}
      PROVE  Handle(st, "HoldTimerExpires") = Notify(st)
  BY DEF Handle
<1>7. ASSUME NEW st \in {"OpenSent", "OpenConfirm", "Established"}
      PROVE  /\ Handle(st, "TcpConnectionFails").drop
             /\ Handle(st, "TcpConnectionFails").send = "none"
             /\ Handle(st, "TcpConnectionFails").report = Down(st)
  <2>1. CASE st = "OpenSent"
    <3>1. Handle(st, "TcpConnectionFails") = To("Active", "none", TRUE, "none")
      BY <2>1 DEF Handle
    <3> QED BY <2>1, <3>1 DEF To, Down
  <2>2. CASE st \in {"OpenConfirm", "Established"}
    <3>1. Handle(st, "TcpConnectionFails") = To("Idle", "none", TRUE, Down(st))
      BY <2>2 DEF Handle
    <3> QED BY <3>1 DEF To
  <2> QED BY <2>1, <2>2
<1>8. ASSUME NEW ev \in {"OpenError", "KeepAliveReceived", "UpdateReceived"}
      PROVE  Handle("OpenSent", ev) = Notify("OpenSent")
  BY DEF Handle
<1>9. Handle("OpenConfirm", "UpdateReceived") = Notify("OpenConfirm")
  BY DEF Handle
<1> QED BY <1>1, <1>2, <1>3, <1>4, <1>5, <1>6, <1>7, <1>8, <1>9

-----------------------------------------------------------------------------
(* The wire under the steps of a task.                                      *)

\* A write reaches somebody.
Reaches(e) == Live(Peer(e)) /\ e[1] \notin reset

Grows(q, r) ==
    /\ Len(q) <= Len(r)
    /\ \A i \in 1..Len(q) : r[i] = q[i]
    /\ \A i \in 1..Len(r) : i > Len(q) => r[i] # "OPEN"

\* The wire w differs from the present one at e and, by new messages, at its peer.
Wrote(e, w) ==
    /\ w \in [Ends -> Seq(Messages)]
    /\ \A x \in Ends : x # e /\ x # Peer(e) => w[x] = wire[x]
    /\ Grows(wire[Peer(e)], w[Peer(e)])
    /\ ~Reaches(e) => w[Peer(e)] = wire[Peer(e)]

LEMMA WroteNothing ==
    ASSUME SessionTypeOK, NEW e \in Ends
    PROVE  /\ Wrote(e, wire)
           /\ wire[e] # <<>> => /\ Wrote(e, [wire EXCEPT ![e] = Tail(@)])
                                /\ [wire EXCEPT ![e] = Tail(@)][e] = Tail(wire[e])
<1>1. \A x \in Ends : wire[x] \in Seq(Messages) /\ Grows(wire[x], wire[x])
  BY DEF SessionTypeOK, Grows
<1>2. Peer(e) \in Ends /\ Peer(e) # e
  BY EndFacts
<1>3. wire \in [Ends -> Seq(Messages)]
  BY DEF SessionTypeOK
<1>4. wire[e] # <<>> => Tail(wire[e]) \in Seq(Messages)
  BY <1>1, Shortened
<1> QED BY <1>1, <1>2, <1>3, <1>4 DEF Wrote

LEMMA Writes ==
    ASSUME SessionTypeOK, NEW e \in Ends, NEW w, Wrote(e, w), NEW m \in Messages \ {"OPEN"}
    PROVE  /\ Wrote(e, Put(w, e, m)) /\ Put(w, e, m)[e] = w[e]
           /\ Reaches(e) => /\ Has(Put(w, e, m)[Peer(e)], m)
                            /\ Len(Put(w, e, m)[Peer(e)]) > Len(wire[Peer(e)])
<1> DEFINE p == Peer(e)
           v == Put(w, e, m)
<1>1. p \in Ends /\ p # e /\ w[p] \in Seq(Messages) /\ wire[p] \in Seq(Messages) /\ w \in [Ends -> Seq(Messages)]
  BY EndFacts DEF Wrote, SessionTypeOK
<1>2. CASE ~Reaches(e)
  <2>1. v = w
    BY <1>2 DEF Put, Reaches
  <2> QED BY <1>2, <2>1
<1>3. CASE Reaches(e)
  <2>1. v = [w EXCEPT ![p] = Append(@, m)]
    BY <1>3 DEF Put, Reaches
  <2> DEFINE q == w[p]
             r == Append(w[p], m)
  <2>2. /\ r \in Seq(Messages) /\ Len(r) = Len(q) + 1 /\ Len(q) \in Nat
        /\ \A i \in 1..Len(q) : r[i] = q[i]
        /\ r[Len(q) + 1] = m /\ Has(r, m)
    BY <1>1, Appended
  <2>3. v \in [Ends -> Seq(Messages)] /\ v[p] = r /\ \A x \in Ends : x # p => v[x] = w[x]
    BY <1>1, <2>1, <2>2
  <2>4. Len(wire[p]) \in Nat /\ Len(wire[p]) <= Len(q) /\ Grows(wire[p], q)
    BY <1>1 DEF Wrote, Grows
  <2>5. Grows(wire[p], r)
    <3>1. Len(wire[p]) <= Len(r)
      BY <2>2, <2>4
    <3>2. \A i \in 1..Len(wire[p]) : r[i] = wire[p][i]
      BY <2>2, <2>4 DEF Grows
    <3>3. \A i \in 1..Len(r) : i > Len(wire[p]) => r[i] # "OPEN"
      BY <2>2, <2>4 DEF Grows
    <3> QED BY <3>1, <3>2, <3>3 DEF Grows
  <2>6. Wrote(e, v)
    BY <1>1, <1>3, <2>3, <2>5 DEF Wrote
  <2> QED BY <1>1, <2>2, <2>3, <2>4, <2>6
<1> QED BY <1>2, <1>3

\* The task of e ends: its peer will read FIN.
Closes(e) ==
    /\ Live(e) /\ fsm' = [fsm EXCEPT ![e] = "none"] /\ reset' = reset
    /\ Wrote(e, wire') /\ wire'[e] = <<>>
    /\ Reaches(e) => Has(wire'[Peer(e)], "FIN") /\ Len(wire'[Peer(e)]) > Len(wire[Peer(e)])
    /\ cmds' = [cmds EXCEPT ![e] = <<>>]
    /\ dialling' \in [Speaker -> Conn \cup {0}]

LEMMA EndCloses ==
    ASSUME SessionTypeOK, NEW e \in Ends, Live(e), NEW w, Wrote(e, w), End(e, w), reset' = reset
    PROVE  Closes(e)
<1> DEFINE v == Put(w, e, "FIN")
<1>1. /\ Wrote(e, v)
      /\ Reaches(e) => Has(v[Peer(e)], "FIN") /\ Len(v[Peer(e)]) > Len(wire[Peer(e)])
  BY Writes DEF Messages
<1>2. wire' = [v EXCEPT ![e] = <<>>]
  BY DEF End
<1>3. /\ wire' \in [Ends -> Seq(Messages)] /\ wire'[e] = <<>>
      /\ \A x \in Ends : x # e => wire'[x] = v[x]
  BY <1>1, <1>2 DEF Wrote
<1>4. Wrote(e, wire') /\ wire'[Peer(e)] = v[Peer(e)]
  BY <1>1, <1>3, EndFacts DEF Wrote
<1>5. dialling' \in [Speaker -> Conn \cup {0}]
  BY DEF End, SessionTypeOK
<1> QED BY <1>1, <1>3, <1>4, <1>5 DEF End, Closes

LEMMA ClosesWire ==
    ASSUME SessionTypeOK, WireInv, NEW e \in Ends, Closes(e)
    PROVE  WireInv'
<1> DEFINE p == Peer(e)
<1>1. /\ p \in Ends /\ p # e /\ fsm \in [Ends -> States] /\ Peer(p) = e /\ p[1] = e[1]
      /\ wire' \in [Ends -> Seq(Messages)] /\ wire \in [Ends -> Seq(Messages)]
  BY EndFacts DEF SessionTypeOK, Closes, Wrote
<1>2. /\ fsm'[e] = "none" /\ wire'[e] = <<>> /\ fsm'[p] = fsm[p]
      /\ \A x \in Ends : x # e => fsm'[x] = fsm[x]
      /\ \A x \in Ends : x # e /\ x # p => wire'[x] = wire[x] /\ Peer(x) \in Ends /\ Peer(x) # e
  <2>1. \A x \in Ends : x # e /\ x # p => Peer(x) \in Ends /\ Peer(x) # e
    BY EndFacts
  <2> QED BY <1>1, <2>1 DEF Closes, Wrote
<1>3. Len(wire[p]) \in Nat /\ Len(wire'[p]) \in Nat
  BY <1>1
<1>4. OpenFirst'
  <2> SUFFICES ASSUME NEW x \in Ends, NEW i \in 1..Len(wire'[x]), wire'[x][i] = "OPEN"
               PROVE  i = 1 /\ fsm'[x] = "OpenSent"
    BY DEF OpenFirst
  <2>1. x # e
    BY <1>2, Nothing
  <2>2. CASE x = p
    <3>1. i <= Len(wire[p]) /\ wire[p][i] = "OPEN"
      BY <1>3, <2>2 DEF Closes, Wrote, Grows
    <3> QED BY <1>1, <1>2, <1>3, <2>2, <3>1 DEF WireInv, OpenFirst
  <2>3. CASE x # p
    BY <1>2, <2>1, <2>3 DEF WireInv, OpenFirst
  <2> QED BY <2>2, <2>3
<1>5. AtReset'
  <2> SUFFICES ASSUME NEW x \in Ends, x[1] \in reset, fsm'[x] # "none"
               PROVE  wire'[x] = <<"FIN">>
    BY DEF AtReset, Closes, Live
  <2>1. x # e /\ fsm[x] # "none"
    BY <1>2
  <2>2. CASE x = p
    <3>1. wire'[p] = wire[p]
      BY <1>1, <2>2 DEF Closes, Wrote, Reaches
    <3> QED BY <1>1, <2>1, <2>2, <3>1 DEF WireInv, AtReset, Live
  <2>3. CASE x # p
    BY <1>2, <2>1, <2>3 DEF WireInv, AtReset, Live
  <2> QED BY <2>2, <2>3
<1>6. Closing'
  <2> SUFFICES ASSUME NEW x \in Ends, fsm'[x] # "none", fsm'[Peer(x)] = "none"
               PROVE  Has(wire'[x], "FIN")
    BY DEF Closing, Live
  <2>1. x # e /\ fsm[x] # "none"
    BY <1>2
  <2>2. CASE x = p
    <3>1. CASE e[1] \notin reset
      BY <2>1, <2>2, <3>1 DEF Closes, Reaches, Live
    <3>2. CASE e[1] \in reset
      <4>1. wire'[p] = wire[p] /\ wire[p] = <<"FIN">>
        BY <1>1, <2>1, <2>2, <3>2 DEF Closes, Wrote, Reaches, WireInv, AtReset, Live
      <4> QED BY <2>2, <4>1 DEF Has
    <3> QED BY <3>1, <3>2
  <2>3. CASE x # p
    BY <1>2, <2>1, <2>3 DEF WireInv, Closing, Live
  <2> QED BY <2>2, <2>3
<1>7. Handshake'
  <2> SUFFICES ASSUME NEW x \in Ends, fsm'[x] \in Waiting
               PROVE  /\ fsm'[x] = "OpenSent" => /\ wire'[x] # <<>>
                                                 /\ \/ fsm'[Peer(x)] = "OpenSent" \/ x[1] \in reset
                                                    \/ Len(wire'[x]) > 1
                      /\ fsm'[x] = "OpenConfirm" => fsm'[Peer(x)] = "OpenSent" \/ wire'[x] # <<>>
    BY DEF Handshake, Closes, Waiting
  <2>1. x # e /\ fsm'[x] = fsm[x]
    BY <1>2 DEF Waiting
  <2>2. CASE x = p /\ e[1] \notin reset
    <3>1. Len(wire'[p]) > Len(wire[p]) /\ wire'[p] # <<>>
      <4>1. Len(wire'[p]) > Len(wire[p])
        BY <1>2, <2>1, <2>2 DEF Closes, Reaches, Live, Waiting
      <4> QED BY <1>3, <4>1, Nothing
    <3>2. fsm[p] = "OpenSent" => Len(wire[p]) > 0
      BY <1>1 DEF WireInv, Handshake
    <3> QED BY <1>3, <2>1, <2>2, <3>1, <3>2
  <2>3. CASE x = p /\ e[1] \in reset
    <3>1. wire'[p] = <<"FIN">>
      BY <1>1, <1>5, <2>1, <2>3 DEF AtReset, Live, Waiting, Closes
    <3> QED BY <1>1, <2>3, <3>1
  <2>4. CASE x # p
    <3>1. fsm'[Peer(x)] = fsm[Peer(x)] /\ wire'[x] = wire[x]
      BY <1>2, <2>1, <2>4
    <3> QED BY <2>1, <3>1 DEF WireInv, Handshake
  <2> QED BY <2>2, <2>3, <2>4
<1> QED BY <1>4, <1>5, <1>6, <1>7 DEF WireInv

\* The task of e goes on: it has read a message other than FIN, or written one.
Goes(e) ==
    /\ Live(e) /\ reset' = reset /\ Wrote(e, wire')
    /\ fsm' = [fsm EXCEPT ![e] = fsm'[e]]
    /\ \/ wire'[e] = wire[e]
       \/ wire[e] # <<>> /\ wire'[e] = Tail(wire[e]) /\ Head(wire[e]) # "FIN"
    /\ \/ /\ fsm[e] = "OpenSent" /\ fsm'[e] = "OpenConfirm"
          /\ wire[e] # <<>> /\ wire'[e] = Tail(wire[e])
          /\ Reaches(e) => Len(wire'[Peer(e)]) > Len(wire[Peer(e)])
       \/ fsm[e] = "OpenConfirm" /\ fsm'[e] = "Established"
       \/ fsm[e] = "OpenConfirm" /\ fsm'[e] = "OpenConfirm" /\ wire'[e] = wire[e]
       \/ fsm[e] = "Established" /\ fsm'[e] = "Established"

LEMMA GoesWire ==
    ASSUME SessionTypeOK, WireInv, NEW e \in Ends, Goes(e)
    PROVE  WireInv'
<1> DEFINE p == Peer(e)
<1>1. /\ p \in Ends /\ p # e /\ fsm \in [Ends -> States] /\ Peer(p) = e /\ p[1] = e[1]
      /\ wire' \in [Ends -> Seq(Messages)] /\ wire \in [Ends -> Seq(Messages)] /\ reset' = reset
  BY EndFacts DEF SessionTypeOK, Goes, Wrote
<1>2. /\ fsm[e] # "none" /\ fsm'[e] # "none" /\ fsm'[p] = fsm[p]
      /\ \A x \in Ends : x # e => fsm'[x] = fsm[x]
      /\ \A x \in Ends : fsm'[x] # "none" <=> fsm[x] # "none"
      /\ \A x \in Ends : x # e /\ x # p => wire'[x] = wire[x] /\ Peer(x) \in Ends /\ Peer(x) # e
  <2>1. \A x \in Ends : x # e /\ x # p => Peer(x) \in Ends /\ Peer(x) # e
    BY EndFacts
  <2> QED BY <1>1, <2>1 DEF Goes, Wrote, Live
<1>3. Len(wire[p]) \in Nat /\ Len(wire'[p]) \in Nat /\ Len(wire[e]) \in Nat /\ Len(wire'[e]) \in Nat
  BY <1>1
<1>4. wire[e] # <<>> => /\ Len(wire[e]) > 0 /\ Len(Tail(wire[e])) = Len(wire[e]) - 1
                        /\ Head(wire[e]) = wire[e][1]
                        /\ \A i \in 1..Len(Tail(wire[e])) : Tail(wire[e])[i] = wire[e][i + 1]
                        /\ \A y : Has(wire[e], y) <=> Has(Tail(wire[e]), y) \/ y = Head(wire[e])
                        /\ Tail(wire[e]) # wire[e] /\ (Tail(wire[e]) = <<>> <=> Len(wire[e]) = 1)
  <2>1. wire[e] \in Seq(Messages)
    BY <1>1
  <2> QED BY <2>1, Shortened, Zenon
<1>5. e[1] \in reset => wire'[e] = wire[e]
  <2>1. e[1] \in reset => wire[e] = <<"FIN">>
    BY <1>2 DEF WireInv, AtReset, Live
  <2>2. Head(<<"FIN">>) = "FIN"
    OBVIOUS
  <2> QED BY <2>1, <2>2 DEF Goes
<1>6. OpenFirst'
  <2> SUFFICES ASSUME NEW x \in Ends, NEW i \in 1..Len(wire'[x]), wire'[x][i] = "OPEN"
               PROVE  i = 1 /\ fsm'[x] = "OpenSent"
    BY DEF OpenFirst
  <2>1. CASE x = e
    <3>1. CASE wire'[e] = wire[e] /\ fsm'[e] = fsm[e]
      BY <2>1, <3>1 DEF WireInv, OpenFirst
    <3>2. CASE wire'[e] = wire[e] /\ fsm'[e] # fsm[e]
      <4>1. fsm[e] = "OpenConfirm" \/ (wire[e] # <<>> /\ wire'[e] = Tail(wire[e]))
        BY <3>2 DEF Goes
      <4>2. fsm[e] = "OpenConfirm"
        BY <1>4, <3>2, <4>1
      <4> QED BY <2>1, <3>2, <4>2 DEF WireInv, OpenFirst
    <3>3. CASE wire[e] # <<>> /\ wire'[e] = Tail(wire[e])
      <4>1. i + 1 \in 1..Len(wire[e]) /\ wire[e][i + 1] = "OPEN"
        BY <1>3, <1>4, <2>1, <3>3
      <4>2. i + 1 = 1
        BY <4>1 DEF WireInv, OpenFirst
      <4> QED BY <4>2
    <3> QED BY <3>1, <3>2, <3>3 DEF Goes
  <2>2. CASE x = p
    <3>1. i <= Len(wire[p]) /\ wire[p][i] = "OPEN"
      BY <1>3, <2>2 DEF Goes, Wrote, Grows
    <3> QED BY <1>1, <1>2, <1>3, <2>2, <3>1 DEF WireInv, OpenFirst
  <2>3. CASE x # e /\ x # p
    BY <1>2, <2>3 DEF WireInv, OpenFirst
  <2> QED BY <2>1, <2>2, <2>3
<1>7. AtReset'
  <2> SUFFICES ASSUME NEW x \in Ends, x[1] \in reset, fsm'[x] # "none"
               PROVE  wire'[x] = <<"FIN">>
    BY <1>1 DEF AtReset, Live
  <2>1. wire[x] = <<"FIN">>
    BY <1>2 DEF WireInv, AtReset, Live
  <2>2. x = p => wire'[x] = wire[x]
    BY <1>1 DEF Goes, Wrote, Reaches
  <2> QED BY <1>2, <1>5, <2>1, <2>2
<1>8. Closing'
  <2> SUFFICES ASSUME NEW x \in Ends, fsm'[x] # "none", fsm'[Peer(x)] = "none"
               PROVE  Has(wire'[x], "FIN")
    BY DEF Closing, Live
  <2>1. Peer(x) \in Ends
    BY EndFacts
  <2>2. Has(wire[x], "FIN")
    BY <1>2, <2>1 DEF WireInv, Closing, Live
  <2>3. x # p
    BY <1>1, <1>2
  <2>4. CASE x = e
    BY <1>4, <2>2, <2>4 DEF Goes
  <2>5. CASE x # e
    BY <1>2, <2>2, <2>3, <2>5
  <2> QED BY <2>4, <2>5
<1>9. Handshake'
  <2> SUFFICES ASSUME NEW x \in Ends, fsm'[x] \in Waiting
               PROVE  /\ fsm'[x] = "OpenSent" => /\ wire'[x] # <<>>
                                                 /\ \/ fsm'[Peer(x)] = "OpenSent" \/ x[1] \in reset
                                                    \/ Len(wire'[x]) > 1
                      /\ fsm'[x] = "OpenConfirm" => fsm'[Peer(x)] = "OpenSent" \/ wire'[x] # <<>>
    BY <1>1 DEF Handshake, Waiting
  <2>1. CASE x = e
    <3>1. fsm'[e] = "OpenConfirm"
      BY <2>1 DEF Goes, Waiting
    <3>2. CASE fsm[e] = "OpenConfirm"
      <4>1. wire'[e] = wire[e]
        BY <3>1, <3>2 DEF Goes
      <4> QED BY <1>2, <2>1, <3>1, <3>2, <4>1 DEF WireInv, Handshake
    <3>3. CASE fsm[e] = "OpenSent"
      <4>1. wire[e] # <<>> /\ wire'[e] = Tail(wire[e])
        BY <3>3 DEF Goes
      <4>2. e[1] \notin reset
        BY <1>4, <1>5, <4>1
      <4>3. fsm[p] = "OpenSent" \/ Len(wire[e]) > 1
        BY <3>3, <4>2 DEF WireInv, Handshake
      <4>4. Len(wire[e]) > 1 => wire'[e] # <<>>
        <5>1. Tail(wire[e]) = <<>> <=> Len(wire[e]) = 1
          BY <1>4, <4>1, Zenon
        <5>2. \A n \in Nat : n > 1 => n # 1
          OBVIOUS
        <5> QED BY <1>3, <4>1, <5>1, <5>2, Zenon
      <4> QED BY <1>2, <2>1, <3>1, <4>3, <4>4
    <3> QED BY <3>1, <3>2, <3>3 DEF Goes
  <2>2. CASE x = p
    <3>1. Len(wire'[p]) >= Len(wire[p])
      BY <1>3 DEF Goes, Wrote, Grows
    <3>2. /\ fsm[p] = "OpenSent" => /\ Len(wire[p]) > 0
                                    /\ fsm[e] = "OpenSent" \/ p[1] \in reset \/ Len(wire[p]) > 1
          /\ fsm[p] = "OpenConfirm" => fsm[e] = "OpenSent" \/ Len(wire[p]) > 0
      BY <1>1 DEF WireInv, Handshake
    <3>3. Len(wire'[p]) > 0 => wire'[p] # <<>>
      BY Nothing
    <3>4. CASE fsm'[e] = fsm[e]
      BY <1>1, <1>2, <1>3, <2>2, <3>1, <3>2, <3>3, <3>4
    <3>5. CASE fsm[e] = "OpenConfirm"
      BY <1>1, <1>2, <1>3, <2>2, <3>1, <3>2, <3>3, <3>5
    <3>6. CASE fsm[e] = "OpenSent" /\ fsm'[e] = "OpenConfirm"
      <4>1. p[1] \notin reset => Len(wire'[p]) > Len(wire[p])
        BY <1>1, <1>2, <2>2, <3>6 DEF Goes, Reaches, Live, Waiting
      <4>2. p[1] \in reset => wire'[p] = <<"FIN">>
        BY <1>1, <1>2, <1>7, <2>2 DEF AtReset, Live, Waiting
      <4>3. wire'[p] # <<>>
        <5>1. <<"FIN">> # <<>>
          OBVIOUS
        <5>2. Len(wire'[p]) > Len(wire[p]) => Len(wire'[p]) > 0
          BY <1>3
        <5> QED BY <3>3, <4>1, <4>2, <5>1, <5>2
      <4>4. fsm[p] = "OpenSent" => p[1] \in reset \/ Len(wire'[p]) > 1
        BY <1>3, <3>2, <4>1
      <4> QED BY <1>2, <2>2, <4>3, <4>4
    <3> QED BY <3>4, <3>5, <3>6 DEF Goes
  <2>3. CASE x # e /\ x # p
    <3>1. fsm'[Peer(x)] = fsm[Peer(x)] /\ wire'[x] = wire[x] /\ fsm'[x] = fsm[x]
      BY <1>2, <2>3
    <3> QED BY <3>1 DEF WireInv, Handshake
  <2> QED BY <2>1, <2>2, <2>3
<1> QED BY <1>6, <1>7, <1>8, <1>9 DEF WireInv

-----------------------------------------------------------------------------
(* The books under the steps of a task.                                     *)

Kinds == {"established", "down", "update"}

LEMMA Reported ==
    ASSUME SessionTypeOK, NEW e \in Ends, NEW kind \in Kinds \cup {"none"}, Report(e, kind)
    PROVE  /\ inbox' \in [Speaker -> Seq(Reports)]
           /\ kind = "none" => inbox' = inbox
           /\ \A s \in Speaker : s # e[2] => inbox'[s] = inbox[s]
           /\ kind # "none" =>
                /\ inbox'[e[2]] = Append(inbox[e[2]], [kind |-> kind, conn |-> e[1]])
                /\ Len(inbox[e[2]]) \in Nat /\ Len(inbox'[e[2]]) = Len(inbox[e[2]]) + 1
                /\ \A i \in 1..Len(inbox[e[2]]) : inbox'[e[2]][i] = inbox[e[2]][i]
                /\ inbox'[e[2]][Len(inbox[e[2]]) + 1] = [kind |-> kind, conn |-> e[1]]
<1> DEFINE s == e[2]
           m == [kind |-> kind, conn |-> e[1]]
<1>1. s \in Speaker /\ e[1] \in Conn /\ inbox \in [Speaker -> Seq(Reports)] /\ inbox[s] \in Seq(Reports)
  BY EndFacts DEF SessionTypeOK
<1>2. CASE kind = "none"
  BY <1>1, <1>2 DEF Report
<1>3. CASE kind # "none"
  <2>1. inbox' = [inbox EXCEPT ![s] = Append(@, m)]
    BY <1>3 DEF Report
  <2>2. m \in Reports
    BY <1>1, <1>3 DEF Reports, Kinds
  <2> HIDE DEF m
  <2>3. /\ Append(inbox[s], m) \in Seq(Reports) /\ Len(Append(inbox[s], m)) = Len(inbox[s]) + 1
        /\ Len(inbox[s]) \in Nat
        /\ \A i \in 1..Len(inbox[s]) : Append(inbox[s], m)[i] = inbox[s][i]
        /\ Append(inbox[s], m)[Len(inbox[s]) + 1] = m
    BY <1>1, <2>2, Appended
  <2>4. inbox'[s] = Append(inbox[s], m) /\ inbox' \in [Speaker -> Seq(Reports)]
        /\ \A t \in Speaker : t # s => inbox'[t] = inbox[t]
    BY <1>1, <2>1, <2>3
  <2> QED BY <1>3, <2>3, <2>4 DEF m
<1> QED BY <1>2, <1>3

LEMMA ReportedPending ==
    ASSUME SessionTypeOK, NEW e \in Ends, NEW kind \in Kinds \cup {"none"}, Report(e, kind)
    PROVE  /\ \A s \in Speaker, c \in Conn, k \in Kinds :
                 Pending(s, c, k)' <=> Pending(s, c, k) \/ (<<c, s>> = e /\ k = kind)
           /\ \A s \in Speaker, c \in Conn :
                 Mentioned(s, c)' <=> Mentioned(s, c) \/ (<<c, s>> = e /\ kind # "none")
<1> SUFFICES ASSUME NEW s \in Speaker, NEW c \in Conn
             PROVE  /\ \A k \in Kinds : Pending(s, c, k)' <=> Pending(s, c, k) \/ (<<c, s>> = e /\ k = kind)
                    /\ Mentioned(s, c)' <=> Mentioned(s, c) \/ (<<c, s>> = e /\ kind # "none")
  OBVIOUS
<1>1. <<c, s>> = e <=> c = e[1] /\ s = e[2]
  BY EndFacts
<1>2. CASE kind = "none" \/ s # e[2]
  <2>1. inbox'[s] = inbox[s]
    BY <1>2, Reported
  <2> QED BY <1>1, <1>2, <2>1 DEF Pending, Mentioned, Has, Kinds
<1>3. CASE kind # "none" /\ s = e[2]
  <2> DEFINE n == Len(inbox[s])
  <2>1. /\ n \in Nat /\ Len(inbox'[s]) = n + 1 /\ \A i \in 1..n : inbox'[s][i] = inbox[s][i]
        /\ inbox'[s][n + 1] = [kind |-> kind, conn |-> e[1]]
    BY <1>3, Reported
  <2>2. n + 1 \in 1..Len(inbox'[s]) /\ \A i \in 1..Len(inbox'[s]) : i \in 1..n \/ i = n + 1
    BY <2>1
  <2>3. \A i \in 1..n : i \in 1..Len(inbox'[s])
    BY <2>1
  <2>4. ASSUME NEW k \in Kinds
        PROVE  Pending(s, c, k)' <=> Pending(s, c, k) \/ (<<c, s>> = e /\ k = kind)
    <3>1. [kind |-> kind, conn |-> e[1]] = [kind |-> k, conn |-> c] <=> c = e[1] /\ k = kind
      OBVIOUS
    <3> QED BY <1>1, <1>3, <2>1, <2>2, <2>3, <3>1 DEF Pending, Has
  <2>5. Mentioned(s, c)' <=> Mentioned(s, c) \/ <<c, s>> = e
    <3>1. [kind |-> kind, conn |-> e[1]].conn = e[1]
      OBVIOUS
    <3> QED BY <1>1, <1>3, <2>1, <2>2, <2>3, <3>1 DEF Mentioned
  <2> QED BY <1>3, <2>4, <2>5
<1> QED BY <1>2, <1>3

\* A report keeps the order, if it is no Established of a connection that has been
\* heard of and its task has not reported Down.
LEMMA ReportedOrdered ==
    ASSUME SessionTypeOK, Ordered, NEW e \in Ends, NEW kind \in Kinds \cup {"none"}, Report(e, kind),
           ~Pending(e[2], e[1], "down"), kind = "established" => ~Mentioned(e[2], e[1])
    PROVE  Ordered'
<1> SUFFICES ASSUME NEW s \in Speaker, NEW i \in 1..Len(inbox'[s]), NEW j \in 1..Len(inbox'[s]),
                    i < j, inbox'[s][i].conn = inbox'[s][j].conn
             PROVE  inbox'[s][i].kind # "down" /\ inbox'[s][j].kind # "established"
  BY DEF Ordered
<1>1. CASE kind = "none" \/ s # e[2]
  <2>1. inbox'[s] = inbox[s]
    BY <1>1, Reported
  <2> QED BY <2>1 DEF Ordered
<1>2. CASE kind # "none" /\ s = e[2]
  <2> DEFINE n == Len(inbox[s])
             m == [kind |-> kind, conn |-> e[1]]
  <2>1. /\ n \in Nat /\ Len(inbox'[s]) = n + 1 /\ \A h \in 1..n : inbox'[s][h] = inbox[s][h]
        /\ inbox'[s][n + 1] = m
    BY <1>2, Reported
  <2>2. i \in 1..n
    BY <2>1
  <2>3. CASE j \in 1..n
    BY <2>1, <2>2, <2>3 DEF Ordered
  <2>4. CASE j = n + 1
    <3>1. inbox[s][i] \in Reports /\ inbox[s][i].conn = e[1] /\ inbox'[s][i] = inbox[s][i]
      <4>1. inbox[s] \in Seq(Reports)
        BY DEF SessionTypeOK
      <4>2. inbox[s][i] \in Reports
        BY <2>2, <4>1
      <4> QED BY <2>1, <2>2, <2>4, <4>2
    <3>2. inbox[s][i].kind # "down"
      <4>1. inbox[s][i].kind = "down" => inbox[s][i] = [kind |-> "down", conn |-> e[1]]
        BY <3>1 DEF Reports
      <4> QED BY <1>2, <2>2, <4>1 DEF Pending, Has
    <3>3. kind # "established"
      BY <1>2, <2>2, <3>1 DEF Mentioned
    <3> QED BY <2>1, <2>4, <3>1, <3>2, <3>3
  <2> QED BY <2>1, <2>3, <2>4
<1> QED BY <1>1, <1>2

\* The task of e ends with a Down if it was Established, unless it was told to or a
\* write failed.
EndsBook(e) ==
    /\ Closes(e) /\ UNCHANGED <<sessions, current_conn>>
    /\ \/ Report(e, "down") /\ fsm[e] = "Established" /\ budget' = budget
       \/ /\ Report(e, "none") /\ budget' = budget
          /\ fsm[e] \in Waiting \/ Has(cmds[e], "Shutdown")
       \/ /\ Report(e, "none")
          /\ budget.write = "may" /\ budget' = [budget EXCEPT !.write = "failed"]

LEMMA EndsBooks ==
    ASSUME SessionTypeOK, BooksInv, NEW e \in Ends, EndsBook(e)
    PROVE  BooksInv'
<1>1. PICK kind \in {"none", "down"} :
         /\ Report(e, kind) /\ (kind = "down" => fsm[e] = "Established")
         /\ kind = "none" => \/ budget' = budget /\ (fsm[e] \in Waiting \/ Has(cmds[e], "Shutdown"))
                             \/ budget.write = "may" /\ budget' = [budget EXCEPT !.write = "failed"]
         /\ kind = "down" => budget' = budget
  BY DEF EndsBook
<1>2. /\ sessions' = sessions /\ current_conn' = current_conn
      /\ Live(e) /\ fsm' = [fsm EXCEPT ![e] = "none"] /\ cmds' = [cmds EXCEPT ![e] = <<>>]
      /\ fsm \in [Ends -> States] /\ cmds \in [Ends -> Seq(Commands)]
  BY DEF EndsBook, Closes, SessionTypeOK
<1>3. e[1] \in Conn /\ e[2] \in Speaker /\ e = <<e[1], e[2]>>
  BY EndFacts
<1>0. kind \in Kinds \cup {"none"}
  BY <1>1 DEF Kinds
<1>4. \A s \in Speaker, c \in Conn, k \in Kinds :
         Pending(s, c, k)' <=> Pending(s, c, k) \/ (<<c, s>> = e /\ k = kind)
  BY <1>1, <1>0, ReportedPending
<1>5. \A s \in Speaker, c \in Conn :
         Mentioned(s, c)' <=> Mentioned(s, c) \/ (<<c, s>> = e /\ kind # "none")
  BY <1>1, <1>0, ReportedPending
<1>6. \A s \in Speaker, c \in Conn :
         /\ <<c, s>> \in Ends
         /\ <<c, s>> = e => fsm'[<<c, s>>] = "none" /\ cmds'[<<c, s>>] = <<>>
         /\ <<c, s>> # e => fsm'[<<c, s>>] = fsm[<<c, s>>] /\ cmds'[<<c, s>>] = cmds[<<c, s>>]
  BY <1>2, EndFacts
<1>7. ~Pending(e[2], e[1], "down")
  BY <1>2, <1>3 DEF BooksInv, Commanded
<1>8. Ordered'
  <2>1. Ordered /\ (kind = "established" => ~Mentioned(e[2], e[1]))
    BY <1>1 DEF BooksInv
  <2> QED BY <1>1, <1>0, <1>7, <2>1, ReportedOrdered
<1>9. Unknown'
  BY <1>2, <1>5, <1>6 DEF BooksInv, Unknown
<1>10. Commanded'
  <2> SUFFICES ASSUME NEW s \in Speaker, NEW c \in Conn
               PROVE  /\ Pending(s, c, "established")' => sessions[s] # c /\ cmds'[<<c, s>>] = <<>>
                      /\ Has(cmds'[<<c, s>>], "Shutdown") => sessions[s] # c
                      /\ Pending(s, c, "down")' => fsm'[<<c, s>>] = "none"
    BY <1>2 DEF Commanded, Live
  <2>1. Pending(s, c, "established")' => Pending(s, c, "established")
    BY <1>1, <1>4 DEF Kinds
  <2>2. Pending(s, c, "down")' => Pending(s, c, "down") \/ <<c, s>> = e
    BY <1>4 DEF Kinds
  <2> QED BY <1>6, <2>1, <2>2, Nothing DEF BooksInv, Commanded, Live
<1>11. Known'
  <2> SUFFICES ASSUME NEW s \in Speaker, NEW c \in Conn, fsm'[<<c, s>>] = "Established"
               PROVE  \/ Pending(s, c, "established")' \/ sessions[s] = c
                      \/ Has(cmds'[<<c, s>>], "Shutdown")
    BY <1>2 DEF Known
  <2>1. Pending(s, c, "established") => Pending(s, c, "established")'
    BY <1>4 DEF Kinds
  <2>2. <<c, s>> # e
    BY <1>6
  <2> QED BY <1>6, <2>1, <2>2 DEF BooksInv, Known
<1>12. OneLost'
  <2>1. ASSUME NEW s \in Speaker, NEW c \in Conn, Lost(s, c)', <<c, s>> # e
        PROVE  Lost(s, c)
    <3>1. \A k \in Kinds : Pending(s, c, k)' <=> Pending(s, c, k)
      BY <1>4, <2>1
    <3> QED BY <1>2, <1>6, <2>1, <3>1 DEF Lost, Live, Kinds
  <2>2. ASSUME NEW s \in Speaker, NEW c \in Conn, Lost(s, c)', <<c, s>> = e
        PROVE  budget.write = "may" /\ budget' = [budget EXCEPT !.write = "failed"]
    <3>1. kind = "none"
      BY <1>1, <1>4, <2>2 DEF Lost, Kinds
    <3>2. sessions[s] = c \/ Pending(s, c, "established")
      BY <1>1, <1>2, <1>4, <2>2 DEF Lost, Kinds
    <3>3. fsm[e] \notin Waiting
      <4>1. Pending(s, c, "established") => Mentioned(s, c)
        BY DEF Pending, Mentioned, Has
      <4> QED BY <2>2, <3>2, <4>1 DEF BooksInv, Unknown, Waiting
    <3>4. ~Has(cmds[e], "Shutdown")
      BY <2>2, <3>2, Nothing DEF BooksInv, Commanded
    <3> QED BY <1>1, <3>1, <3>3, <3>4
  <2>3. budget.write = "may" => \A s \in Speaker, c \in Conn : ~Lost(s, c)
    BY DEF BooksInv, OneLost
  <2>4. budget'.write = "failed" \/ budget' = budget
    <3>1. budget \in [fanout : Nat, cut : Nat, reset : Nat, write : {"never", "may", "failed"}]
      BY DEF SessionTypeOK
    <3> QED BY <1>1, <3>1
  <2> SUFFICES ASSUME NEW s \in Speaker, NEW t \in Speaker, NEW c \in Conn, NEW d \in Conn, Lost(s, c)'
               PROVE  budget'.write = "failed" /\ (Lost(t, d)' => s = t /\ c = d)
    BY DEF OneLost
  <2>5. CASE <<c, s>> = e
    <3>1. budget.write = "may" /\ budget' = [budget EXCEPT !.write = "failed"]
      BY <2>2, <2>5
    <3>2. budget'.write = "failed"
      BY <3>1 DEF SessionTypeOK
    <3>3. Lost(t, d)' => <<d, t>> = e
      BY <2>1, <2>3, <3>1
    <3> QED BY <2>5, <3>2, <3>3
  <2>6. CASE <<c, s>> # e
    <3>1. Lost(s, c) /\ budget.write = "failed"
      BY <2>1, <2>6 DEF BooksInv, OneLost
    <3>2. Lost(t, d)' => <<d, t>> # e
      BY <2>2, <3>1
    <3> QED BY <2>1, <2>4, <3>1, <3>2 DEF BooksInv, OneLost
  <2> QED BY <2>5, <2>6
<1>13. Current'
  BY <1>2 DEF BooksInv, Current
<1> QED BY <1>8, <1>9, <1>10, <1>11, <1>12, <1>13 DEF BooksInv

\* The task of e goes on, and reports when it becomes Established and what it reads.
GoesBook(e) ==
    /\ Goes(e) /\ UNCHANGED <<sessions, current_conn, budget>>
    /\ \/ cmds' = cmds
       \/ /\ cmds[e] # <<>> /\ Head(cmds[e]) = "routes"
          /\ cmds' = [cmds EXCEPT ![e] = Tail(@)] /\ Report(e, "none")
    /\ \/ fsm[e] = "OpenConfirm" /\ fsm'[e] = "Established" /\ Report(e, "established")
       \/ fsm[e] = "Established" /\ Report(e, "update")
       \/ Report(e, "none") /\ (fsm'[e] = "Established" => fsm[e] = "Established")

LEMMA GoesBooks ==
    ASSUME SessionTypeOK, BooksInv, NEW e \in Ends, GoesBook(e)
    PROVE  BooksInv'
<1>1. PICK kind \in {"none", "established", "update"} :
         /\ Report(e, kind)
         /\ kind = "established" => fsm[e] = "OpenConfirm" /\ fsm'[e] = "Established"
         /\ kind = "update" => fsm[e] = "Established"
         /\ kind = "none" => (fsm'[e] = "Established" => fsm[e] = "Established")
  BY DEF GoesBook
<1>2. /\ sessions' = sessions /\ current_conn' = current_conn /\ budget' = budget
      /\ fsm[e] # "none" /\ fsm'[e] # "none" /\ (fsm[e] = "Established" => fsm'[e] = "Established")
      /\ fsm' = [fsm EXCEPT ![e] = fsm'[e]]
      /\ fsm \in [Ends -> States] /\ cmds \in [Ends -> Seq(Commands)]
  BY DEF GoesBook, Goes, SessionTypeOK, Live
<1>3. e[1] \in Conn /\ e[2] \in Speaker /\ e = <<e[1], e[2]>>
  BY EndFacts
<1>4. kind \in Kinds \cup {"none"}
  BY <1>1 DEF Kinds
<1>5. \A s \in Speaker, c \in Conn, k \in Kinds :
         Pending(s, c, k)' <=> Pending(s, c, k) \/ (<<c, s>> = e /\ k = kind)
  BY <1>1, <1>4, ReportedPending
<1>6. \A s \in Speaker, c \in Conn :
         Mentioned(s, c)' <=> Mentioned(s, c) \/ (<<c, s>> = e /\ kind # "none")
  BY <1>1, <1>4, ReportedPending
<1>7. \A s \in Speaker, c \in Conn :
         /\ <<c, s>> \in Ends
         /\ fsm'[<<c, s>>] = "none" <=> fsm[<<c, s>>] = "none"
         /\ <<c, s>> # e => fsm'[<<c, s>>] = fsm[<<c, s>>] /\ cmds'[<<c, s>>] = cmds[<<c, s>>]
  BY <1>2, EndFacts DEF GoesBook
<1>8. /\ \A y : y # "routes" => (Has(cmds'[e], y) <=> Has(cmds[e], y))
      /\ Len(cmds[e]) \in Nat /\ Len(cmds'[e]) \in Nat /\ Len(cmds'[e]) <= Len(cmds[e])
      /\ cmds[e] = <<>> => cmds'[e] = <<>>
  <2>1. cmds[e] \in Seq(Commands)
    BY <1>2
  <2>2. CASE cmds' = cmds
    BY <2>1, <2>2
  <2>3. CASE cmds[e] # <<>> /\ Head(cmds[e]) = "routes" /\ cmds' = [cmds EXCEPT ![e] = Tail(@)]
    <3>1. cmds'[e] = Tail(cmds[e])
      BY <1>2, <2>3
    <3>2. /\ Len(cmds[e]) \in Nat /\ Len(cmds[e]) > 0 /\ Len(Tail(cmds[e])) = Len(cmds[e]) - 1
          /\ \A y : Has(cmds[e], y) <=> Has(Tail(cmds[e]), y) \/ y = Head(cmds[e])
      BY <2>1, <2>3, Shortened
    <3> QED BY <2>3, <3>1, <3>2
  <2> QED BY <2>2, <2>3 DEF GoesBook
<1>9. ~Pending(e[2], e[1], "down")
  BY <1>2, <1>3 DEF BooksInv, Commanded, Live
<1>10. kind = "established" => /\ ~Mentioned(e[2], e[1]) /\ sessions[e[2]] # e[1] /\ cmds[e] = <<>>
  BY <1>1, <1>3 DEF BooksInv, Unknown
<1>11. Ordered'
  <2>1. Ordered
    BY DEF BooksInv
  <2> QED BY <1>1, <1>4, <1>9, <1>10, <2>1, ReportedOrdered
<1>12. Unknown'
  <2> SUFFICES ASSUME NEW s \in Speaker, NEW c \in Conn, fsm'[<<c, s>>] \in {"OpenSent", "OpenConfirm"}
               PROVE  ~Mentioned(s, c)' /\ sessions[s] # c /\ cmds'[<<c, s>>] = <<>>
    BY <1>2 DEF Unknown
  <2>1. CASE <<c, s>> = e
    <3>1. fsm[e] \in {"OpenSent", "OpenConfirm"} /\ kind = "none"
      BY <1>1, <1>2, <2>1 DEF Goes, GoesBook
    <3> QED BY <1>6, <1>8, <2>1, <3>1 DEF BooksInv, Unknown
  <2>2. CASE <<c, s>> # e
    BY <1>6, <1>7, <2>2 DEF BooksInv, Unknown
  <2> QED BY <2>1, <2>2
<1>13. Commanded'
  <2> SUFFICES ASSUME NEW s \in Speaker, NEW c \in Conn
               PROVE  /\ Pending(s, c, "established")' => sessions[s] # c /\ cmds'[<<c, s>>] = <<>>
                      /\ Has(cmds'[<<c, s>>], "Shutdown") => sessions[s] # c
                      /\ Pending(s, c, "down")' => fsm'[<<c, s>>] = "none"
    BY <1>2 DEF Commanded, Live
  <2>1. Pending(s, c, "established")' => Pending(s, c, "established") \/ (<<c, s>> = e /\ kind = "established")
    BY <1>5 DEF Kinds
  <2>2. Pending(s, c, "down")' => Pending(s, c, "down")
    BY <1>1, <1>5 DEF Kinds
  <2>3. cmds[<<c, s>>] = <<>> => cmds'[<<c, s>>] = <<>>
    BY <1>7, <1>8
  <2>4. Has(cmds'[<<c, s>>], "Shutdown") => Has(cmds[<<c, s>>], "Shutdown")
    BY <1>7, <1>8
  <2>5. <<c, s>> = e => c = e[1] /\ s = e[2]
    BY EndFacts
  <2> QED BY <1>7, <1>10, <2>1, <2>2, <2>3, <2>4, <2>5 DEF BooksInv, Commanded, Live
<1>14. Known'
  <2> SUFFICES ASSUME NEW s \in Speaker, NEW c \in Conn, fsm'[<<c, s>>] = "Established"
               PROVE  \/ Pending(s, c, "established")' \/ sessions[s] = c
                      \/ Has(cmds'[<<c, s>>], "Shutdown")
    BY <1>2 DEF Known
  <2>1. /\ Pending(s, c, "established") => Pending(s, c, "established")'
        /\ <<c, s>> = e /\ kind = "established" => Pending(s, c, "established")'
    BY <1>5 DEF Kinds
  <2>2. Has(cmds[<<c, s>>], "Shutdown") => Has(cmds'[<<c, s>>], "Shutdown")
    BY <1>7, <1>8
  <2>3. fsm[<<c, s>>] = "Established" \/ (<<c, s>> = e /\ kind = "established")
    BY <1>1, <1>7
  <2> QED BY <2>1, <2>2, <2>3 DEF BooksInv, Known
<1>15. OneLost'
  <2>1. ASSUME NEW s \in Speaker, NEW c \in Conn, Lost(s, c)'
        PROVE  Lost(s, c)
    <3>1. fsm[<<c, s>>] = "none" /\ <<c, s>> # e
      BY <1>2, <1>7, <2>1 DEF Lost, Live
    <3>2. \A k \in Kinds : Pending(s, c, k)' <=> Pending(s, c, k)
      BY <1>5, <3>1
    <3> QED BY <1>2, <2>1, <3>1, <3>2 DEF Lost, Live, Kinds
  <2> QED BY <1>2, <2>1 DEF BooksInv, OneLost
<1>16. Current'
  BY <1>2 DEF BooksInv, Current
<1> QED BY <1>11, <1>12, <1>13, <1>14, <1>15, <1>16 DEF BooksInv

-----------------------------------------------------------------------------
(* The actions of the session task are such steps.                          *)

TaskStep(e) ==
    /\ EndsBook(e) \/ (GoesBook(e) /\ dialling' = dialling)
    /\ UNCHANGED <<path, learned, teardown>>

LEMMA TaskTypes ==
    ASSUME SessionTypeOK, NEW e \in Ends, TaskStep(e)
    PROVE  SessionTypeOK'
<1>1. /\ Wrote(e, wire') /\ reset' = reset /\ sessions' = sessions /\ current_conn' = current_conn
      /\ dialling' \in [Speaker -> Conn \cup {0}] /\ path' = path /\ learned' = learned
      /\ teardown' = teardown
  BY DEF TaskStep, EndsBook, GoesBook, Closes, Goes, SessionTypeOK
<1>2. inbox' \in [Speaker -> Seq(Reports)]
  <2>1. PICK kind \in Kinds \cup {"none"} : Report(e, kind)
    BY DEF TaskStep, EndsBook, GoesBook, Kinds
  <2> QED BY <2>1, Reported
<1>3. budget' \in [fanout : Nat, cut : Nat, reset : Nat, write : {"never", "may", "failed"}]
  BY DEF TaskStep, EndsBook, GoesBook, SessionTypeOK
<1>4. /\ fsm' = [fsm EXCEPT ![e] = fsm'[e]]
      /\ fsm'[e] \in {"none", "OpenConfirm", "Established"}
      /\ fsm'[e] = "none" => wire'[e] = <<>> /\ cmds'[e] = <<>>
  BY DEF TaskStep, EndsBook, GoesBook, Closes, Goes, SessionTypeOK
<1>5. /\ fsm' \in [Ends -> States] /\ \A x \in Ends : x # e => fsm'[x] = fsm[x]
      /\ \A x \in Ends : fsm'[x] # "none" => fsm'[x] \in {"OpenSent", "OpenConfirm", "Established"}
  <2>1. /\ fsm \in [Ends -> States]
        /\ \A x \in Ends : fsm[x] # "none" => fsm[x] \in {"OpenSent", "OpenConfirm", "Established"}
    BY DEF SessionTypeOK, Live
  <2>2. fsm' \in [Ends -> States]
    BY <1>4, <2>1 DEF States
  <2>3. \A x \in Ends : x # e => fsm'[x] = fsm[x]
    BY <1>4, <2>1
  <2> QED BY <1>4, <2>1, <2>2, <2>3
<1>6. cmds' \in [Ends -> Seq(Commands)] /\ \A x \in Ends : x # e => cmds'[x] = cmds[x]
  <2>1. cmds[e] \in Seq(Commands) /\ cmds \in [Ends -> Seq(Commands)]
    BY DEF SessionTypeOK
  <2>2. cmds[e] # <<>> => Tail(cmds[e]) \in Seq(Commands)
    BY <2>1, Shortened
  <2>3. \/ cmds' = cmds \/ cmds' = [cmds EXCEPT ![e] = <<>>]
        \/ cmds[e] # <<>> /\ cmds' = [cmds EXCEPT ![e] = Tail(@)]
    BY DEF TaskStep, EndsBook, GoesBook, Closes
  <2>4. <<>> \in Seq(Commands)
    OBVIOUS
  <2>5. PICK q \in Seq(Commands) : cmds' = [cmds EXCEPT ![e] = q] \/ cmds' = cmds
    BY <2>2, <2>3, <2>4, Zenon
  <2> QED BY <2>1, <2>5
<1>7. \A x \in Ends : fsm'[x] = "none" => wire'[x] = <<>> /\ cmds'[x] = <<>>
  <2> SUFFICES ASSUME NEW x \in Ends, fsm'[x] = "none", x # e
               PROVE  wire'[x] = <<>> /\ cmds'[x] = <<>>
    BY <1>4
  <2>1. fsm[x] = "none" /\ wire[x] = <<>> /\ cmds[x] = <<>>
    BY <1>5 DEF SessionTypeOK, Live
  <2>2. wire'[x] = wire[x]
    BY <1>1, <2>1 DEF Wrote, Reaches, Live
  <2> QED BY <1>6, <2>1, <2>2
<1>8. wire' \in [Ends -> Seq(Messages)]
  BY <1>1 DEF Wrote
<1> QED BY <1>1, <1>2, <1>3, <1>5, <1>6, <1>7, <1>8 DEF SessionTypeOK, Live

LEMMA TaskKeeps ==
    ASSUME IInv, NEW e \in Ends, TaskStep(e)
    PROVE  IInv'
<1>1. SessionTypeOK'
  BY TaskTypes DEF IInv
<1>2. WireInv'
  <2>1. SessionTypeOK /\ WireInv
    BY DEF IInv
  <2> QED BY <2>1, ClosesWire, GoesWire DEF TaskStep, EndsBook, GoesBook
<1>3. BooksInv'
  <2>1. SessionTypeOK /\ BooksInv
    BY DEF IInv
  <2> QED BY <2>1, EndsBooks, GoesBooks DEF TaskStep
<1> QED BY <1>1, <1>2, <1>3 DEF IInv

LEMMA Failing ==
    ASSUME SessionTypeOK, NEW e \in Ends, Live(e), NEW w, Wrote(e, w), CanFail(e), Spend(TRUE),
           Report(e, "none"), End(e, w), UNCHANGED <<reset, sessions, current_conn>>
    PROVE  EndsBook(e)
<1>1. Closes(e)
  BY EndCloses
<1> QED BY <1>1 DEF EndsBook, Spend, CanFail

\* An event that ends the session.
LEMMA Drops ==
    ASSUME SessionTypeOK, NEW e \in Ends, Live(e), NEW w, Wrote(e, w), NEW ev,
           Handle(fsm[e], ev).drop, Handle(fsm[e], ev).send \in {"none", "NOTIFICATION"},
           Handle(fsm[e], ev).report = Down(fsm[e]), Apply(e, ev, w),
           UNCHANGED <<reset, sessions, current_conn>>
    PROVE  EndsBook(e)
<1> DEFINE r == Handle(fsm[e], ev)
<1>1. PICK failing \in Fails(e, r.send) :
         /\ Spend(failing) /\ Report(e, IF failing THEN "none" ELSE r.report)
         /\ IF failing THEN End(e, w) ELSE End(e, Written(e, r.send, w))
  BY DEF Apply
<1>2. CASE failing
  BY <1>1, <1>2, Failing DEF Fails
<1>3. CASE ~failing
  <2>1. Wrote(e, Written(e, r.send, w))
    BY Writes DEF Written, Messages
  <2>2. Closes(e)
    BY <1>1, <1>3, <2>1, EndCloses
  <2>3. budget' = budget /\ Report(e, Down(fsm[e]))
    BY <1>1, <1>3 DEF Spend
  <2>4. fsm[e] \in {"OpenSent", "OpenConfirm", "Established"}
    BY DEF SessionTypeOK
  <2> QED BY <2>2, <2>3, <2>4 DEF EndsBook, Down, Waiting
<1> QED BY <1>1, <1>2, <1>3 DEF Fails

\* An event after which it goes on.
LEMMA Proceeds ==
    ASSUME SessionTypeOK, NEW e \in Ends, Live(e), NEW w, Wrote(e, w), NEW ev,
           NEW next, NEW send, NEW report, Handle(fsm[e], ev) = To(next, send, FALSE, report),
           Apply(e, ev, w), UNCHANGED <<reset, sessions, current_conn>>
    PROVE  \/ EndsBook(e)
           \/ /\ fsm' = [fsm EXCEPT ![e] = next] /\ wire' = Written(e, send, w)
              /\ budget' = budget /\ Report(e, report) /\ UNCHANGED <<cmds, dialling>>
<1>1. PICK failing \in Fails(e, send) :
         /\ Spend(failing) /\ Report(e, IF failing THEN "none" ELSE report)
         /\ IF failing THEN End(e, w)
            ELSE /\ fsm' = [fsm EXCEPT ![e] = next]
                 /\ wire' = Written(e, send, w)
                 /\ UNCHANGED <<cmds, dialling>>
  BY DEF Apply, To
<1>2. CASE failing
  BY <1>1, <1>2, Failing DEF Fails
<1>3. CASE ~failing
  BY <1>1, <1>3 DEF Spend
<1> QED BY <1>1, <1>2, <1>3 DEF Fails

LEMMA ReadSteps ==
    ASSUME IInv, NEW e \in Ends, Read(e)
    PROVE  TaskStep(e)
<1> DEFINE m == Head(wire[e])
           w == [wire EXCEPT ![e] = Tail(@)]
<1>1. /\ SessionTypeOK /\ WireInv /\ Live(e) /\ wire[e] # <<>>
      /\ UNCHANGED <<reset, path, sessions, current_conn, learned, teardown>>
  BY DEF IInv, Read
<1>2. Wrote(e, w) /\ w[e] = Tail(wire[e])
  BY <1>1, WroteNothing
<1>3. /\ m \in Messages /\ m = wire[e][1] /\ Len(wire[e]) \in Nat /\ Len(wire[e]) > 0
  <2>1. wire[e] \in Seq(Messages)
    BY <1>1 DEF SessionTypeOK
  <2> QED BY <1>1, <2>1, Shortened
<1>4. fsm[e] \in {"OpenSent", "OpenConfirm", "Established"}
  BY <1>1 DEF SessionTypeOK
<1>5. m = "OPEN" => fsm[e] = "OpenSent"
  BY <1>1, <1>3 DEF WireInv, OpenFirst
<1>6. SUFFICES EndsBook(e) \/ (GoesBook(e) /\ dialling' = dialling)
  BY <1>1 DEF TaskStep
<1>7. \/ m = "OPEN" /\ Event(e, m) = "RoleMismatch" /\ Refuse(e, w)
      \/ m = "UPDATE" /\ fsm[e] = "Established" /\ Deliver(e, w)
      \/ /\ ~(m = "OPEN" /\ Event(e, m) = "RoleMismatch") /\ ~(m = "UPDATE" /\ fsm[e] = "Established")
         /\ Apply(e, Event(e, m), w)
  BY DEF Read
<1> HIDE DEF m, w
<1>8. CASE m = "OPEN" /\ Event(e, m) = "RoleMismatch" /\ Refuse(e, w)
  <2>1. Wrote(e, Put(w, e, "NOTIFICATION"))
    BY <1>1, <1>2, Writes DEF Messages
  <2>2. Closes(e)
    BY <1>1, <1>8, <2>1, EndCloses DEF Refuse
  <2> QED BY <1>1, <1>5, <1>8, <2>2 DEF EndsBook, Refuse, Report, Waiting
<1>9. CASE m = "UPDATE" /\ fsm[e] = "Established" /\ Deliver(e, w)
  <2>1. Goes(e)
    <3>1. wire' = w /\ fsm' = fsm /\ fsm \in [Ends -> States]
      BY <1>1, <1>9 DEF Deliver, SessionTypeOK
    <3> QED BY <1>1, <1>2, <1>9, <3>1 DEF Goes, m
  <2> QED BY <1>1, <1>9, <2>1 DEF GoesBook, Deliver
<1>10. CASE /\ ~(m = "OPEN" /\ Event(e, m) = "RoleMismatch")
            /\ ~(m = "UPDATE" /\ fsm[e] = "Established")
            /\ Apply(e, Event(e, m), w)
  <2>1. CASE m = "OPEN"
    <3>1. Event(e, m) \in {"OpenReceived", "OpenError"}
      <4>1. Event(e, m) = CheckOpen(e[2], OPEN[Other(e[2])])
        BY <2>1 DEF Event
      <4>2. CheckOpen(e[2], OPEN[Other(e[2])]) \in {"OpenReceived", "OpenError", "RoleMismatch"}
        BY DEF CheckOpen
      <4> QED BY <1>10, <2>1, <4>1, <4>2
    <3>2. CASE Event(e, m) = "OpenError"
      <4>1. Handle(fsm[e], "OpenError") = Notify("OpenSent")
        BY <1>5, <2>1, Machine
      <4> QED BY <1>1, <1>2, <1>5, <1>10, <2>1, <3>2, <4>1, Drops DEF Notify, To
    <3>3. CASE Event(e, m) = "OpenReceived"
      <4>1. Handle(fsm[e], "OpenReceived") = To("OpenConfirm", "KEEPALIVE", FALSE, "none")
        BY <1>5, <2>1, Machine
      <4>2. \/ EndsBook(e)
            \/ /\ fsm' = [fsm EXCEPT ![e] = "OpenConfirm"] /\ wire' = Written(e, "KEEPALIVE", w)
               /\ budget' = budget /\ Report(e, "none") /\ UNCHANGED <<cmds, dialling>>
        BY <1>1, <1>2, <1>10, <3>3, <4>1, Proceeds
      <4>3. /\ Wrote(e, Put(w, e, "KEEPALIVE")) /\ Put(w, e, "KEEPALIVE")[e] = w[e]
            /\ Reaches(e) => Len(Put(w, e, "KEEPALIVE")[Peer(e)]) > Len(wire[Peer(e)])
        BY <1>1, <1>2, Writes DEF Messages
      <4>4. ASSUME fsm' = [fsm EXCEPT ![e] = "OpenConfirm"], wire' = Written(e, "KEEPALIVE", w)
            PROVE  Goes(e) /\ fsm'[e] = "OpenConfirm"
        <5>1. wire' = Put(w, e, "KEEPALIVE") /\ fsm'[e] = "OpenConfirm"
          BY <4>4 DEF Written, SessionTypeOK, IInv
        <5>2. Head(wire[e]) # "FIN"
          BY <2>1 DEF m
        <5> QED BY <1>1, <1>2, <1>5, <2>1, <4>3, <4>4, <5>1, <5>2 DEF Goes
      <4> QED BY <1>1, <4>2, <4>4 DEF GoesBook
    <3> QED BY <3>1, <3>2, <3>3
  <2>2. CASE m = "KEEPALIVE"
    <3>1. Event(e, m) = "KeepAliveReceived"
      BY <2>2 DEF Event
    <3>2. CASE fsm[e] = "OpenSent"
      <4>1. Handle(fsm[e], "KeepAliveReceived") = Notify("OpenSent")
        BY <3>2, Machine
      <4> QED BY <1>1, <1>2, <1>10, <3>1, <3>2, <4>1, Drops DEF Notify, To
    <3>3. CASE fsm[e] \in {"OpenConfirm", "Established"}
      <4> DEFINE report == IF fsm[e] = "OpenConfirm" THEN "established" ELSE "none"
      <4>1. Handle(fsm[e], "KeepAliveReceived") = To("Established", "none", FALSE, report)
        BY <3>3, Machine DEF Stays
      <4> HIDE DEF report
      <4>2. \/ EndsBook(e)
            \/ /\ fsm' = [fsm EXCEPT ![e] = "Established"] /\ wire' = Written(e, "none", w)
               /\ budget' = budget /\ Report(e, report) /\ UNCHANGED <<cmds, dialling>>
        BY <1>1, <1>2, <1>10, <3>1, <4>1, Proceeds
      <4>3. ASSUME fsm' = [fsm EXCEPT ![e] = "Established"], wire' = Written(e, "none", w)
            PROVE  Goes(e) /\ fsm'[e] = "Established"
        <5>1. wire' = w /\ fsm'[e] = "Established"
          BY <4>3 DEF Written, SessionTypeOK, IInv
        <5>2. Head(wire[e]) # "FIN"
          BY <2>2 DEF m
        <5> QED BY <1>1, <1>2, <3>3, <4>3, <5>1, <5>2 DEF Goes
      <4> QED BY <1>1, <3>3, <4>2, <4>3 DEF GoesBook, report
    <3> QED BY <1>4, <3>2, <3>3
  <2>3. CASE m = "UPDATE"
    <3>1. Event(e, m) = "UpdateReceived" /\ fsm[e] \in Waiting
      BY <1>4, <1>10, <2>3 DEF Event, Waiting
    <3>2. Handle(fsm[e], "UpdateReceived") = Notify(fsm[e])
      BY <3>1, Machine DEF Waiting
    <3> QED BY <1>1, <1>2, <1>10, <3>1, <3>2, Drops DEF Notify, To
  <2>4. CASE m = "NOTIFICATION"
    <3>1. Event(e, m) = "NotificationReceived"
      BY <2>4 DEF Event
    <3>2. Handle(fsm[e], "NotificationReceived") = To("Idle", "none", TRUE, Down(fsm[e]))
      BY <1>4, Machine
    <3> QED BY <1>1, <1>2, <1>10, <3>1, <3>2, Drops DEF To
  <2>5. CASE m = "FIN"
    <3>1. Event(e, m) = "TcpConnectionFails"
      BY <2>5 DEF Event
    <3>2. /\ Handle(fsm[e], "TcpConnectionFails").drop
          /\ Handle(fsm[e], "TcpConnectionFails").send = "none"
          /\ Handle(fsm[e], "TcpConnectionFails").report = Down(fsm[e])
      BY <1>4, Machine
    <3> QED BY <1>1, <1>2, <1>10, <3>1, <3>2, Drops
  <2> QED BY <1>3, <2>1, <2>2, <2>3, <2>4, <2>5 DEF Messages
<1> QED BY <1>7, <1>8, <1>9, <1>10

LEMMA TimersStep ==
    ASSUME IInv, NEW e \in Ends, HoldExpires(e) \/ KeepaliveExpires(e)
    PROVE  TaskStep(e)
<1>1. SessionTypeOK /\ Wrote(e, wire) /\ UNCHANGED <<reset, path, sessions, current_conn, learned, teardown>>
  BY WroteNothing DEF IInv, HoldExpires, KeepaliveExpires
<1>2. CASE HoldExpires(e)
  <2>1. Live(e) /\ Apply(e, "HoldTimerExpires", wire) /\ fsm[e] \in {"OpenSent", "OpenConfirm", "Established"}
    BY <1>1, <1>2 DEF HoldExpires, SessionTypeOK
  <2>2. Handle(fsm[e], "HoldTimerExpires") = Notify(fsm[e])
    BY <2>1, Machine
  <2>3. EndsBook(e)
    BY <1>1, <2>1, <2>2, Drops DEF Notify, To
  <2> QED BY <1>1, <2>3 DEF TaskStep
<1>3. CASE KeepaliveExpires(e)
  <2>1. /\ fsm[e] \in {"OpenConfirm", "Established"} /\ e[1] \in reset /\ Live(e)
        /\ Apply(e, "KeepaliveTimerExpires", wire)
    BY <1>3 DEF KeepaliveExpires, Live
  <2>2. Handle(fsm[e], "KeepaliveTimerExpires") = To(fsm[e], "KEEPALIVE", FALSE, "none")
    BY <2>1, Machine
  <2>3. \/ EndsBook(e)
        \/ /\ fsm' = [fsm EXCEPT ![e] = fsm[e]] /\ wire' = Written(e, "KEEPALIVE", wire)
           /\ budget' = budget /\ Report(e, "none") /\ UNCHANGED <<cmds, dialling>>
    BY <1>1, <2>1, <2>2, Proceeds
  <2>4. ASSUME fsm' = [fsm EXCEPT ![e] = fsm[e]], wire' = Written(e, "KEEPALIVE", wire)
        PROVE  Goes(e) /\ fsm'[e] = fsm[e]
    <3>1. wire' = wire /\ fsm' = fsm
      BY <1>1, <2>1, <2>4 DEF Written, Put, SessionTypeOK
    <3> QED BY <1>1, <2>1, <3>1 DEF Goes, SessionTypeOK
  <2> QED BY <1>1, <2>3, <2>4 DEF TaskStep, GoesBook
<1> QED BY <1>2, <1>3

LEMMA CommandSteps ==
    ASSUME IInv, NEW e \in Ends, Command(e)
    PROVE  TaskStep(e)
<1>1. /\ SessionTypeOK /\ Wrote(e, wire) /\ Live(e) /\ cmds[e] # <<>>
      /\ UNCHANGED <<reset, path, sessions, current_conn, learned, teardown>>
  BY WroteNothing DEF IInv, Command
<1>2. e[1] \in Conn /\ e[2] \in Speaker /\ e = <<e[1], e[2]>>
  BY EndFacts
<1>3. fsm[e] = "Established"
  <2>1. fsm[e] \in Waiting => cmds[e] = <<>>
    BY <1>2 DEF IInv, BooksInv, Unknown, Waiting
  <2> QED BY <1>1, <2>1 DEF SessionTypeOK, Waiting
<1>4. /\ Wrote(e, Put(wire, e, "NOTIFICATION"))
      /\ Wrote(e, Put(wire, e, "UPDATE")) /\ Put(wire, e, "UPDATE")[e] = wire[e]
  BY <1>1, Writes DEF Messages
<1>5. CASE /\ Head(cmds[e]) = "routes" /\ UNCHANGED inbox
           /\ \E failing \in {FALSE} \cup (IF CanFail(e) THEN {TRUE} ELSE {}) :
                /\ Spend(failing)
                /\ IF failing THEN End(e, wire)
                   ELSE /\ wire' = Put(wire, e, "UPDATE")
                        /\ cmds' = [cmds EXCEPT ![e] = Tail(@)]
                        /\ UNCHANGED <<fsm, dialling>>
  <2>1. \/ CanFail(e) /\ Spend(TRUE) /\ End(e, wire)
        \/ /\ Spend(FALSE) /\ wire' = Put(wire, e, "UPDATE")
           /\ cmds' = [cmds EXCEPT ![e] = Tail(@)]
           /\ UNCHANGED <<fsm, dialling>>
    BY <1>5
  <2>2. Report(e, "none")
    BY <1>5 DEF Report
  <2>3. CASE CanFail(e) /\ Spend(TRUE) /\ End(e, wire)
    BY <1>1, <2>2, <2>3, Failing DEF TaskStep
  <2>4. CASE /\ Spend(FALSE) /\ wire' = Put(wire, e, "UPDATE")
             /\ cmds' = [cmds EXCEPT ![e] = Tail(@)]
             /\ UNCHANGED <<fsm, dialling>>
    <3>1. Goes(e)
      <4>1. wire'[e] = wire[e] /\ Wrote(e, wire')
        BY <1>4, <2>4
      <4> QED BY <1>1, <1>3, <2>4, <4>1 DEF Goes, SessionTypeOK
    <3>2. budget' = budget
      BY <2>4 DEF Spend
    <3> QED BY <1>1, <1>3, <1>5, <2>2, <2>4, <3>1, <3>2 DEF TaskStep, GoesBook
  <2> QED BY <2>1, <2>3, <2>4
<1>6. CASE /\ Head(cmds[e]) = "Shutdown" /\ End(e, Put(wire, e, "NOTIFICATION"))
           /\ UNCHANGED <<inbox, budget>>
  <2>1. Has(cmds[e], "Shutdown")
    <3>1. cmds[e] \in Seq(Commands)
      BY <1>1 DEF SessionTypeOK
    <3> QED BY <1>1, <1>6, <3>1, Shortened
  <2>2. Closes(e)
    BY <1>1, <1>4, <1>6, EndCloses
  <2> QED BY <1>1, <1>6, <2>1, <2>2 DEF TaskStep, EndsBook, Report
<1>7. CASE /\ Head(cmds[e]) = "BfdDown" /\ End(e, Put(wire, e, "NOTIFICATION"))
           /\ Report(e, "down") /\ UNCHANGED budget
  <2>1. Closes(e)
    BY <1>1, <1>4, <1>7, EndCloses
  <2> QED BY <1>1, <1>3, <1>7, <2>1 DEF TaskStep, EndsBook
<1> QED BY <1>5, <1>6, <1>7 DEF Command

-----------------------------------------------------------------------------
(* The central task.                                                        *)

\* Reading the first report: what is left of it and of its connection.
LEMMA HeadRead ==
    ASSUME SessionTypeOK, Ordered, NEW s \in Speaker, inbox[s] # <<>>,
           inbox' = [inbox EXCEPT ![s] = Tail(@)]
    PROVE  /\ inbox' \in [Speaker -> Seq(Reports)] /\ Head(inbox[s]) \in Reports /\ Ordered'
           /\ Mentioned(s, Head(inbox[s]).conn)
           /\ \A t \in Speaker, c \in Conn, k \in Kinds :
                 /\ Pending(t, c, k)' => Pending(t, c, k)
                 /\ Pending(t, c, k) => \/ Pending(t, c, k)'
                                        \/ t = s /\ Head(inbox[s]) = [kind |-> k, conn |-> c]
           /\ \A t \in Speaker, c \in Conn : Mentioned(t, c)' => Mentioned(t, c)
           /\ \A c \in Conn : Head(inbox[s]).conn = c /\ Head(inbox[s]).kind \in {"established", "down"}
                             => ~Pending(s, c, "established")'
<1> DEFINE q == inbox[s]
           r == Tail(inbox[s])
<1>1. q \in Seq(Reports) /\ inbox \in [Speaker -> Seq(Reports)]
  BY DEF SessionTypeOK
<1>2. /\ r \in Seq(Reports) /\ Len(q) \in Nat /\ Len(q) > 0 /\ Len(r) = Len(q) - 1
      /\ Head(q) = q[1] /\ Head(q) \in Reports
      /\ \A i \in 1..Len(r) : r[i] = q[i + 1]
      /\ \A y : Has(q, y) <=> Has(r, y) \/ y = Head(q)
  BY <1>1, Shortened
<1>3. inbox'[s] = r /\ inbox' \in [Speaker -> Seq(Reports)] /\ \A t \in Speaker : t # s => inbox'[t] = inbox[t]
  BY <1>1, <1>2
<1> DEFINE h == Head(inbox[s])
<1> HIDE DEF q, r, h
<1>4. \A i \in 1..Len(r) : /\ i + 1 \in 1..Len(q) /\ 1 \in 1..Len(q) /\ 1 < i + 1
                           /\ r[i] = q[i + 1]
  BY <1>2
<1>5. Ordered'
  <2> SUFFICES ASSUME NEW t \in Speaker, NEW i \in 1..Len(inbox'[t]), NEW j \in 1..Len(inbox'[t]),
                      i < j, inbox'[t][i].conn = inbox'[t][j].conn
               PROVE  inbox'[t][i].kind # "down" /\ inbox'[t][j].kind # "established"
    BY DEF Ordered
  <2>1. CASE t # s
    BY <1>3, <2>1 DEF Ordered
  <2>2. CASE t = s
    <3>1. /\ i + 1 \in 1..Len(q) /\ j + 1 \in 1..Len(q) /\ i + 1 < j + 1
          /\ r[i] = q[i + 1] /\ r[j] = q[j + 1] /\ inbox'[t] = r
      BY <1>3, <1>4, <2>2
    <3> QED BY <2>2, <3>1 DEF Ordered, q
  <2> QED BY <2>1, <2>2
<1>6. Mentioned(s, h.conn)
  <2>1. 1 \in 1..Len(q) /\ q[1] = h
    BY <1>2 DEF h, q
  <2> QED BY <2>1 DEF Mentioned, q
<1>7. \A t \in Speaker, c \in Conn, k \in Kinds :
         /\ Pending(t, c, k)' => Pending(t, c, k)
         /\ Pending(t, c, k) => Pending(t, c, k)' \/ (t = s /\ h = [kind |-> k, conn |-> c])
  <2> SUFFICES ASSUME NEW t \in Speaker, NEW c \in Conn, NEW k \in Kinds
               PROVE  /\ Pending(t, c, k)' => Pending(t, c, k)
                      /\ Pending(t, c, k) => Pending(t, c, k)' \/ (t = s /\ h = [kind |-> k, conn |-> c])
    OBVIOUS
  <2> DEFINE y == [kind |-> k, conn |-> c]
  <2>1. Pending(t, c, k)' <=> Has(inbox'[t], y)
    BY Zenon DEF Pending, Has
  <2>2. Pending(t, c, k) <=> Has(inbox[t], y)
    BY DEF Pending
  <2> HIDE DEF y
  <2>3. CASE t # s
    BY <1>3, <2>1, <2>2, <2>3
  <2>4. CASE t = s
    <3>1. Has(q, y) <=> Has(r, y) \/ y = h
      BY <1>2 DEF h, q
    <3> QED BY <1>3, <2>1, <2>2, <2>4, <3>1 DEF q, y
  <2> QED BY <2>3, <2>4
<1>8. \A t \in Speaker, c \in Conn : Mentioned(t, c)' => Mentioned(t, c)
  <2> SUFFICES ASSUME NEW t \in Speaker, NEW c \in Conn, Mentioned(t, c)'
               PROVE  Mentioned(t, c)
    OBVIOUS
  <2>1. CASE t # s
    BY <1>3, <2>1 DEF Mentioned
  <2>2. CASE t = s
    <3>1. PICK i \in 1..Len(r) : r[i].conn = c
      BY <1>3, <2>2 DEF Mentioned
    <3>2. i + 1 \in 1..Len(q) /\ q[i + 1].conn = c
      BY <1>4, <3>1
    <3> QED BY <2>2, <3>2 DEF Mentioned, q
  <2> QED BY <2>1, <2>2
<1>9. ASSUME NEW c \in Conn, h.conn = c, h.kind \in {"established", "down"}
      PROVE  ~Pending(s, c, "established")'
  <2> SUFFICES ASSUME NEW i \in 1..Len(r), r[i] = [kind |-> "established", conn |-> c]
               PROVE  FALSE
    BY <1>3 DEF Pending, Has
  <2>1. /\ i + 1 \in 1..Len(q) /\ 1 \in 1..Len(q) /\ 1 < i + 1 /\ q[1] = h
        /\ q[i + 1].kind = "established" /\ q[i + 1].conn = c
    <3>1. q[i + 1] = [kind |-> "established", conn |-> c] /\ q[1] = h
      BY <1>2, <1>4 DEF h, q
    <3> QED BY <1>4, <3>1
  <2> QED BY <1>9, <2>1 DEF Ordered, q
<1> QED BY <1>2, <1>3, <1>5, <1>6, <1>7, <1>8, <1>9 DEF h, q

LEMMA Taken ==
    ASSUME SessionTypeOK, Ordered, NEW s \in Speaker, NEW c \in Conn, NEW kind \in Kinds,
           inbox[s] # <<>>, Head(inbox[s]) = [kind |-> kind, conn |-> c],
           inbox' = [inbox EXCEPT ![s] = Tail(@)]
    PROVE  /\ inbox' \in [Speaker -> Seq(Reports)] /\ Ordered'
           /\ Mentioned(s, c) /\ Pending(s, c, kind)
           /\ kind \in {"established", "down"} => ~Pending(s, c, "established")'
           /\ \A t \in Speaker, d \in Conn, k \in Kinds :
                 /\ Pending(t, d, k)' => Pending(t, d, k)
                 /\ Pending(t, d, k) => Pending(t, d, k)' \/ (t = s /\ k = kind /\ d = c)
           /\ \A t \in Speaker, d \in Conn : Mentioned(t, d)' => Mentioned(t, d)
<1> DEFINE h == Head(inbox[s])
<1>1. h.kind = kind /\ h.conn = c /\ \A d, k : h = [kind |-> k, conn |-> d] => k = kind /\ d = c
  OBVIOUS
<1>2. Has(inbox[s], h)
  <2>1. inbox[s] \in Seq(Reports)
    BY DEF SessionTypeOK
  <2> QED BY <2>1, Shortened
<1>3. Pending(s, c, kind)
  BY <1>2 DEF Pending
<1>4. /\ inbox' \in [Speaker -> Seq(Reports)] /\ Ordered' /\ Mentioned(s, h.conn)
      /\ \A d \in Conn : h.conn = d /\ h.kind \in {"established", "down"} => ~Pending(s, d, "established")'
      /\ \A t \in Speaker, d \in Conn : Mentioned(t, d)' => Mentioned(t, d)
  BY HeadRead
<1>5. \A t \in Speaker, d \in Conn, k \in Kinds :
         /\ Pending(t, d, k)' => Pending(t, d, k)
         /\ Pending(t, d, k) => Pending(t, d, k)' \/ (t = s /\ h = [kind |-> k, conn |-> d])
  BY HeadRead
<1> HIDE DEF h
<1> QED BY <1>1, <1>3, <1>4, <1>5

\* What a command does to the channels.
Queues == [Ends -> Seq(Commands)]

Pushed(q, r, e, x) ==
    /\ r \in Queues
    /\ \A f \in Ends : f # e \/ ~Live(f) => r[f] = q[f]
    /\ Live(e) => /\ \A y : Has(r[e], y) <=> Has(q[e], y) \/ y = x
                  /\ Len(r[e]) = Len(q[e]) + 1

LEMMA Pushes ==
    ASSUME NEW q \in Queues, NEW e \in Ends, NEW x \in Commands
    PROVE  Pushed(q, Push(q, e, x), e, x)
<1>1. CASE ~Live(e)
  <2>1. Push(q, e, x) = q
    BY <1>1 DEF Push
  <2> QED BY <1>1, <2>1 DEF Pushed
<1>2. CASE Live(e)
  <2>1. Push(q, e, x) = [q EXCEPT ![e] = Append(@, x)] /\ q[e] \in Seq(Commands)
    BY <1>2 DEF Push, Queues
  <2>2. /\ Append(q[e], x) \in Seq(Commands) /\ Len(Append(q[e], x)) = Len(q[e]) + 1
        /\ \A y : Has(Append(q[e], x), y) <=> Has(q[e], y) \/ y = x
    BY <2>1, Appended
  <2>3. /\ Push(q, e, x)[e] = Append(q[e], x)
        /\ Push(q, e, x) \in Queues
        /\ \A f \in Ends : f # e => Push(q, e, x)[f] = q[f]
    BY <2>1, <2>2 DEF Queues
  <2> QED BY <1>2, <2>2, <2>3 DEF Pushed
<1> QED BY <1>1, <1>2

\* Steps that leave the connections alone.
LEMMA SameWire ==
    ASSUME WireInv, UNCHANGED <<fsm, wire, reset>>
    PROVE  WireInv'
BY DEF WireInv, OpenFirst, AtReset, Closing, Handshake, Live

LEMMA CentralTypes ==
    ASSUME SessionTypeOK, UNCHANGED <<fsm, wire, reset, path, dialling>>,
           inbox' \in [Speaker -> Seq(Reports)], cmds' \in [Ends -> Seq(Commands)],
           \A e \in Ends : ~Live(e) => cmds'[e] = cmds[e],
           sessions' \in [Speaker -> Conn \cup {0}], current_conn' \in [Speaker -> Conn \cup {0}],
           learned' \in [Speaker -> BOOLEAN], teardown' \in [Speaker -> Nat],
           budget' \in [fanout : Nat, cut : Nat, reset : Nat, write : {"never", "may", "failed"}]
    PROVE  SessionTypeOK'
<1>1. \A e \in Ends : fsm'[e] = "none" => wire'[e] = <<>> /\ cmds'[e] = <<>>
  BY DEF SessionTypeOK, Live
<1> QED BY <1>1 DEF SessionTypeOK, Live

LEMMA RefusedBooks ==
    ASSUME SessionTypeOK, BooksInv, NEW s \in Speaker, NEW c \in Conn, inbox[s] # <<>>,
           Head(inbox[s]) = [kind |-> "established", conn |-> c],
           inbox' = [inbox EXCEPT ![s] = Tail(@)], cmds' = Push(cmds, <<c, s>>, "Shutdown"),
           UNCHANGED <<fsm, sessions, current_conn, budget>>
    PROVE  BooksInv' /\ cmds' \in Queues /\ \A f \in Ends : ~Live(f) => cmds'[f] = cmds[f]
<1> DEFINE e == <<c, s>>
<1>1. /\ Ordered' /\ Mentioned(s, c) /\ ~Pending(s, c, "established")'
      /\ \A t \in Speaker, d \in Conn, k \in Kinds :
            /\ Pending(t, d, k)' => Pending(t, d, k)
            /\ Pending(t, d, k) => Pending(t, d, k)' \/ (t = s /\ k = "established" /\ d = c)
      /\ \A t \in Speaker, d \in Conn : Mentioned(t, d)' => Mentioned(t, d)
  <2>1. Ordered /\ "established" \in Kinds
    BY DEF BooksInv, Kinds
  <2> QED BY <2>1, Taken
<1>2. Pending(s, c, "established")
  <2>1. Ordered /\ "established" \in Kinds
    BY DEF BooksInv, Kinds
  <2> QED BY <2>1, Taken
<1>3. sessions[s] # c /\ cmds[e] = <<>>
  BY <1>2 DEF BooksInv, Commanded
<1>4. /\ \A t \in Speaker, d \in Conn : <<d, t>> \in Ends /\ (<<d, t>> = e <=> d = c /\ t = s)
      /\ \A t \in Speaker, d \in Conn : ~(d = c /\ t = s) => cmds'[<<d, t>>] = cmds[<<d, t>>]
      /\ Live(e) => Has(cmds'[e], "Shutdown")
      /\ ~Live(e) => cmds'[e] = cmds[e]
      /\ cmds' \in Queues /\ \A f \in Ends : ~Live(f) => cmds'[f] = cmds[f]
  <2>1. e \in Ends /\ cmds \in [Ends -> Seq(Commands)] /\ fsm \in [Ends -> States]
    BY EndFacts DEF SessionTypeOK
  <2>2. \A t \in Speaker, d \in Conn : <<d, t>> \in Ends /\ (<<d, t>> = e <=> d = c /\ t = s)
    BY EndFacts
  <2>3. cmds \in Queues /\ "Shutdown" \in Commands
    BY DEF Commands, Queues, SessionTypeOK
  <2>4. Pushed(cmds, cmds', e, "Shutdown")
    BY <2>1, <2>3, Pushes
  <2> HIDE DEF e
  <2> QED BY <2>1, <2>2, <2>4 DEF Pushed
<1>5. Unknown'
  <2> SUFFICES ASSUME NEW t \in Speaker, NEW d \in Conn, fsm[<<d, t>>] \in {"OpenSent", "OpenConfirm"}
               PROVE  ~Mentioned(t, d)' /\ sessions[t] # d /\ cmds'[<<d, t>>] = <<>>
    BY DEF Unknown
  <2>1. ~Mentioned(t, d) /\ sessions[t] # d /\ cmds[<<d, t>>] = <<>>
    BY DEF BooksInv, Unknown
  <2> QED BY <1>1, <1>4, <2>1
<1>6. Commanded'
  <2> SUFFICES ASSUME NEW t \in Speaker, NEW d \in Conn
               PROVE  /\ Pending(t, d, "established")' => sessions[t] # d /\ cmds'[<<d, t>>] = <<>>
                      /\ Has(cmds'[<<d, t>>], "Shutdown") => sessions[t] # d
                      /\ Pending(t, d, "down")' => ~Live(<<d, t>>)
    BY DEF Commanded, Live
  <2>1. /\ Pending(t, d, "established")' => Pending(t, d, "established") /\ ~(d = c /\ t = s)
        /\ Pending(t, d, "down")' => Pending(t, d, "down")
    BY <1>1 DEF Kinds
  <2> QED BY <1>3, <1>4, <2>1 DEF BooksInv, Commanded
<1>7. Known'
  <2> SUFFICES ASSUME NEW t \in Speaker, NEW d \in Conn, fsm[<<d, t>>] = "Established"
               PROVE  \/ Pending(t, d, "established")' \/ sessions[t] = d
                      \/ Has(cmds'[<<d, t>>], "Shutdown")
    BY DEF Known
  <2>1. CASE d = c /\ t = s
    BY <1>4, <2>1 DEF Live
  <2>2. CASE ~(d = c /\ t = s)
    <3>1. Pending(t, d, "established") => Pending(t, d, "established")'
      BY <1>1, <2>2 DEF Kinds
    <3> QED BY <1>4, <2>2, <3>1 DEF BooksInv, Known
  <2> QED BY <2>1, <2>2
<1>8. OneLost'
  <2>1. ASSUME NEW t \in Speaker, NEW d \in Conn, Lost(t, d)'
        PROVE  Lost(t, d)
    <3>1. /\ Pending(t, d, "established")' => Pending(t, d, "established")
          /\ Pending(t, d, "down") => Pending(t, d, "down")'
      BY <1>1 DEF Kinds
    <3> QED BY <2>1, <3>1 DEF Lost, Live
  <2> QED BY <2>1 DEF BooksInv, OneLost
<1>9. Current'
  BY DEF BooksInv, Current
<1> QED BY <1>1, <1>4, <1>5, <1>6, <1>7, <1>8, <1>9 DEF BooksInv

LEMMA AcceptedBooks ==
    ASSUME SessionTypeOK, BooksInv, NEW s \in Speaker, NEW c \in Conn, inbox[s] # <<>>,
           Head(inbox[s]) = [kind |-> "established", conn |-> c],
           inbox' = [inbox EXCEPT ![s] = Tail(@)],
           cmds' = Push(IF sessions[s] # 0 THEN Push(cmds, <<sessions[s], s>>, "Shutdown")
                        ELSE cmds, <<c, s>>, "routes"),
           sessions' = [sessions EXCEPT ![s] = c], current_conn' = [current_conn EXCEPT ![s] = c],
           UNCHANGED <<fsm, budget>>
    PROVE  BooksInv' /\ cmds' \in Queues /\ \A f \in Ends : ~Live(f) => cmds'[f] = cmds[f]
<1> DEFINE e == <<c, s>>
           old == sessions[s]
           mid == IF old # 0 THEN Push(cmds, <<old, s>>, "Shutdown") ELSE cmds
<1>1. /\ Ordered' /\ Mentioned(s, c) /\ Pending(s, c, "established") /\ ~Pending(s, c, "established")'
      /\ \A t \in Speaker, d \in Conn, k \in Kinds :
            /\ Pending(t, d, k)' => Pending(t, d, k)
            /\ Pending(t, d, k) => Pending(t, d, k)' \/ (t = s /\ k = "established" /\ d = c)
      /\ \A t \in Speaker, d \in Conn : Mentioned(t, d)' => Mentioned(t, d)
  <2>1. Ordered /\ "established" \in Kinds
    BY DEF BooksInv, Kinds
  <2> QED BY <2>1, Taken
<1>2. old # c /\ cmds[e] = <<>> /\ old \in Conn \cup {0} /\ e \in Ends /\ cmds \in Queues
  <2>1. old # c /\ cmds[e] = <<>>
    BY <1>1 DEF BooksInv, Commanded
  <2>2. old \in Conn \cup {0} /\ cmds \in Queues
    BY DEF SessionTypeOK, Queues
  <2> QED BY <2>1, <2>2, EndFacts
<1>3. \A t \in Speaker, d \in Conn : /\ <<d, t>> \in Ends /\ (<<d, t>> = e <=> d = c /\ t = s)
                                     /\ <<d, t>> = <<old, s>> <=> d = old /\ t = s
  BY EndFacts
<1>4. /\ \A t \in Speaker : t # s => sessions'[t] = sessions[t] /\ current_conn'[t] = current_conn[t]
      /\ sessions'[s] = c /\ current_conn'[s] = c
  BY DEF SessionTypeOK
<1>5. /\ mid \in Queues
      /\ \A f \in Ends : f # <<old, s>> \/ ~Live(f) => mid[f] = cmds[f]
      /\ \A f \in Ends : f = <<old, s>> /\ Live(f) => \A y : Has(mid[f], y) <=> Has(cmds[f], y) \/ y = "Shutdown"
  <2>1. CASE old = 0
    <3>1. <<old, s>> \notin Ends
      BY <2>1, NoConn, EndFacts
    <3> QED BY <1>2, <2>1, <3>1
  <2>2. CASE old # 0
    <3>1. <<old, s>> \in Ends /\ "Shutdown" \in Commands
      BY <1>2, <1>3, <2>2 DEF Commands
    <3>2. mid = Push(cmds, <<old, s>>, "Shutdown")
      BY <2>2
    <3>3. Pushed(cmds, mid, <<old, s>>, "Shutdown")
      BY <1>2, <3>1, <3>2, Pushes
    <3> QED BY <3>1, <3>3 DEF Pushed
  <2> QED BY <2>1, <2>2
<1>6. Pushed(mid, cmds', e, "routes")
  <2>1. "routes" \in Commands /\ cmds' = Push(mid, e, "routes")
    BY DEF Commands
  <2> HIDE DEF mid, e
  <2> QED BY <1>2, <1>5, <2>1, Pushes
<1> HIDE DEF mid
<1>7. /\ cmds' \in Queues
      /\ \A f \in Ends : ~Live(f) => cmds'[f] = cmds[f]
      /\ \A t \in Speaker, d \in Conn : ~(t = s /\ d \in {c, old}) => cmds'[<<d, t>>] = cmds[<<d, t>>]
  <2>1. \A f \in Ends : ~Live(f) => cmds'[f] = cmds[f]
    BY <1>5, <1>6 DEF Pushed
  <2>2. ASSUME NEW t \in Speaker, NEW d \in Conn, ~(t = s /\ d \in {c, old})
        PROVE  cmds'[<<d, t>>] = cmds[<<d, t>>]
    <3>1. <<d, t>> \in Ends /\ <<d, t>> # e /\ <<d, t>> # <<old, s>>
      BY <1>3, <2>2
    <3> QED BY <1>5, <1>6, <3>1 DEF Pushed
  <2>3. cmds' \in Queues
    BY <1>6 DEF Pushed
  <2> QED BY <2>1, <2>2, <2>3
<1>8. Live(e) => /\ Len(cmds'[e]) = 1 /\ ~Has(cmds'[e], "Shutdown")
  <2>1. e # <<old, s>>
    BY <1>2
  <2>2. mid[e] = <<>>
    BY <1>2, <1>5, <2>1
  <2>3. Live(e) => /\ Len(cmds'[e]) = Len(mid[e]) + 1
                   /\ \A y : Has(cmds'[e], y) <=> Has(mid[e], y) \/ y = "routes"
    BY <1>6 DEF Pushed
  <2>4. Len(<<>>) = 0 /\ ~Has(<<>>, "Shutdown")
    BY Nothing
  <2>5. Len(mid[e]) = 0 /\ ~Has(mid[e], "Shutdown")
    BY <2>2, <2>4, Zenon
  <2> HIDE DEF e
  <2>6. Live(e) => Len(cmds'[e]) = 1
    BY <2>3, <2>5
  <2>7. Live(e) => ~Has(cmds'[e], "Shutdown")
    <3>1. "Shutdown" # "routes"
      OBVIOUS
    <3> QED BY <2>3, <2>5, <3>1, Zenon
  <2> QED BY <2>6, <2>7
<1>9. old \in Conn /\ Live(<<old, s>>) => Has(cmds'[<<old, s>>], "Shutdown")
  <2> SUFFICES ASSUME old \in Conn, Live(<<old, s>>) PROVE Has(cmds'[<<old, s>>], "Shutdown")
    OBVIOUS
  <2>1. <<old, s>> \in Ends /\ <<old, s>> # e
    BY <1>2, <1>3
  <2>2. Has(mid[<<old, s>>], "Shutdown")
    BY <1>5, <2>1
  <2> QED BY <1>6, <2>1, <2>2 DEF Pushed
<1> HIDE DEF e
<1>10. Unknown'
  <2> SUFFICES ASSUME NEW t \in Speaker, NEW d \in Conn, fsm[<<d, t>>] \in {"OpenSent", "OpenConfirm"}
               PROVE  ~Mentioned(t, d)' /\ sessions'[t] # d /\ cmds'[<<d, t>>] = <<>>
    BY DEF Unknown
  <2>1. ~Mentioned(t, d) /\ sessions[t] # d /\ cmds[<<d, t>>] = <<>>
    BY DEF BooksInv, Unknown
  <2>2. ~(t = s /\ d = c) /\ ~(t = s /\ d = old)
    BY <1>1, <2>1
  <2>3. cmds'[<<d, t>>] = cmds[<<d, t>>]
    BY <1>7, <2>2
  <2>4. sessions'[t] # d
    BY <1>4, <2>1, <2>2
  <2> QED BY <1>1, <2>1, <2>3, <2>4
<1>11. Commanded'
  <2> SUFFICES ASSUME NEW t \in Speaker, NEW d \in Conn
               PROVE  /\ Pending(t, d, "established")' => sessions'[t] # d /\ cmds'[<<d, t>>] = <<>>
                      /\ Has(cmds'[<<d, t>>], "Shutdown") => sessions'[t] # d
                      /\ Pending(t, d, "down")' => ~Live(<<d, t>>)
    BY DEF Commanded, Live
  <2>1. /\ Pending(t, d, "established")' => Pending(t, d, "established") /\ ~(d = c /\ t = s)
        /\ Pending(t, d, "down")' => Pending(t, d, "down")
    BY <1>1 DEF Kinds
  <2>2. Pending(t, d, "established") => sessions[t] # d /\ cmds[<<d, t>>] = <<>>
    BY DEF BooksInv, Commanded
  <2>3. Has(cmds'[<<d, t>>], "Shutdown") => sessions'[t] # d
    <3>1. CASE t = s /\ d = c
      <4>1. <<d, t>> = e
        BY <1>3, <3>1
      <4>2. ~Live(e) => ~Has(cmds'[e], "Shutdown")
        BY <1>2, <1>7, Nothing
      <4> QED BY <1>8, <4>1, <4>2
    <3>2. CASE t = s /\ d # c
      BY <1>4, <3>2
    <3>3. CASE t # s
      <4>1. cmds'[<<d, t>>] = cmds[<<d, t>>] /\ sessions'[t] = sessions[t]
        BY <1>4, <1>7, <3>3
      <4>2. Has(cmds[<<d, t>>], "Shutdown") => sessions[t] # d
        BY DEF BooksInv, Commanded
      <4> QED BY <4>1, <4>2, Zenon
    <3> QED BY <3>1, <3>2, <3>3
  <2>4. Pending(t, d, "down") => ~Live(<<d, t>>)
    BY DEF BooksInv, Commanded
  <2>5. ASSUME Pending(t, d, "established")' PROVE sessions'[t] # d /\ cmds'[<<d, t>>] = <<>>
    <3>1. ~(t = s /\ d = c) /\ ~(t = s /\ d = old)
      BY <2>1, <2>2, <2>5
    <3>2. cmds'[<<d, t>>] = cmds[<<d, t>>]
      BY <1>7, <3>1
    <3>3. sessions'[t] # d
      BY <1>4, <2>1, <2>2, <2>5, <3>1
    <3> QED BY <2>1, <2>2, <2>5, <3>2, <3>3
  <2> QED BY <2>1, <2>3, <2>4, <2>5
<1>12. Known'
  <2> SUFFICES ASSUME NEW t \in Speaker, NEW d \in Conn, fsm[<<d, t>>] = "Established"
               PROVE  \/ Pending(t, d, "established")' \/ sessions'[t] = d
                      \/ Has(cmds'[<<d, t>>], "Shutdown")
    BY DEF Known
  <2>1. Pending(t, d, "established") \/ sessions[t] = d \/ Has(cmds[<<d, t>>], "Shutdown")
    BY DEF BooksInv, Known
  <2>2. CASE t = s /\ d = c
    BY <1>4, <2>2
  <2>3. CASE t = s /\ d = old
    BY <1>9, <2>3 DEF Live
  <2>4. CASE ~(t = s /\ d \in {c, old})
    <3>1. Pending(t, d, "established") => Pending(t, d, "established")'
      BY <1>1, <2>4 DEF Kinds
    <3> QED BY <1>4, <1>7, <2>1, <2>4, <3>1
  <2> QED BY <2>2, <2>3, <2>4
<1>13. OneLost'
  <2>1. ASSUME NEW t \in Speaker, NEW d \in Conn, Lost(t, d)'
        PROVE  Lost(t, d)
    <3>1. /\ Pending(t, d, "established")' => Pending(t, d, "established")
          /\ Pending(t, d, "down") => Pending(t, d, "down")'
      BY <1>1 DEF Kinds
    <3>2. sessions'[t] = d => sessions[t] = d \/ Pending(t, d, "established")
      BY <1>1, <1>4
    <3> QED BY <2>1, <3>1, <3>2 DEF Lost, Live
  <2> QED BY <2>1 DEF BooksInv, OneLost
<1>14. Current'
  BY <1>4 DEF BooksInv, Current
<1> QED BY <1>1, <1>7, <1>10, <1>11, <1>12, <1>13, <1>14 DEF BooksInv

LEMMA DownBooks ==
    ASSUME SessionTypeOK, BooksInv, NEW s \in Speaker, NEW c \in Conn, NEW kind \in {"down", "update"},
           inbox[s] # <<>>, Head(inbox[s]) = [kind |-> kind, conn |-> c],
           inbox' = [inbox EXCEPT ![s] = Tail(@)],
           \/ UNCHANGED <<sessions, current_conn>> /\ (kind = "down" => current_conn[s] # c)
           \/ /\ sessions' = [sessions EXCEPT ![s] = 0] /\ current_conn' = [current_conn EXCEPT ![s] = 0]
              /\ kind = "down" /\ current_conn[s] = c,
           UNCHANGED <<fsm, budget, cmds>>
    PROVE  BooksInv'
<1>1. /\ Ordered' /\ Pending(s, c, kind) /\ (kind = "down" => ~Pending(s, c, "established")')
      /\ \A t \in Speaker, d \in Conn, k \in Kinds :
            /\ Pending(t, d, k)' => Pending(t, d, k)
            /\ Pending(t, d, k) => Pending(t, d, k)' \/ (t = s /\ k = kind /\ d = c)
      /\ \A t \in Speaker, d \in Conn : Mentioned(t, d)' => Mentioned(t, d)
  <2>1. Ordered /\ kind \in Kinds
    BY DEF BooksInv, Kinds
  <2> QED BY <2>1, Taken
<1>2. kind = "down" => ~Live(<<c, s>>)
  BY <1>1 DEF BooksInv, Commanded
<1>3. \A t \in Speaker, d \in Conn :
         /\ sessions'[t] = d => sessions[t] = d
         /\ sessions[t] = d => sessions'[t] = d \/ (kind = "down" /\ t = s /\ d = c)
         /\ kind = "down" => sessions'[s] # c
  <2>1. \A t \in Speaker, d \in Conn : sessions[t] = d => current_conn[t] = d
    BY NoConn DEF BooksInv, Current
  <2> QED BY <2>1, NoConn DEF SessionTypeOK
<1>4. \A t \in Speaker, d \in Conn :
         /\ Pending(t, d, "established")' <=> Pending(t, d, "established")
         /\ Pending(t, d, "down")' => Pending(t, d, "down")
         /\ Pending(t, d, "down") => Pending(t, d, "down")' \/ (kind = "down" /\ t = s /\ d = c)
  BY <1>1 DEF Kinds
<1>5. Unknown'
  <2> SUFFICES ASSUME NEW t \in Speaker, NEW d \in Conn, fsm[<<d, t>>] \in {"OpenSent", "OpenConfirm"}
               PROVE  ~Mentioned(t, d)' /\ sessions'[t] # d /\ cmds[<<d, t>>] = <<>>
    BY DEF Unknown
  <2> QED BY <1>1, <1>3 DEF BooksInv, Unknown
<1>6. Commanded'
  <2> SUFFICES ASSUME NEW t \in Speaker, NEW d \in Conn
               PROVE  /\ Pending(t, d, "established")' => sessions'[t] # d /\ cmds[<<d, t>>] = <<>>
                      /\ Has(cmds[<<d, t>>], "Shutdown") => sessions'[t] # d
                      /\ Pending(t, d, "down")' => ~Live(<<d, t>>)
    BY DEF Commanded, Live
  <2> QED BY <1>3, <1>4 DEF BooksInv, Commanded
<1>7. Known'
  <2> SUFFICES ASSUME NEW t \in Speaker, NEW d \in Conn, fsm[<<d, t>>] = "Established"
               PROVE  \/ Pending(t, d, "established")' \/ sessions'[t] = d
                      \/ Has(cmds[<<d, t>>], "Shutdown")
    BY DEF Known
  <2>1. ~(kind = "down" /\ t = s /\ d = c)
    BY <1>2 DEF Live
  <2> QED BY <1>3, <1>4, <2>1 DEF BooksInv, Known
<1>8. OneLost'
  <2>1. ASSUME NEW t \in Speaker, NEW d \in Conn, Lost(t, d)'
        PROVE  Lost(t, d)
    <3>1. ~(kind = "down" /\ t = s /\ d = c)
      BY <1>1, <1>3, <2>1 DEF Lost
    <3> QED BY <1>3, <1>4, <2>1, <3>1 DEF Lost, Live
  <2> QED BY <2>1 DEF BooksInv, OneLost
<1>9. Current'
  BY DEF BooksInv, Current, SessionTypeOK
<1> QED BY <1>1, <1>5, <1>6, <1>7, <1>8, <1>9 DEF BooksInv

LEMMA CentralKeeps ==
    ASSUME IInv, NEW s \in Speaker, Central(s)
    PROVE  IInv'
<1> DEFINE m == Head(inbox[s])
<1>1. /\ SessionTypeOK /\ WireInv /\ BooksInv /\ inbox[s] # <<>> /\ inbox' = [inbox EXCEPT ![s] = Tail(@)]
      /\ UNCHANGED <<fsm, wire, reset, path, dialling, teardown, budget>>
  BY DEF IInv, Central
<1>2. m \in Reports /\ inbox' \in [Speaker -> Seq(Reports)]
  BY <1>1, HeadRead DEF BooksInv
<1>3. m.conn \in Conn /\ m = [kind |-> m.kind, conn |-> m.conn]
  BY <1>2 DEF Reports
<1>4. WireInv'
  BY <1>1, SameWire
<1>5. /\ budget' \in [fanout : Nat, cut : Nat, reset : Nat, write : {"never", "may", "failed"}]
      /\ teardown' \in [Speaker -> Nat]
  BY <1>1 DEF SessionTypeOK
<1>6. /\ sessions \in [Speaker -> Conn \cup {0}] /\ current_conn \in [Speaker -> Conn \cup {0}]
      /\ learned \in [Speaker -> BOOLEAN] /\ cmds \in [Ends -> Seq(Commands)]
  BY <1>1 DEF SessionTypeOK
<1>7. CASE m.kind = "established" /\ OnEstablished(s, m.conn)
  <2>1. m = [kind |-> "established", conn |-> m.conn]
    BY <1>3, <1>7
  <2>2. CASE sessions[s] # 0 /\ ~NewWins(s, m.conn)
    <3>1. cmds' = Push(cmds, <<m.conn, s>>, "Shutdown") /\ UNCHANGED <<sessions, current_conn, learned>>
      BY <1>7, <2>2 DEF OnEstablished
    <3>2. BooksInv' /\ cmds' \in Queues /\ \A f \in Ends : ~Live(f) => cmds'[f] = cmds[f]
      <4> DEFINE c == m.conn
      <4>1. c \in Conn /\ m = [kind |-> "established", conn |-> c] /\ cmds' = Push(cmds, <<c, s>>, "Shutdown")
        BY <1>3, <2>1, <3>1, Zenon
      <4> HIDE DEF c
      <4> QED BY <1>1, <3>1, <4>1, RefusedBooks
    <3>3. SessionTypeOK'
      BY <1>1, <1>2, <1>5, <1>6, <3>1, <3>2, CentralTypes DEF Queues
    <3> QED BY <1>4, <3>2, <3>3 DEF IInv
  <2>3. CASE ~(sessions[s] # 0 /\ ~NewWins(s, m.conn))
    <3>1. /\ cmds' = Push(IF sessions[s] # 0 THEN Push(cmds, <<sessions[s], s>>, "Shutdown")
                          ELSE cmds, <<m.conn, s>>, "routes")
          /\ sessions' = [sessions EXCEPT ![s] = m.conn]
          /\ current_conn' = [current_conn EXCEPT ![s] = m.conn] /\ learned' = learned
      BY <1>7, <2>3 DEF OnEstablished
    <3>2. BooksInv' /\ cmds' \in Queues /\ \A f \in Ends : ~Live(f) => cmds'[f] = cmds[f]
      <4> DEFINE c == m.conn
      <4>1. /\ c \in Conn /\ m = [kind |-> "established", conn |-> c]
            /\ cmds' = Push(IF sessions[s] # 0 THEN Push(cmds, <<sessions[s], s>>, "Shutdown")
                            ELSE cmds, <<c, s>>, "routes")
            /\ sessions' = [sessions EXCEPT ![s] = c] /\ current_conn' = [current_conn EXCEPT ![s] = c]
        BY <1>3, <2>1, <3>1, Zenon
      <4> HIDE DEF c
      <4> QED BY <1>1, <4>1, AcceptedBooks
    <3>3. sessions' \in [Speaker -> Conn \cup {0}] /\ current_conn' \in [Speaker -> Conn \cup {0}]
      BY <1>3, <1>6, <3>1
    <3>4. SessionTypeOK'
      BY <1>1, <1>2, <1>5, <1>6, <3>1, <3>2, <3>3, CentralTypes DEF Queues
    <3> QED BY <1>4, <3>2, <3>4 DEF IInv
  <2> QED BY <2>2, <2>3
<1>8. CASE \/ m.kind = "down" /\ OnDown(s, m.conn)
           \/ m.kind = "update" /\ OnUpdate(s)
  <2> DEFINE c == m.conn
             kind == m.kind
  <2>1. /\ kind \in {"down", "update"} /\ cmds' = cmds
        /\ \/ UNCHANGED <<sessions, current_conn>> /\ (kind = "down" => current_conn[s] # c)
           \/ /\ sessions' = [sessions EXCEPT ![s] = 0] /\ current_conn' = [current_conn EXCEPT ![s] = 0]
              /\ kind = "down" /\ current_conn[s] = c
        /\ learned' \in [Speaker -> BOOLEAN]
        /\ sessions' \in [Speaker -> Conn \cup {0}] /\ current_conn' \in [Speaker -> Conn \cup {0}]
    <3>1. CASE kind = "down" /\ OnDown(s, c)
      <4>1. CASE current_conn[s] # c
        BY <1>6, <3>1, <4>1 DEF OnDown
      <4>2. CASE current_conn[s] = c
        BY <1>6, <3>1, <4>2 DEF OnDown
      <4> QED BY <4>1, <4>2
    <3>2. CASE kind = "update" /\ OnUpdate(s)
      BY <1>6, <3>2 DEF OnUpdate
    <3> QED BY <1>8, <3>1, <3>2
  <2>2. c \in Conn /\ m = [kind |-> kind, conn |-> c]
    BY <1>3, Zenon
  <2>3. BooksInv'
    <3> HIDE DEF c, kind
    <3> QED BY <1>1, <2>1, <2>2, DownBooks
  <2>4. SessionTypeOK'
    BY <1>1, <1>2, <1>5, <1>6, <2>1, CentralTypes
  <2> QED BY <1>4, <2>3, <2>4 DEF IInv
<1> QED BY <1>7, <1>8 DEF Central

-----------------------------------------------------------------------------
(* Route changes, evictions and the news of BFD.                            *)

\* Steps that leave the books alone.
LEMMA SameBooks ==
    ASSUME BooksInv, UNCHANGED <<fsm, cmds, inbox, sessions, current_conn>>,
           budget'.write = budget.write
    PROVE  BooksInv'
<1>1. Ordered' /\ Current'
  BY DEF BooksInv, Ordered, Current
<1>2. Unknown'
  BY DEF BooksInv, Unknown, Mentioned
<1>3. ASSUME NEW t \in Speaker, NEW d \in Conn
      PROVE  /\ Pending(t, d, "established")' <=> Pending(t, d, "established")
             /\ Pending(t, d, "down")' <=> Pending(t, d, "down")
             /\ Live(<<d, t>>)' <=> Live(<<d, t>>)
             /\ Lost(t, d)' <=> Lost(t, d)
  BY DEF Lost, Pending, Has, Live
<1>4. Commanded'
  BY <1>3, Zenon DEF BooksInv, Commanded
<1>5. Known'
  BY <1>3, Zenon DEF BooksInv, Known
<1>6. OneLost'
  BY <1>3 DEF BooksInv, OneLost
<1> QED BY <1>1, <1>2, <1>4, <1>5, <1>6 DEF BooksInv

\* A command for the session in use, other than Shutdown.
LEMMA SentBooks ==
    ASSUME SessionTypeOK, BooksInv, NEW s \in Speaker, NEW x \in {"routes", "BfdDown"},
           sessions[s] # 0, Live(<<sessions[s], s>>),
           cmds' = [cmds EXCEPT ![<<sessions[s], s>>] = Append(@, x)],
           UNCHANGED <<fsm, inbox, sessions, current_conn>>,
           budget'.write = budget.write
    PROVE  BooksInv' /\ cmds' \in Queues /\ \A f \in Ends : ~Live(f) => cmds'[f] = cmds[f]
<1> DEFINE c == sessions[s]
           e == <<c, s>>
           q == cmds[e]
           r == Append(q, x)
<1>1. c \in Conn /\ e \in Ends
  <2>1. c \in Conn
    BY DEF SessionTypeOK
  <2> QED BY <2>1, EndFacts
<1>2. q \in Seq(Commands) /\ x \in Commands /\ cmds \in Queues
  BY <1>1 DEF SessionTypeOK, Commands, Queues
<1>3. /\ r \in Seq(Commands) /\ Len(r) = Len(q) + 1 /\ Len(q) \in Nat
      /\ \A y : Has(r, y) <=> Has(q, y) \/ y = x
  <2> HIDE DEF q
  <2> QED BY <1>2, Appended
<1>4. /\ cmds' \in Queues /\ cmds'[e] = r
      /\ \A f \in Ends : f # e => cmds'[f] = cmds[f]
  BY <1>1, <1>2, <1>3 DEF Queues
<1>5. \A t \in Speaker, d \in Conn : /\ <<d, t>> \in Ends /\ (<<d, t>> = e <=> d = c /\ t = s)
                                     /\ ~(d = c /\ t = s) => cmds'[<<d, t>>] = cmds[<<d, t>>]
  <2>1. \A t \in Speaker, d \in Conn : <<d, t>> \in Ends /\ (<<d, t>> = e <=> d = c /\ t = s)
    BY EndFacts
  <2> QED BY <1>4, <2>1
<1>6. Live(e) /\ ~Has(q, "Shutdown") /\ ~Pending(s, c, "established") /\ fsm[e] \notin {"OpenSent", "OpenConfirm"}
  BY <1>1 DEF BooksInv, Commanded, Unknown
<1>7. ~Has(cmds'[e], "Shutdown")
  BY <1>3, <1>4, <1>6
<1>8. Ordered' /\ OneLost' /\ Current'
  BY DEF BooksInv, Ordered, OneLost, Current, Lost, Pending, Live
<1> HIDE DEF e
<1>9. Unknown'
  <2> SUFFICES ASSUME NEW t \in Speaker, NEW d \in Conn, fsm[<<d, t>>] \in {"OpenSent", "OpenConfirm"}
               PROVE  ~Mentioned(t, d) /\ sessions[t] # d /\ cmds'[<<d, t>>] = <<>>
    BY DEF Unknown, Mentioned
  <2>1. ~(d = c /\ t = s)
    BY <1>5, <1>6
  <2> QED BY <1>5, <2>1 DEF BooksInv, Unknown
<1>10. Commanded'
  <2> SUFFICES ASSUME NEW t \in Speaker, NEW d \in Conn
               PROVE  /\ Pending(t, d, "established")' => sessions'[t] # d /\ cmds'[<<d, t>>] = <<>>
                      /\ Has(cmds'[<<d, t>>], "Shutdown") => sessions'[t] # d
                      /\ Pending(t, d, "down")' => ~Live(<<d, t>>)'
    BY Zenon DEF Commanded
  <2>1. /\ Pending(t, d, "established")' <=> Pending(t, d, "established")
        /\ Pending(t, d, "down")' <=> Pending(t, d, "down")
        /\ Live(<<d, t>>)' <=> Live(<<d, t>>)
        /\ sessions'[t] = sessions[t]
    BY DEF Pending, Has, Live
  <2>2. CASE d = c /\ t = s
    <3>1. <<d, t>> = e
      BY <1>5, <2>2
    <3>2. ~Has(cmds'[<<d, t>>], "Shutdown")
      BY <1>7, <3>1, Zenon
    <3> QED BY <1>6, <2>1, <2>2, <3>2 DEF BooksInv, Commanded
  <2>3. CASE ~(d = c /\ t = s)
    <3>1. cmds'[<<d, t>>] = cmds[<<d, t>>]
      BY <1>5, <2>3
    <3> QED BY <2>1, <3>1 DEF BooksInv, Commanded
  <2> QED BY <2>2, <2>3
<1>11. Known'
  <2> SUFFICES ASSUME NEW t \in Speaker, NEW d \in Conn, fsm[<<d, t>>] = "Established"
               PROVE  \/ Pending(t, d, "established") \/ sessions[t] = d
                      \/ Has(cmds'[<<d, t>>], "Shutdown")
    BY DEF Known, Pending
  <2>1. CASE d = c /\ t = s
    BY <2>1
  <2>2. CASE ~(d = c /\ t = s)
    <3>1. cmds'[<<d, t>>] = cmds[<<d, t>>]
      BY <1>5, <2>2
    <3> QED BY <3>1 DEF BooksInv, Known
  <2> QED BY <2>1, <2>2
<1> QED BY <1>4, <1>6, <1>8, <1>9, <1>10, <1>11 DEF BooksInv

LEMMA FanoutKeeps ==
    ASSUME IInv, NEW s \in Speaker, Fanout(s)
    PROVE  IInv'
<1> DEFINE e == <<sessions[s], s>>
<1>1. /\ SessionTypeOK /\ WireInv /\ BooksInv /\ sessions[s] # 0 /\ budget.fanout > 0
      /\ budget' = [budget EXCEPT !.fanout = @ - 1]
      /\ UNCHANGED <<fsm, wire, reset, path, dialling, inbox, sessions, current_conn, learned>>
  BY DEF IInv, Fanout
<1>2. WireInv'
  BY <1>1, SameWire
<1>3. /\ budget' \in [fanout : Nat, cut : Nat, reset : Nat, write : {"never", "may", "failed"}]
      /\ budget'.write = budget.write
  <2>1. budget \in [fanout : Nat, cut : Nat, reset : Nat, write : {"never", "may", "failed"}]
    BY <1>1 DEF SessionTypeOK
  <2>2. budget.fanout \in Nat /\ budget.fanout - 1 \in Nat
    BY <1>1, <2>1
  <2> QED BY <1>1, <2>1, <2>2
<1>4. /\ sessions' \in [Speaker -> Conn \cup {0}] /\ current_conn' \in [Speaker -> Conn \cup {0}]
      /\ learned' \in [Speaker -> BOOLEAN] /\ cmds \in [Ends -> Seq(Commands)]
      /\ inbox' \in [Speaker -> Seq(Reports)] /\ teardown \in [Speaker -> Nat]
  BY <1>1 DEF SessionTypeOK
<1>5. CASE Live(e) /\ Len(cmds[e]) < CMD_QUEUE
  <2>1. cmds' = [cmds EXCEPT ![e] = Append(@, "routes")] /\ teardown' = teardown
    BY <1>5 DEF Fanout
  <2>2. BooksInv' /\ cmds' \in Queues /\ \A f \in Ends : ~Live(f) => cmds'[f] = cmds[f]
    BY <1>1, <1>3, <1>5, <2>1, SentBooks
  <2>3. SessionTypeOK'
    BY <1>1, <1>3, <1>4, <2>1, <2>2, CentralTypes DEF Queues
  <2> QED BY <1>2, <2>2, <2>3 DEF IInv
<1>6. CASE ~(Live(e) /\ Len(cmds[e]) < CMD_QUEUE)
  <2>1. cmds' = cmds /\ teardown' = [teardown EXCEPT ![s] = IF @ < CMD_QUEUE THEN @ + 1 ELSE @]
    BY <1>6 DEF Fanout
  <2>2. teardown' \in [Speaker -> Nat]
    BY <1>4, <2>1
  <2>3. SessionTypeOK'
    BY <1>1, <1>3, <1>4, <2>1, <2>2, CentralTypes
  <2>4. BooksInv'
    BY <1>1, <1>3, <2>1, SameBooks
  <2> QED BY <1>2, <2>3, <2>4 DEF IInv
<1> QED BY <1>5, <1>6

\* The session that is evicted has ended, for no live one is.
LEMMA TeardownKeeps ==
    ASSUME IInv, NEW s \in Speaker, Teardown(s), Kept'
    PROVE  IInv'
<1> DEFINE c == sessions[s]
           e == <<c, s>>
<1>1. /\ SessionTypeOK /\ WireInv /\ BooksInv /\ teardown[s] > 0
      /\ teardown' = [teardown EXCEPT ![s] = @ - 1] /\ sessions' = [sessions EXCEPT ![s] = 0]
      /\ UNCHANGED <<fsm, wire, cmds, reset, path, dialling, inbox, current_conn, learned, budget>>
  BY DEF IInv, Teardown
<1>2. WireInv'
  BY <1>1, SameWire
<1>3. /\ budget' \in [fanout : Nat, cut : Nat, reset : Nat, write : {"never", "may", "failed"}]
      /\ sessions \in [Speaker -> Conn \cup {0}] /\ current_conn' \in [Speaker -> Conn \cup {0}]
      /\ learned' \in [Speaker -> BOOLEAN] /\ cmds' \in [Ends -> Seq(Commands)]
      /\ inbox' \in [Speaker -> Seq(Reports)] /\ teardown \in [Speaker -> Nat]
      /\ sessions' \in [Speaker -> Conn \cup {0}] /\ c \in Conn \cup {0}
  BY <1>1 DEF SessionTypeOK
<1>4. SessionTypeOK'
  <2>1. teardown' \in [Speaker -> Nat]
    BY <1>1, <1>3
  <2> QED BY <1>1, <1>3, <2>1, CentralTypes
<1>5. c # 0 => ~Live(e)
  <2>1. c # 0 => current_conn[s] = c
    BY <1>1 DEF BooksInv, Current
  <2>2. sessions'[s] = 0 /\ current_conn' = current_conn /\ fsm' = fsm
    BY <1>1, <1>3
  <2> QED BY <2>1, <2>2 DEF Kept, Evicted, Live
<1>6. /\ \A t \in Speaker, d \in Conn : sessions'[t] = d => sessions[t] = d /\ t # s
      /\ \A t \in Speaker, d \in Conn : sessions[t] = d => sessions'[t] = d \/ (t = s /\ d = c)
      /\ \A t \in Speaker : sessions'[t] # 0 => sessions'[t] = sessions[t]
  BY <1>3, <1>1, NoConn
<1>7. /\ \A t \in Speaker, d \in Conn : Mentioned(t, d)' <=> Mentioned(t, d)
      /\ \A t \in Speaker, d \in Conn : Pending(t, d, "established")' <=> Pending(t, d, "established")
      /\ \A t \in Speaker, d \in Conn : Pending(t, d, "down")' <=> Pending(t, d, "down")
      /\ \A t \in Speaker, d \in Conn : Live(<<d, t>>)' <=> Live(<<d, t>>)
      /\ \A t \in Speaker, d \in Conn : cmds'[<<d, t>>] = cmds[<<d, t>>] /\ fsm'[<<d, t>>] = fsm[<<d, t>>]
  BY <1>1, <1>1 DEF Mentioned, Pending, Has, Live
<1>8. Ordered'
  BY <1>1 DEF BooksInv, Ordered
<1>9. Unknown'
  BY <1>1, <1>6, <1>7 DEF BooksInv, Unknown
<1>10. Commanded'
  <2> SUFFICES ASSUME NEW t \in Speaker, NEW d \in Conn
               PROVE  /\ Pending(t, d, "established") => sessions'[t] # d /\ cmds[<<d, t>>] = <<>>
                      /\ Has(cmds[<<d, t>>], "Shutdown") => sessions'[t] # d
                      /\ Pending(t, d, "down") => ~Live(<<d, t>>)
    BY <1>1, <1>7, Zenon DEF Commanded
  <2> QED BY <1>1, <1>6 DEF BooksInv, Commanded
<1>11. Known'
  <2> SUFFICES ASSUME NEW t \in Speaker, NEW d \in Conn, fsm[<<d, t>>] = "Established"
               PROVE  \/ Pending(t, d, "established") \/ sessions'[t] = d
                      \/ Has(cmds[<<d, t>>], "Shutdown")
    BY <1>1, <1>1, <1>7, Zenon DEF Known
  <2>1. ~(t = s /\ d = c)
    BY <1>5, NoConn DEF Live
  <2> QED BY <1>1, <1>6, <2>1 DEF BooksInv, Known
<1>12. OneLost'
  <2>1. ASSUME NEW t \in Speaker, NEW d \in Conn, Lost(t, d)' PROVE Lost(t, d)
    BY <1>6, <1>7, <2>1 DEF Lost
  <2> QED BY <1>1, <1>3, <2>1 DEF BooksInv, OneLost
<1>13. Current'
  BY <1>1, <1>6 DEF BooksInv, Current
<1>14. BooksInv'
  BY <1>8, <1>9, <1>10, <1>11, <1>12, <1>13 DEF BooksInv
<1> QED BY <1>2, <1>4, <1>14 DEF IInv

LEMMA BfdDownKeeps ==
    ASSUME IInv, NEW s \in Speaker, BfdDown(s)
    PROVE  IInv'
<1> DEFINE c == sessions[s]
           e == <<c, s>>
<1>1. /\ SessionTypeOK /\ WireInv /\ BooksInv /\ c # 0 /\ Live(e)
      /\ cmds' = [cmds EXCEPT ![e] = Append(@, "BfdDown")]
      /\ UNCHANGED <<fsm, wire, reset, path, dialling, inbox, sessions, current_conn, learned, teardown,
                    budget>>
  BY DEF IInv, BfdDown
<1>2. WireInv'
  BY <1>1, SameWire
<1>3. /\ budget' \in [fanout : Nat, cut : Nat, reset : Nat, write : {"never", "may", "failed"}]
      /\ sessions' \in [Speaker -> Conn \cup {0}] /\ current_conn' \in [Speaker -> Conn \cup {0}]
      /\ learned' \in [Speaker -> BOOLEAN] /\ cmds \in [Ends -> Seq(Commands)]
      /\ inbox' \in [Speaker -> Seq(Reports)] /\ c \in Conn /\ teardown' \in [Speaker -> Nat]
  BY <1>1 DEF SessionTypeOK
<1>4. BooksInv' /\ cmds' \in Queues /\ \A f \in Ends : ~Live(f) => cmds'[f] = cmds[f]
  BY <1>1, <1>3, SentBooks
<1>5. SessionTypeOK'
  BY <1>1, <1>3, <1>4, CentralTypes DEF Queues
<1> QED BY <1>2, <1>4, <1>5 DEF IInv

-----------------------------------------------------------------------------
(* The connectors and the network.                                          *)

\* A free slot is dialled: two tasks that have just sent their OPENs.
Dialled(c) ==
    /\ fsm' = [e \in Ends |-> IF e[1] = c THEN "OpenSent" ELSE fsm[e]]
    /\ wire' = [e \in Ends |-> IF e[1] = c THEN <<"OPEN">> ELSE wire[e]]
    /\ reset' = reset \ {c}
    /\ UNCHANGED <<cmds, path, inbox, sessions, current_conn, learned, teardown, budget>>

LEMMA DialDials ==
    ASSUME SessionTypeOK, NEW s \in Speaker, Dial(s)
    PROVE  \E c \in Conn : Free(c) /\ Dialled(c) /\ dialling' \in [Speaker -> Conn \cup {0}]
<1> DEFINE up == Handle(Handle("Idle", "ManualStart").next, "TcpConnected")
<1>1. Handle("Idle", "ManualStart").next = "Connect"
  <2>1. Handle("Idle", "ManualStart") = To("Connect", "none", FALSE, "none")
    BY DEF Handle
  <2> QED BY <2>1 DEF To
<1>2. up.next = "OpenSent" /\ up.send = "OPEN"
  <2>1. Handle("Connect", "TcpConnected") = To("OpenSent", "OPEN", FALSE, "none")
    BY DEF Handle
  <2> QED BY <1>1, <2>1 DEF To
<1> HIDE DEF up
<1>3. PICK c \in Conn :
         /\ Free(c)
         /\ fsm' = [e \in Ends |-> IF e[1] = c THEN up.next ELSE fsm[e]]
         /\ wire' = [e \in Ends |-> IF e[1] = c THEN <<up.send>> ELSE wire[e]]
         /\ dialling' = [dialling EXCEPT ![s] = c]
         /\ reset' = reset \ {c}
  BY DEF Dial, up
<1>4. dialling' \in [Speaker -> Conn \cup {0}]
  BY <1>3 DEF SessionTypeOK
<1>5. UNCHANGED <<cmds, path, inbox, sessions, current_conn, learned, teardown, budget>>
  BY DEF Dial
<1>6. Dialled(c)
  BY <1>2, <1>3, <1>5 DEF Dialled
<1> QED BY <1>3, <1>4, <1>6

LEMMA DialledWire ==
    ASSUME SessionTypeOK, WireInv, NEW c \in Conn, Dialled(c)
    PROVE  WireInv'
<1>1. \A x \in Ends : /\ Peer(x) \in Ends /\ Peer(x)[1] = x[1]
                      /\ x[1] = c => fsm'[x] = "OpenSent" /\ wire'[x] = <<"OPEN">> /\ fsm'[Peer(x)] = "OpenSent"
                      /\ x[1] # c => fsm'[x] = fsm[x] /\ wire'[x] = wire[x] /\ fsm'[Peer(x)] = fsm[Peer(x)]
                      /\ x[1] \in reset' <=> x[1] \in reset /\ x[1] # c
  <2>1. \A x \in Ends : Peer(x) \in Ends /\ Peer(x)[1] = x[1]
    BY EndFacts
  <2> QED BY <2>1 DEF Dialled
<1>2. OpenFirst'
  <2> SUFFICES ASSUME NEW x \in Ends, NEW i \in 1..Len(wire'[x]), wire'[x][i] = "OPEN"
               PROVE  i = 1 /\ fsm'[x] = "OpenSent"
    BY DEF OpenFirst
  <2>1. CASE x[1] = c
    <3>1. Len(<<"OPEN">>) = 1
      OBVIOUS
    <3> QED BY <1>1, <2>1, <3>1
  <2>2. CASE x[1] # c
    BY <1>1, <2>2 DEF WireInv, OpenFirst
  <2> QED BY <2>1, <2>2
<1>3. AtReset'
  BY <1>1 DEF WireInv, AtReset, Live
<1>4. Closing'
  <2> SUFFICES ASSUME NEW x \in Ends, fsm'[x] # "none", fsm'[Peer(x)] = "none"
               PROVE  Has(wire'[x], "FIN")
    BY DEF Closing, Live
  <2>1. x[1] # c /\ fsm[x] # "none" /\ fsm[Peer(x)] = "none" /\ wire'[x] = wire[x]
    BY <1>1
  <2> QED BY <2>1 DEF WireInv, Closing, Live
<1>5. Handshake'
  <2> SUFFICES ASSUME NEW x \in Ends
               PROVE  /\ fsm'[x] = "OpenSent" => /\ wire'[x] # <<>>
                                                 /\ \/ fsm'[Peer(x)] = "OpenSent" \/ x[1] \in reset'
                                                    \/ Len(wire'[x]) > 1
                      /\ fsm'[x] = "OpenConfirm" => fsm'[Peer(x)] = "OpenSent" \/ wire'[x] # <<>>
    BY DEF Handshake
  <2>1. CASE x[1] = c
    BY <1>1, <2>1
  <2>2. CASE x[1] # c
    BY <1>1, <2>2 DEF WireInv, Handshake
  <2> QED BY <2>1, <2>2
<1> QED BY <1>2, <1>3, <1>4, <1>5 DEF WireInv

LEMMA DialledBooks ==
    ASSUME SessionTypeOK, BooksInv, NEW c \in Conn, Free(c), Dialled(c)
    PROVE  BooksInv'
<1>1. \A t \in Speaker, d \in Conn :
         /\ d = c => fsm'[<<d, t>>] = "OpenSent" /\ fsm[<<d, t>>] = "none"
         /\ d # c => fsm'[<<d, t>>] = fsm[<<d, t>>]
  BY EndFacts DEF Dialled, Free, Live
<1>2. \A t \in Speaker : sessions[t] # c /\ cmds[<<c, t>>] = <<>> /\ ~Mentioned(t, c)
  <2> SUFFICES ASSUME NEW t \in Speaker
               PROVE  sessions[t] # c /\ cmds[<<c, t>>] = <<>> /\ ~Mentioned(t, c)
    OBVIOUS
  <2>1. sessions[t] # c /\ \A i \in DOMAIN inbox[t] : inbox[t][i].conn # c
    BY DEF Free
  <2>2. inbox[t] \in Seq(Reports)
    BY DEF SessionTypeOK
  <2>3. DOMAIN inbox[t] = 1..Len(inbox[t])
    BY <2>2
  <2>4. ~Mentioned(t, c)
    BY <2>1, <2>3 DEF Mentioned
  <2>5. <<c, t>> \in Ends /\ ~Live(<<c, t>>)
    BY EndFacts DEF Free
  <2>6. cmds[<<c, t>>] = <<>>
    BY <2>5 DEF SessionTypeOK
  <2> QED BY <2>1, <2>4, <2>6
<1>3. \A t \in Speaker, k \in Kinds : ~Pending(t, c, k)
  <2> SUFFICES ASSUME NEW t \in Speaker, NEW k \in Kinds, Pending(t, c, k)
               PROVE  FALSE
    OBVIOUS
  <2>1. PICK i \in 1..Len(inbox[t]) : inbox[t][i] = [kind |-> k, conn |-> c]
    BY DEF Pending, Has
  <2>2. inbox[t][i].conn = c
    BY <2>1
  <2> QED BY <1>2, <2>2 DEF Mentioned
<1>4. /\ UNCHANGED <<cmds, inbox, sessions, current_conn, budget>>
      /\ \A t \in Speaker, d \in Conn, k \in Kinds : Pending(t, d, k)' <=> Pending(t, d, k)
      /\ \A t \in Speaker, d \in Conn : Mentioned(t, d)' <=> Mentioned(t, d)
  BY DEF Dialled, Pending, Mentioned, Has
<1>5. Ordered' /\ Current'
  BY <1>4 DEF BooksInv, Ordered, Current
<1>6. Unknown'
  <2> SUFFICES ASSUME NEW t \in Speaker, NEW d \in Conn, fsm'[<<d, t>>] \in {"OpenSent", "OpenConfirm"}
               PROVE  ~Mentioned(t, d) /\ sessions[t] # d /\ cmds[<<d, t>>] = <<>>
    BY <1>4 DEF Unknown
  <2>1. CASE d = c
    BY <1>2, <2>1
  <2>2. CASE d # c
    BY <1>1, <2>2 DEF BooksInv, Unknown
  <2> QED BY <2>1, <2>2
<1>7. Commanded'
  <2> SUFFICES ASSUME NEW t \in Speaker, NEW d \in Conn
               PROVE  /\ Pending(t, d, "established")' => sessions[t] # d /\ cmds[<<d, t>>] = <<>>
                      /\ Has(cmds[<<d, t>>], "Shutdown") => sessions[t] # d
                      /\ Pending(t, d, "down")' => fsm'[<<d, t>>] = "none"
    <3>1. cmds' = cmds /\ sessions' = sessions
      BY <1>4
    <3> QED BY <3>1 DEF Commanded, Live
  <2>1. /\ Pending(t, d, "established")' <=> Pending(t, d, "established")
        /\ Pending(t, d, "down")' <=> Pending(t, d, "down")
    BY <1>4 DEF Kinds
  <2>2. Pending(t, d, "down") => d # c
    BY <1>3 DEF Kinds
  <2> QED BY <1>1, <2>1, <2>2 DEF BooksInv, Commanded, Live
<1>8. Known'
  <2> SUFFICES ASSUME NEW t \in Speaker, NEW d \in Conn, fsm'[<<d, t>>] = "Established"
               PROVE  \/ Pending(t, d, "established")' \/ sessions[t] = d
                      \/ Has(cmds[<<d, t>>], "Shutdown")
    <3>1. cmds' = cmds /\ sessions' = sessions
      BY <1>4
    <3> QED BY <3>1 DEF Known
  <2>1. Pending(t, d, "established")' <=> Pending(t, d, "established")
    BY <1>4 DEF Kinds
  <2>2. fsm[<<d, t>>] = "Established"
    BY <1>1
  <2> QED BY <2>1, <2>2 DEF BooksInv, Known
<1>9. OneLost'
  <2>1. ASSUME NEW t \in Speaker, NEW d \in Conn, Lost(t, d)' PROVE Lost(t, d)
    <3>1. /\ Pending(t, d, "established")' <=> Pending(t, d, "established")
          /\ Pending(t, d, "down")' <=> Pending(t, d, "down")
          /\ sessions' = sessions
      BY <1>4 DEF Kinds
    <3>2. ~Live(<<d, t>>)' => ~Live(<<d, t>>)
      BY <1>1 DEF Live
    <3> QED BY <2>1, <3>1, <3>2 DEF Lost
  <2> QED BY <1>4, <2>1 DEF BooksInv, OneLost
<1> QED BY <1>5, <1>6, <1>7, <1>8, <1>9 DEF BooksInv

LEMMA DialKeeps ==
    ASSUME IInv, NEW s \in Speaker, Dial(s)
    PROVE  IInv'
<1>1. SessionTypeOK /\ WireInv /\ BooksInv
  BY DEF IInv
<1>2. PICK c \in Conn : Free(c) /\ Dialled(c) /\ dialling' \in [Speaker -> Conn \cup {0}]
  BY <1>1, DialDials
<1>3. WireInv' /\ BooksInv'
  BY <1>1, <1>2, DialledWire, DialledBooks
<1>4. /\ fsm' \in [Ends -> States]
      /\ \A x \in Ends : fsm'[x] # "none" => fsm'[x] \in {"OpenSent", "OpenConfirm", "Established"}
  BY <1>1, <1>2 DEF Dialled, SessionTypeOK, States, Live
<1>5. wire' \in [Ends -> Seq(Messages)]
  <2>1. <<"OPEN">> \in Seq(Messages)
    BY DEF Messages
  <2> QED BY <1>1, <1>2, <2>1 DEF Dialled, SessionTypeOK
<1>6. \A x \in Ends : fsm'[x] = "none" => wire'[x] = <<>> /\ cmds'[x] = <<>>
  BY <1>1, <1>2 DEF Dialled, SessionTypeOK, Live
<1>7. UNCHANGED <<cmds, path, inbox, sessions, current_conn, learned, teardown, budget>> /\ reset' \subseteq Conn
  BY <1>1, <1>2 DEF Dialled, SessionTypeOK
<1>8. SessionTypeOK'
  BY <1>1, <1>2, <1>4, <1>5, <1>6, <1>7 DEF SessionTypeOK, Live
<1> QED BY <1>3, <1>8 DEF IInv

LEMMA ResetKeeps ==
    ASSUME IInv, NEW c \in Conn, Reset(c)
    PROVE  IInv'
<1>1. /\ SessionTypeOK /\ WireInv /\ BooksInv /\ reset' = reset \cup {c}
      /\ wire' = [e \in Ends |-> IF e[1] = c /\ Live(e) THEN <<"FIN">> ELSE wire[e]]
      /\ budget.reset > 0 /\ budget' = [budget EXCEPT !.reset = @ - 1]
      /\ UNCHANGED <<fsm, cmds, path, dialling, inbox, sessions, current_conn, learned, teardown>>
  BY DEF IInv, Reset
<1>2. /\ budget' \in [fanout : Nat, cut : Nat, reset : Nat, write : {"never", "may", "failed"}]
      /\ budget'.write = budget.write
  <2>1. budget \in [fanout : Nat, cut : Nat, reset : Nat, write : {"never", "may", "failed"}]
    BY <1>1 DEF SessionTypeOK
  <2>2. budget.reset \in Nat /\ budget.reset - 1 \in Nat
    BY <1>1, <2>1
  <2> QED BY <1>1, <2>1, <2>2
<1>3. BooksInv'
  BY <1>1, <1>2, SameBooks
<1>4. \A x \in Ends : /\ x[1] = c /\ fsm[x] # "none" => wire'[x] = <<"FIN">>
                      /\ x[1] # c \/ fsm[x] = "none" => wire'[x] = wire[x]
                      /\ x[1] \in reset' <=> x[1] \in reset \/ x[1] = c
  BY <1>1 DEF Live
<1>5. Len(<<"FIN">>) = 1 /\ <<"FIN">>[1] = "FIN" /\ <<"FIN">> # <<>> /\ Has(<<"FIN">>, "FIN")
  BY DEF Has
<1>6. OpenFirst'
  <2> SUFFICES ASSUME NEW x \in Ends, NEW i \in 1..Len(wire'[x]), wire'[x][i] = "OPEN"
               PROVE  i = 1 /\ fsm[x] = "OpenSent"
    BY <1>1 DEF OpenFirst
  <2>1. CASE x[1] = c /\ fsm[x] # "none"
    BY <1>4, <1>5, <2>1
  <2>2. CASE x[1] # c \/ fsm[x] = "none"
    BY <1>1, <1>4, <2>2 DEF WireInv, OpenFirst
  <2> QED BY <2>1, <2>2
<1>7. AtReset'
  BY <1>1, <1>4 DEF WireInv, AtReset, Live
<1>8. Closing'
  <2> SUFFICES ASSUME NEW x \in Ends, fsm[x] # "none", fsm[Peer(x)] = "none"
               PROVE  Has(wire'[x], "FIN")
    BY <1>1 DEF Closing, Live
  <2>1. Has(wire[x], "FIN")
    BY <1>1 DEF WireInv, Closing, Live
  <2> QED BY <1>4, <1>5, <2>1
<1>9. Handshake'
  <2> SUFFICES ASSUME NEW x \in Ends
               PROVE  /\ fsm[x] = "OpenSent" => /\ wire'[x] # <<>>
                                                /\ \/ fsm[Peer(x)] = "OpenSent" \/ x[1] \in reset'
                                                   \/ Len(wire'[x]) > 1
                      /\ fsm[x] = "OpenConfirm" => fsm[Peer(x)] = "OpenSent" \/ wire'[x] # <<>>
    BY <1>1 DEF Handshake
  <2>1. CASE x[1] = c /\ fsm[x] # "none"
    BY <1>4, <1>5, <2>1
  <2>2. CASE x[1] # c \/ fsm[x] = "none"
    BY <1>1, <1>4, <2>2 DEF WireInv, Handshake
  <2> QED BY <2>1, <2>2
<1>10. SessionTypeOK'
  <2>1. wire' \in [Ends -> Seq(Messages)]
    <3>1. <<"FIN">> \in Seq(Messages)
      BY DEF Messages
    <3> QED BY <1>1, <3>1 DEF SessionTypeOK
  <2>2. \A x \in Ends : fsm'[x] = "none" => wire'[x] = <<>> /\ cmds'[x] = <<>>
    BY <1>1, <1>4 DEF SessionTypeOK, Live
  <2>3. reset' \subseteq Conn
    BY <1>1 DEF SessionTypeOK
  <2> QED BY <1>1, <1>2, <2>1, <2>2, <2>3 DEF SessionTypeOK, Live
<1> QED BY <1>3, <1>6, <1>7, <1>8, <1>9, <1>10 DEF IInv, WireInv

LEMMA PathKeeps ==
    ASSUME IInv, Cut \/ Heal \/ UNCHANGED sessVars
    PROVE  IInv'
<1>1. /\ SessionTypeOK /\ WireInv /\ BooksInv /\ path' \in BOOLEAN
      /\ UNCHANGED <<fsm, wire, cmds, reset, dialling, inbox, sessions, current_conn, learned, teardown>>
  BY DEF IInv, Cut, Heal, sessVars, SessionTypeOK
<1>2. budget \in [fanout : Nat, cut : Nat, reset : Nat, write : {"never", "may", "failed"}]
  BY <1>1 DEF SessionTypeOK
<1>3. /\ budget' \in [fanout : Nat, cut : Nat, reset : Nat, write : {"never", "may", "failed"}]
      /\ budget'.write = budget.write
  <2>1. CASE Cut
    <3>1. budget.cut \in Nat /\ budget.cut - 1 \in Nat /\ budget' = [budget EXCEPT !.cut = @ - 1]
      BY <1>2, <2>1 DEF Cut
    <3> QED BY <1>2, <3>1
  <2>2. CASE Heal \/ UNCHANGED sessVars
    BY <1>2, <2>2 DEF Heal, sessVars
  <2> QED BY <2>1, <2>2
<1>4. BooksInv' /\ WireInv'
  BY <1>1, <1>3, SameBooks, SameWire
<1>5. SessionTypeOK'
  BY <1>1, <1>3 DEF SessionTypeOK, Live
<1> QED BY <1>4, <1>5 DEF IInv

-----------------------------------------------------------------------------
(* The theorem.                                                             *)

LEMMA InitHolds ==
    ASSUME Init
    PROVE  IInv
<1>1. SessionTypeOK
  <2>1. budget \in [fanout : Nat, cut : Nat, reset : Nat, write : {"never", "may", "failed"}]
    <3>1. budget \in [fanout : Nat, cut : Nat, reset : Nat, write : {"never", "may"}]
      BY BudgetsAssumption DEF Init
    <3> QED BY <3>1
  <2>2. <<>> \in Seq(Messages) /\ <<>> \in Seq(Commands) /\ <<>> \in Seq(Reports)
    OBVIOUS
  <2> QED BY <2>1, <2>2 DEF Init, SessionTypeOK, States, Live
<1>2. /\ \A e \in Ends : fsm[e] = "none" /\ wire[e] = <<>> /\ cmds[e] = <<>>
      /\ \A s \in Speaker : inbox[s] = <<>> /\ sessions[s] = 0
      /\ \A s \in Speaker, c \in Conn : <<c, s>> \in Ends
  BY EndFacts DEF Init
<1>3. /\ \A s \in Speaker, c \in Conn : ~Mentioned(s, c)
      /\ \A s \in Speaker, c \in Conn, k \in Kinds : ~Pending(s, c, k)
  BY <1>2, Nothing DEF Mentioned, Pending
<1>4. WireInv
  <2>1. OpenFirst
    <3> SUFFICES ASSUME NEW e \in Ends, NEW i \in 1..Len(wire[e])
                 PROVE  FALSE
      BY DEF OpenFirst
    <3>1. Len(wire[e]) = 0
      BY <1>2, Nothing
    <3> QED BY <3>1
  <2>2. AtReset /\ Closing /\ Handshake
    BY <1>2 DEF AtReset, Closing, Handshake, Live
  <2> QED BY <2>1, <2>2 DEF WireInv
<1>5. BooksInv
  <2>1. Ordered
    <3> SUFFICES ASSUME NEW s \in Speaker, NEW i \in 1..Len(inbox[s])
                 PROVE  FALSE
      BY DEF Ordered
    <3>1. Len(inbox[s]) = 0
      BY <1>2, Nothing
    <3> QED BY <3>1
  <2>2. Unknown /\ Known
    BY <1>2 DEF Unknown, Known
  <2>3. \A s \in Speaker, c \in Conn : sessions[s] # c /\ ~Live(<<c, s>>)
    BY <1>2, NoConn DEF Live
  <2>4. Commanded
    <3> SUFFICES ASSUME NEW s \in Speaker, NEW c \in Conn
                 PROVE  /\ Pending(s, c, "established") => sessions[s] # c /\ cmds[<<c, s>>] = <<>>
                        /\ Has(cmds[<<c, s>>], "Shutdown") => sessions[s] # c
                        /\ Pending(s, c, "down") => ~Live(<<c, s>>)
      BY DEF Commanded
    <3> QED BY <1>2, <2>3
  <2>5. OneLost
    <3>1. \A s \in Speaker, c \in Conn : ~Lost(s, c)
      BY <1>3, <2>3 DEF Lost, Kinds
    <3> QED BY <3>1 DEF OneLost
  <2>6. Current
    BY <1>2 DEF Current
  <2> QED BY <2>1, <2>2, <2>4, <2>5, <2>6 DEF BooksInv
<1> QED BY <1>1, <1>4, <1>5 DEF IInv

LEMMA NextKeeps ==
    ASSUME IInv, [Next]_sessVars, Kept'
    PROVE  IInv'
<1>1. ASSUME NEW e \in Ends, Read(e) \/ HoldExpires(e) \/ KeepaliveExpires(e) \/ Command(e)
      PROVE  IInv'
  <2>1. TaskStep(e)
    BY <1>1, ReadSteps, TimersStep, CommandSteps
  <2> QED BY <2>1, TaskKeeps
<1>2. ASSUME NEW s \in Speaker, Dial(s) \/ Central(s) \/ Fanout(s) \/ Teardown(s) \/ BfdDown(s)
      PROVE  IInv'
  BY <1>2, DialKeeps, CentralKeeps, FanoutKeeps, TeardownKeeps, BfdDownKeeps
<1>3. ASSUME NEW c \in Conn, Reset(c)
      PROVE  IInv'
  BY <1>3, ResetKeeps
<1>4. CASE Cut \/ Heal \/ UNCHANGED sessVars
  BY <1>4, PathKeeps
<1> QED BY <1>1, <1>2, <1>3, <1>4 DEF Next

\* When nothing is on its way, a live task is Established at both ends and in use at
\* both, and at most one connection in use has lost its task.
LEMMA QuietAgrees ==
    ASSUME IInv
    PROVE  SameVerdict
<1> SUFFICES ASSUME Quiet, NEW s \in Speaker, sessions[s] # 0, sessions[Other(s)] # 0
             PROVE  sessions[s] = sessions[Other(s)] /\ fsm[<<sessions[s], s>>] = "Established"
  BY DEF SameVerdict
<1> DEFINE o == Other(s)
           c == sessions[s]
           d == sessions[o]
<1>1. o \in Speaker /\ o # s /\ Other(o) = s
  BY TwoSpeakers
<1>2. c \in Conn /\ d \in Conn
  BY <1>1 DEF IInv, SessionTypeOK
<1>3. /\ \A t \in Speaker : inbox[t] = <<>>
      /\ \A e \in Ends : cmds[e] = <<>> /\ wire[e] = <<>>
  BY DEF Quiet
<1>4. \A t \in Speaker, x \in Conn, k \in Kinds : ~Pending(t, x, k)
  BY <1>3, Nothing DEF Pending
<1>5. \A e \in Ends : Live(e) => fsm[e] = "Established" /\ Live(Peer(e)) /\ Peer(e) \in Ends
  <2> SUFFICES ASSUME NEW e \in Ends, Live(e)
               PROVE  fsm[e] = "Established" /\ Live(Peer(e)) /\ Peer(e) \in Ends
    OBVIOUS
  <2>1. Peer(e) \in Ends
    BY EndFacts
  <2>2. Live(Peer(e))
    <3>1. ~Has(wire[e], "FIN")
      BY <1>3, Nothing
    <3> QED BY <3>1 DEF IInv, WireInv, Closing
  <2>3. \A f \in Ends : fsm[f] # "OpenSent"
    BY <1>3 DEF IInv, WireInv, Handshake
  <2>4. fsm[e] # "OpenConfirm"
    BY <1>3, <2>1, <2>3 DEF IInv, WireInv, Handshake
  <2> QED BY <2>1, <2>2, <2>3, <2>4 DEF IInv, SessionTypeOK
<1>6. \A t \in Speaker, x \in Conn : Live(<<x, t>>) =>
         /\ fsm[<<x, t>>] = "Established" /\ sessions[t] = x
         /\ Live(<<x, Other(t)>>) /\ sessions[Other(t)] = x
  <2>1. ASSUME NEW t \in Speaker, NEW x \in Conn, Live(<<x, t>>)
        PROVE  fsm[<<x, t>>] = "Established" /\ sessions[t] = x /\ Live(<<x, Other(t)>>)
    <3>1. <<x, t>> \in Ends /\ Peer(<<x, t>>) = <<x, Other(t)>>
      BY EndFacts
    <3>2. fsm[<<x, t>>] = "Established" /\ Live(<<x, Other(t)>>)
      BY <1>5, <2>1, <3>1
    <3>3. ~Has(cmds[<<x, t>>], "Shutdown")
      BY <1>3, <3>1, Nothing
    <3>4. ~Pending(t, x, "established")
      BY <1>4 DEF Kinds
    <3> QED BY <3>2, <3>3, <3>4 DEF IInv, BooksInv, Known
  <2>2. \A t \in Speaker : Other(t) \in Speaker
    BY TwoSpeakers
  <2> QED BY <2>1, <2>2
<1>7. CASE Live(<<c, s>>)
  BY <1>2, <1>6, <1>7
<1>8. CASE ~Live(<<c, s>>)
  <2>1. Lost(s, c)
    BY <1>2, <1>4, <1>8 DEF Lost, Kinds
  <2>2. ~Lost(o, d)
    BY <1>1, <1>2, <2>1 DEF IInv, BooksInv, OneLost
  <2>3. Live(<<d, o>>)
    BY <1>1, <1>2, <1>4, <2>2 DEF Lost, Kinds
  <2>4. Live(<<d, s>>) /\ c = d
    BY <1>1, <1>2, <1>6, <2>3
  <2> QED BY <1>8, <2>4
<1> QED BY <1>7, <1>8

\* Whatever connections two speakers open, lose and reset, and in whatever order their
\* tasks run (drive_session, the central task's Established and Down arms, fanout, the
\* teardown arm), the books keep their types and, once everything sent has been read, two
\* speakers that each hold a session hold the same connection, Established at both
\* ends: for any number of connection slots, route changes and faults with at most one
\* failed write, as long as no session is evicted while its task lives.
THEOREM SessionsAgree == Spec /\ []Kept => []SessionInv
<1>1. Init => IInv
  BY InitHolds
<1>2. IInv /\ [Next]_sessVars /\ Kept' => IInv'
  BY NextKeeps
<1>3. IInv => SessionInv
  BY QuietAgrees DEF IInv, SessionInv
<1> QED BY <1>1, <1>2, <1>3, PTL DEF Spec
=============================================================================
