------------------------------ MODULE RipProof ------------------------------
(* For any routers, segments, prefixes and timers: the types of RIP's tables   *)
(* and datagrams, that the router task has exactly the routes of the table,    *)
(* and that an unreachable entry, and only one, waits for its collection.      *)
EXTENDS Rip, TLAPS

\* What UnreachableCollected says of one entry.
Good(e) == e \in RipRoute /\ (e.kind # "none" => (e.metric = INF <=> e.delete # Off))

\* What a table operation owes for an entry: a good entry, and an event that tells
\* the router task whatever it does not have yet.
Sound(e, res) ==
    /\ Good(res.entry)
    /\ \/ /\ res.event = "none"
          /\ \/ res.entry.kind = "redistributed"
             \/ e.kind # "redistributed" /\ Candidate(res.entry) = Candidate(e)
       \/ /\ res.event = "learned"
          /\ Candidate(res.entry) = [via |-> res.entry.next_hop, metric |-> res.entry.metric]
       \/ res.event = "lost" /\ Candidate(res.entry) = None

\* The inductive invariant; the three parts lean on each other only through the types.
RipInv == RipTypeOK /\ FeedMatches /\ UnreachableCollected

-----------------------------------------------------------------------------
(* The constants and the entries.                                          *)

LEMMA Constants ==
    /\ INF \in Nat /\ INF > 1 /\ REDIST \in Nat /\ TIMEOUT \in Nat /\ GARBAGE \in Nat
    /\ UPDATE \in Nat /\ UPDATE > 0 /\ WIRE \in Nat /\ WIRE > 0
BY RipAssumption

LEMMA AbsentGood == Good(Absent) /\ Candidate(Absent) = None
BY Constants DEF Good, Absent, RipRoute, Off, Stub, Candidate

LEMMA ConnectedGood == Good(AddConnected) /\ Candidate(AddConnected) = None
                       /\ AddConnected.kind # "redistributed"
<1>1. /\ Absent \in RipRoute /\ 1 \in 1 .. INF /\ TRUE \in BOOLEAN
      /\ "connected" \in {"none", "learned", "connected", "redistributed"}
    BY AbsentGood, Constants DEF Good
<1>2. AddConnected \in RipRoute
    BY <1>1 DEF AddConnected, RipRoute
<1>3. AddConnected.kind = "connected" /\ AddConnected.metric = 1
      /\ AddConnected.delete = Absent.delete
    BY <1>1 DEF AddConnected, RipRoute
<1>4. Absent.delete = Off
    BY DEF Absent
<1> QED
    BY <1>2, <1>3, <1>4, Constants DEF Good, Candidate

\* A route heard from n on segment s with a metric below infinity.
LEMMA LearnedGood ==
    ASSUME NEW n \in Router, NEW s \in Segment, NEW m \in 1 .. INF, m < INF
    PROVE  /\ Good(Learned(n, s, m)) /\ Learned(n, s, m).metric = m
           /\ Candidate(Learned(n, s, m)) = [via |-> n, metric |-> m]
           /\ Learned(n, s, m).next_hop = n
BY Constants DEF Good, Learned, RipRoute, Off, Candidate

LEMMA PoisonedGood ==
    ASSUME NEW e, Good(e)
    PROVE  /\ Good(Poisoned(e)) /\ Candidate(Poisoned(e)) = None
           /\ Poisoned(e).metric = INF /\ Poisoned(e).kind = e.kind
<1>1. Poisoned(e) \in RipRoute
  <2>1. /\ e \in RipRoute /\ INF \in 1 .. INF
        /\ GARBAGE \in Nat \cup {Off} /\ TRUE \in BOOLEAN
    BY Constants DEF Good
  <2> QED
    BY <2>1 DEF Poisoned, RipRoute
<1>2. Poisoned(e).metric = INF /\ Poisoned(e).delete = GARBAGE /\ Poisoned(e).kind = e.kind
  <2>1. e \in RipRoute
    BY DEF Good
  <2> QED
    BY <2>1 DEF Poisoned, RipRoute
<1> QED
    BY <1>1, <1>2, Constants DEF Good, Off, Candidate

\* An entry that the arm leaves alone.
LEMMA SilentSound ==
    ASSUME NEW e, Good(e)
    PROVE  Sound(e, Silent(e))
BY DEF Sound, Silent

\* Whatever process_route decides about a metric from a neighbour.
LEMMA ProcessRouteSound ==
    ASSUME NEW e, Good(e), NEW n \in Router, NEW s \in Segment, NEW received \in 1 .. INF
    PROVE  Sound(e, ProcessRoute(e, n, s, received))
<1> DEFINE m == Lesser(received + 1, INF)
           same == e.next_hop = n /\ e.ifindex = s
           fresh == IF m < INF THEN [e EXCEPT !.expire = TIMEOUT, !.delete = Off] ELSE e
           changed == [fresh EXCEPT !.metric = m, !.changed = TRUE,
                                    !.delete = IF m >= INF THEN GARBAGE ELSE Off]
<1>1. m \in 1 .. INF
    BY Constants DEF Lesser
<1>2. e.metric \in 1 .. INF /\ e.kind \in {"none", "learned", "connected", "redistributed"}
    BY DEF Good, RipRoute
<1>3. ASSUME m < INF PROVE Sound(e, Tells(Learned(n, s, m)))
    BY <1>1, <1>3, LearnedGood DEF Sound, Tells
<1>4. ASSUME e.kind = "learned", m = e.metric PROVE Sound(e, Silent(fresh))
  <2>1. fresh \in RipRoute
    BY <1>1, Constants DEF Good, RipRoute
  <2>2. /\ fresh.kind = "learned" /\ fresh.metric = e.metric /\ fresh.next_hop = e.next_hop
        /\ fresh.delete = IF m < INF THEN Off ELSE e.delete
    BY <1>4 DEF Good, RipRoute
  <2> HIDE DEF fresh
  <2>3. Good(fresh) /\ Candidate(fresh) = Candidate(e)
    BY <1>1, <1>2, <1>4, <2>1, <2>2, Constants DEF Good, Candidate, Off
  <2> QED
    BY <1>4, <2>3 DEF Sound, Silent
<1>5. ASSUME e.kind = "learned" PROVE Sound(e, Tells(changed))
  <2>1. fresh \in RipRoute /\ fresh.kind = "learned"
    BY <1>1, <1>5, Constants DEF Good, RipRoute
  <2>2. /\ changed \in RipRoute /\ changed.kind = "learned" /\ changed.metric = m
        /\ changed.delete = IF m >= INF THEN GARBAGE ELSE Off
    BY <1>1, <2>1, Constants DEF RipRoute
  <2> HIDE DEF changed, fresh
  <2>3. Good(changed)
    BY <1>1, <2>2, Constants DEF Good, Off
  <2> QED
    BY <1>1, <2>2, <2>3, Constants DEF Sound, Tells, Candidate
<1>6. Sound(e, Silent(e))
    BY SilentSound
<1> QED
    BY <1>1, <1>2, <1>3, <1>4, <1>5, <1>6, Constants DEF ProcessRoute, Ours

\* The second's pass over an entry.
LEMMA AgeSound ==
    ASSUME NEW e, Good(e)
    PROVE  Sound(e, Age(e))
<1>1. Sound(e, Silent(e))
    BY SilentSound
<1>2. Sound(e, Tells(Absent))
    BY AbsentGood, Constants DEF Sound, Tells, Absent
<1>3. Sound(e, Tells(Poisoned(e)))
    BY PoisonedGood, Constants DEF Sound, Tells
<1>4. e.kind \in {"none", "learned", "connected", "redistributed"}
    BY DEF Good, RipRoute
<1> QED
    BY <1>1, <1>2, <1>3, <1>4 DEF Age

\* BFD has failed a gateway.
LEMMA ExpireViaSound ==
    ASSUME NEW e, Good(e), NEW n
    PROVE  Sound(e, ExpireVia(e, n))
<1>1. Sound(e, Silent(e))
    BY SilentSound
<1>2. Sound(e, Tells(Poisoned(e)))
    BY PoisonedGood, Constants DEF Sound, Tells
<1> QED
    BY <1>1, <1>2 DEF ExpireVia

\* Redistribution, in both directions, ends in an entry of its own or leaves it alone.
LEMMA RedistributedSound ==
    ASSUME NEW e, Good(e)
    PROVE  /\ Sound(e, Silent(AddRedistributed(e)))
           /\ Sound(e, Silent(WithdrawRedistributed(e)))
<1>1. Sound(e, Silent(e))
    BY SilentSound
<1>2. ASSUME e.kind # "connected"
      PROVE  /\ Good(AddRedistributed(e)) /\ AddRedistributed(e).kind = "redistributed"
  <2> DEFINE m == IF REDIST < 1 THEN 1 ELSE Lesser(REDIST, INF - 1)
  <2>1. AddRedistributed(e) =
            [kind |-> "redistributed", metric |-> m, next_hop |-> "none", ifindex |-> Stub,
             expire |-> Off, delete |-> Off, changed |-> TRUE]
    BY <1>2 DEF AddRedistributed, Absent
  <2>2. m \in 1 .. INF /\ m < INF
    BY Constants DEF Lesser
  <2> HIDE DEF m
  <2> QED
    BY <2>1, <2>2, Constants DEF Good, RipRoute, Off, Stub
<1>3. ASSUME e.kind = "redistributed"
      PROVE  Good(Poisoned(e)) /\ Poisoned(e).kind = "redistributed"
    BY <1>3, PoisonedGood
<1>4. Sound(e, Silent(AddRedistributed(e)))
    BY <1>1, <1>2 DEF Sound, Silent, AddRedistributed
<1>5. Sound(e, Silent(WithdrawRedistributed(e)))
    BY <1>1, <1>3 DEF Sound, Silent, WithdrawRedistributed
<1> QED
    BY <1>4, <1>5

\* An update that has been sent clears only the changed flag.
LEMMA ClearGood ==
    ASSUME NEW e, Good(e)
    PROVE  LET c == [e EXCEPT !.changed = FALSE]
           IN Good(c) /\ c.kind = e.kind /\ Candidate(c) = Candidate(e)
<1> DEFINE c == [e EXCEPT !.changed = FALSE]
<1>1. e \in RipRoute /\ FALSE \in BOOLEAN
    BY DEF Good
<1>2. c \in RipRoute
    BY <1>1 DEF RipRoute
<1>3. /\ c.kind = e.kind /\ c.metric = e.metric /\ c.delete = e.delete
      /\ c.next_hop = e.next_hop
    BY <1>1 DEF RipRoute
<1> HIDE DEF c
<1> QED
    BY <1>2, <1>3 DEF Good, Candidate, c

\* A second that passes changes only the deadlines, and Off stays Off.
LEMMA ElapsedGood ==
    ASSUME NEW e, Good(e)
    PROVE  Good(Elapsed(e)) /\ Elapsed(e).kind = e.kind /\ Candidate(Elapsed(e)) = Candidate(e)
<1>1. e \in RipRoute
    BY DEF Good
<1>2. e.expire \in Nat \cup {Off} /\ e.delete \in Nat \cup {Off}
    BY <1>1 DEF RipRoute
<1>3. /\ Less(e.expire) \in Nat \cup {Off} /\ Less(e.delete) \in Nat \cup {Off}
      /\ (Less(e.delete) = Off <=> e.delete = Off)
    BY <1>2 DEF Less, Off
<1>4. Elapsed(e) \in RipRoute
    BY <1>1, <1>3 DEF Elapsed, RipRoute
<1>5. /\ Elapsed(e).kind = e.kind /\ Elapsed(e).metric = e.metric
      /\ Elapsed(e).next_hop = e.next_hop /\ Elapsed(e).delete = Less(e.delete)
    BY <1>1 DEF Elapsed, RipRoute
<1> QED
    BY <1>3, <1>4, <1>5 DEF Good, Candidate

-----------------------------------------------------------------------------
(* The datagrams.                                                          *)

Entries == UNION {[S -> 1 .. INF] : S \in SUBSET Net}

\* What the wire may carry.
WireOK(w) ==
    /\ w \in [Router -> [Router -> Seq(Datagram)]]
    /\ \A r, n \in Router : Len(w[n][r]) <= WIRE

LEMMA ResponseTyped ==
    ASSUME NEW s \in Segment, NEW S \in SUBSET Net, NEW f \in [S -> 1 .. INF]
    PROVE  Response(s, f) \in Datagram
BY DEF Response, Datagram

LEMMA RequestTyped ==
    ASSUME NEW s \in Segment
    PROVE  Request(s) \in Datagram
<1>1. [p \in {} |-> INF] \in [{} -> 1 .. INF] /\ {} \in SUBSET Net
    OBVIOUS
<1> QED
    BY <1>1 DEF Request, Datagram

\* Every update is made of the table's metrics and infinity.
LEMMA UpdatesTyped ==
    ASSUME NEW t \in [Net -> RipRoute], NEW s \in Segment
    PROVE  /\ Response(s, Adverts(t, s)) \in Datagram
           /\ Response(s, Triggered(t, s)) \in Datagram
           /\ Response(s, Poison(t)) \in Datagram
<1>1. \A p \in Net : AdvertFor(t[p], s) \in 1 .. INF
    BY Constants DEF AdvertFor, RipRoute
<1>2. Present(t) \in SUBSET Net /\ {q \in Present(t) : t[q].changed} \in SUBSET Net
    BY DEF Present
<1>3. Adverts(t, s) \in [Present(t) -> 1 .. INF]
    BY <1>1, <1>2 DEF Adverts
<1>4. Triggered(t, s) \in [{q \in Present(t) : t[q].changed} -> 1 .. INF]
    BY <1>1, <1>2 DEF Triggered
<1>5. Poison(t) \in [Present(t) -> 1 .. INF]
    BY Constants DEF Poison
<1> QED
    BY <1>2, <1>3, <1>4, <1>5, ResponseTyped

\* A multicast adds at most one datagram to a link that has room for it.
LEMMA MulticastTyped ==
    ASSUME NEW w, WireOK(w), NEW r \in Router, NEW out,
           \A s \in Attached(r) : out[s] \in Datagram
    PROVE  WireOK(Multicast(w, r, out))
<1> DEFINE shared(n) == {s \in Attached(r) \cap links : n \in s /\ n # r}
           pick(n) == CHOOSE x \in shared(n) : TRUE
           put(n) == IF shared(n) = {} \/ ~up[n] \/ Len(w[r][n]) >= WIRE THEN w[r][n]
                     ELSE IF out[pick(n)].command = "response" /\ DOMAIN out[pick(n)].entries = {}
                          THEN w[r][n]
                     ELSE Append(w[r][n], out[pick(n)])
<1>1. Multicast(w, r, out) = [w EXCEPT ![r] = [n \in Router |-> put(n)]]
    BY DEF Multicast
<1>2. ASSUME NEW n \in Router PROVE put(n) \in Seq(Datagram) /\ Len(put(n)) <= WIRE
  <2>1. w[r][n] \in Seq(Datagram) /\ Len(w[r][n]) <= WIRE /\ Len(w[r][n]) \in Nat
    BY DEF WireOK
  <2>2. shared(n) # {} => out[pick(n)] \in Datagram
    OBVIOUS
  <2> HIDE DEF pick, shared
  <2>3. ASSUME NEW d \in Datagram, Len(w[r][n]) < WIRE
        PROVE  Append(w[r][n], d) \in Seq(Datagram) /\ Len(Append(w[r][n], d)) <= WIRE
    BY <2>1, <2>3, Constants
  <2> QED
    BY <2>1, <2>2, <2>3, Constants
<1> HIDE DEF put
<1>3. [n \in Router |-> put(n)] \in [Router -> Seq(Datagram)]
    BY <1>2
<1> QED
    BY <1>1, <1>2, <1>3 DEF WireOK


-----------------------------------------------------------------------------
(* The arms.                                                               *)

Told == [via : Router \cup {"none"}, metric : 0 .. INF]

\* In a sound state every entry is good, and what is told of it is known.
LEMMA EntryFacts ==
    ASSUME RipInv, NEW r \in Router, NEW p \in Net
    PROVE  Good(table[r][p]) /\ table[r][p] \in RipRoute /\ told[r][p] \in Told
BY DEF RipInv, RipTypeOK, UnreachableCollected, Good, Present, Told

\* A good entry, or the absence of one, is a route the router task can be told of.
LEMMA CandidateTyped ==
    ASSUME NEW e, Good(e)
    PROVE  Candidate(e) \in Told
BY Constants DEF Good, RipRoute, Candidate, None, Told

\* One router's entries and candidates are replaced by the results of an operation.
LEMMA StepInv ==
    ASSUME RipInv, NEW r \in Router, NEW res, \A p \in Net : Sound(table[r][p], res[p]),
           table' = [table EXCEPT ![r] = ClearChanged([p \in Net |-> res[p].entry])],
           ForwardAll(r, res), WireOK(wire'), UNCHANGED <<up, links>>,
           next' \in [Router -> 0 .. UPDATE], due' \in [Router -> BOOLEAN],
           other' \in [Router -> SUBSET Net]
    PROVE  RipInv'
<1> DEFINE t == ClearChanged([p \in Net |-> res[p].entry])
           u == [p \in Net |-> ForwardEvent(res[p].entry, res[p].event, told[r][p])]
<1>1. ASSUME NEW p \in Net
      PROVE  /\ Good(t[p]) /\ t[p].kind = res[p].entry.kind
             /\ Candidate(t[p]) = Candidate(res[p].entry)
  <2>1. t[p] = [res[p].entry EXCEPT !.changed = FALSE] /\ Good(res[p].entry)
    BY DEF ClearChanged, Sound
  <2> QED
    BY <2>1, ClearGood
<1>2. ASSUME NEW p \in Net
      PROVE  /\ u[p] \in Told
             /\ res[p].event # "none" => u[p] = Candidate(res[p].entry)
             /\ res[p].event = "none" => u[p] = told[r][p]
             /\ res[p].event = "none" =>
                   \/ res[p].entry.kind = "redistributed"
                   \/ /\ table[r][p].kind # "redistributed"
                      /\ Candidate(res[p].entry) = Candidate(table[r][p])
  <2>1. told[r][p] \in Told /\ Candidate(res[p].entry) \in Told
    BY EntryFacts, CandidateTyped DEF Sound
  <2>2. Sound(table[r][p], res[p])
    OBVIOUS
  <2> QED
    BY <2>1, <2>2 DEF Sound, ForwardEvent
<1>3. t \in [Net -> RipRoute] /\ u \in [Net -> Told]
  <2>1. DOMAIN t = Net /\ t = [p \in Net |-> t[p]]
    BY DEF ClearChanged
  <2>2. \A p \in Net : t[p] \in RipRoute
    BY <1>1 DEF Good
  <2> HIDE DEF t
  <2>3. t \in [Net -> RipRoute]
    BY <2>1, <2>2
  <2> QED
    BY <1>2, <2>3
<1>4. /\ table' = [table EXCEPT ![r] = t] /\ told' = [told EXCEPT ![r] = u]
      /\ inherited' = [inherited EXCEPT ![r] = {p \in inherited[r] : res[p].event = "none"}]
  <2>1. told \in [Router -> [Net -> Told]] /\ inherited \in [Router -> SUBSET Net]
    BY DEF RipInv, RipTypeOK, Told
  <2> QED
    BY <2>1 DEF ForwardAll
<1> HIDE DEF t, u
<1>5. RipTypeOK'
  <2>1. /\ table \in [Router -> [Net -> RipRoute]] /\ told \in [Router -> [Net -> Told]]
        /\ inherited \in [Router -> SUBSET Net] /\ up \in [Router -> BOOLEAN] /\ links \subseteq Segment
    BY DEF RipInv, RipTypeOK, Told
  <2>2. table' \in [Router -> [Net -> RipRoute]] /\ told' \in [Router -> [Net -> Told]]
    BY <1>3, <1>4, <2>1
  <2>3. inherited' \in [Router -> SUBSET Net]
    BY <1>4, <2>1
  <2> QED
    BY <2>1, <2>2, <2>3 DEF RipTypeOK, WireOK, Told
<1>6. ASSUME NEW q \in Router, NEW p \in Net
      PROVE  /\ q = r => table'[q][p] = t[p] /\ told'[q][p] = u[p]
             /\ q # r => table'[q][p] = table[q][p] /\ told'[q][p] = told[q][p]
             /\ q # r => inherited'[q] = inherited[q]
             /\ q = r => (p \notin inherited'[q] => p \notin inherited[q] \/ res[p].event # "none")
  <2>1. /\ table \in [Router -> [Net -> RipRoute]] /\ told \in [Router -> [Net -> Told]]
        /\ inherited \in [Router -> SUBSET Net]
    BY DEF RipInv, RipTypeOK, Told
  <2> QED
    BY <1>4, <2>1
<1>7. FeedMatches'
  <2> SUFFICES ASSUME NEW q \in Router, NEW p \in Net, p \notin inherited'[q],
                      up[q], table'[q][p].kind # "redistributed"
               PROVE  told'[q][p] = Candidate(table'[q][p])
    BY DEF FeedMatches, Candidate, None
  <2>0. p \notin inherited[q] /\ table[q][p].kind # "redistributed" =>
            told[q][p] = Candidate(table[q][p])
    BY DEF RipInv, FeedMatches
  <2>1. CASE q # r
    BY <1>6, <2>0, <2>1
  <2>2. CASE q = r
    <3>1. told'[q][p] = u[p] /\ Candidate(table'[q][p]) = Candidate(res[p].entry)
          /\ res[p].entry.kind # "redistributed"
      <4>1. table'[q][p] = t[p] /\ told'[q][p] = u[p]
        BY <1>6, <2>2
      <4>2. t[p].kind = res[p].entry.kind /\ Candidate(t[p]) = Candidate(res[p].entry)
        BY <1>1
      <4> QED
        BY <4>1, <4>2
    <3>2. CASE res[p].event # "none"
        BY <1>2, <3>1, <3>2
    <3>3. CASE res[p].event = "none"
      <4>1. p \notin inherited[q]
        BY <1>6, <2>2, <3>3
      <4> QED
        BY <1>2, <2>0, <2>2, <3>1, <3>3, <4>1
    <3> QED
        BY <3>2, <3>3
  <2> QED
    BY <2>1, <2>2
<1>8. UnreachableCollected'
  <2> SUFFICES ASSUME NEW q \in Router, NEW p \in Net, table'[q][p].kind # "none"
               PROVE  table'[q][p].metric = INF <=> table'[q][p].delete # Off
    BY DEF UnreachableCollected, Present, Off
  <2>1. Good(table'[q][p])
    BY <1>1, <1>6, EntryFacts
  <2> QED
    BY <2>1 DEF Good
<1> QED
    BY <1>5, <1>7, <1>8 DEF RipInv


\* An arm that ends with a triggered update.
LEMMA ArmInv ==
    ASSUME RipInv, NEW r \in Router, NEW res, \A p \in Net : Sound(table[r][p], res[p]),
           NEW w, WireOK(w), Arm(r, res, w), UNCHANGED <<up, links>>,
           next' \in [Router -> 0 .. UPDATE], due' \in [Router -> BOOLEAN],
           other' \in [Router -> SUBSET Net]
    PROVE  RipInv'
<1> DEFINE t == [p \in Net |-> res[p].entry]
<1>1. t \in [Net -> RipRoute]
    BY DEF Sound, Good
<1>2. wire' = FlushTriggered(w, r, t)
    BY DEF Arm
<1> HIDE DEF t
<1>3. WireOK(wire')
    BY <1>1, <1>2, UpdatesTyped, MulticastTyped DEF FlushTriggered, Attached
<1> QED
    BY <1>3, StepInv DEF Arm

\* What the arms leave alone keeps its type.
LEMMA RestTyped ==
    ASSUME RipInv
    PROVE  /\ next \in [Router -> 0 .. UPDATE] /\ due \in [Router -> BOOLEAN]
           /\ other \in [Router -> SUBSET Net] /\ WireOK(wire)
BY DEF RipInv, RipTypeOK, WireOK

\* A datagram that has been read is gone.
LEMMA ReadTyped ==
    ASSUME NEW w, WireOK(w), NEW n \in Router, NEW r \in Router, w[n][r] # <<>>
    PROVE  /\ WireOK([w EXCEPT ![n][r] = Tail(@)])
           /\ Head(w[n][r]) \in Datagram
<1>1. w[n][r] \in Seq(Datagram) /\ Len(w[n][r]) <= WIRE
    BY DEF WireOK
<1>2. /\ Head(w[n][r]) \in Datagram /\ Tail(w[n][r]) \in Seq(Datagram)
      /\ Len(Tail(w[n][r])) <= WIRE
    BY <1>1, Constants
<1> QED
    BY <1>2 DEF WireOK

LEMMA PacketInv ==
    ASSUME RipInv, NEW r \in Router, NEW n \in Router, Packet(r, n)
    PROVE  RipInv'
<1> DEFINE msg == Head(wire[n][r])
           rest == [wire EXCEPT ![n][r] = Tail(@)]
<1>1. msg \in Datagram /\ WireOK(rest)
    BY RestTyped, ReadTyped DEF Packet
<1>2. /\ next' \in [Router -> 0 .. UPDATE] /\ due' \in [Router -> BOOLEAN]
      /\ other' \in [Router -> SUBSET Net] /\ UNCHANGED <<up, links>>
    BY RestTyped DEF Packet
<1>3. CASE HandleRequest(r, n, msg.seg)
  <2> DEFINE answer == Response(msg.seg, Adverts(table[r], msg.seg))
             sent == IF Present(table[r]) # {} /\ msg.seg \in links /\ Len(rest[r][n]) < WIRE
                     THEN [rest EXCEPT ![r][n] = Append(@, answer)] ELSE rest
  <2>1. Arm(r, Same(r), sent)
    BY <1>3 DEF HandleRequest
  <2>2. answer \in Datagram
    BY <1>1, UpdatesTyped DEF Datagram, RipInv, RipTypeOK
  <2> HIDE DEF answer, msg
  <2>3. WireOK(sent)
    <3> HIDE DEF rest
    <3>1. rest[r][n] \in Seq(Datagram) /\ Len(rest[r][n]) \in Nat
        BY <1>1 DEF WireOK
    <3>2. ASSUME Len(rest[r][n]) < WIRE
          PROVE  /\ Append(rest[r][n], answer) \in Seq(Datagram)
                 /\ Len(Append(rest[r][n], answer)) <= WIRE
        BY <2>2, <3>1, <3>2, Constants
    <3> QED
        BY <1>1, <3>2 DEF WireOK
  <2>4. \A p \in Net : Sound(table[r][p], Same(r)[p])
    BY EntryFacts, SilentSound DEF Same
  <2> HIDE DEF sent
  <2> QED
    BY <1>2, <2>1, <2>3, <2>4, ArmInv
<1>4. CASE HandleResponse(r, n, msg)
  <2> DEFINE res == [p \in Net |-> IF p \in DOMAIN msg.entries
                                   THEN ProcessRoute(table[r][p], n, msg.seg, msg.entries[p])
                                   ELSE Silent(table[r][p])]
  <2>1. Arm(r, res, rest)
    BY <1>4 DEF HandleResponse
  <2>2. ASSUME NEW p \in Net PROVE Sound(table[r][p], res[p])
    <3>1. Good(table[r][p])
        BY EntryFacts
    <3>2. msg.seg \in Segment /\ \A x \in DOMAIN msg.entries : msg.entries[x] \in 1 .. INF
        BY <1>1 DEF Datagram
    <3> HIDE DEF msg
    <3> QED
        BY <3>1, <3>2, ProcessRouteSound, SilentSound
  <2> HIDE DEF res, rest, msg
  <2> QED
    BY <1>1, <1>2, <2>1, <2>2, ArmInv
<1> QED
    BY <1>3, <1>4 DEF Packet

LEMMA PeriodicInv ==
    ASSUME RipInv, NEW r \in Router, Periodic(r)
    PROVE  RipInv'
<1> DEFINE res == [p \in Net |-> Age(table[r][p])]
           t == [p \in Net |-> res[p].entry]
<1>1. \A p \in Net : Sound(table[r][p], res[p])
    BY EntryFacts, AgeSound
<1>2. /\ table' = [table EXCEPT ![r] = ClearChanged(t)]
      /\ wire' = SendFullUpdate(wire, r, t, FALSE)
      /\ ForwardAll(r, res) /\ UNCHANGED <<up, links>>
    BY DEF Periodic
<1>3. /\ next' \in [Router -> 0 .. UPDATE] /\ due' \in [Router -> BOOLEAN]
      /\ other' \in [Router -> SUBSET Net]
    BY RestTyped, Constants DEF Periodic
<1> HIDE DEF res
<1>4. t \in [Net -> RipRoute]
    BY <1>1 DEF Sound, Good
<1>5. WireOK(wire')
  <2> HIDE DEF t
  <2> QED
    BY <1>2, <1>4, RestTyped, UpdatesTyped, MulticastTyped DEF SendFullUpdate, Attached
<1> QED
    BY <1>1, <1>2, <1>3, <1>5, StepInv

LEMMA HousekeepingInv ==
    ASSUME RipInv, NEW r \in Router, Housekeeping(r)
    PROVE  RipInv'
<1> DEFINE res == [p \in Net |-> Age(table[r][p])]
<1>1. \A p \in Net : Sound(table[r][p], res[p])
    BY EntryFacts, AgeSound
<1>2. Arm(r, res, wire) /\ UNCHANGED <<up, links>>
    BY DEF Housekeeping
<1>3. /\ next' \in [Router -> 0 .. UPDATE] /\ due' \in [Router -> BOOLEAN]
      /\ other' \in [Router -> SUBSET Net]
    BY RestTyped DEF Housekeeping
<1> HIDE DEF res
<1> QED
    BY <1>1, <1>2, <1>3, RestTyped, ArmInv

LEMMA BfdDownInv ==
    ASSUME RipInv, NEW r \in Router, NEW n \in Router, BfdDown(r, n)
    PROVE  RipInv'
<1> DEFINE res == [p \in Net |-> ExpireVia(table[r][p], n)]
<1>1. \A p \in Net : Sound(table[r][p], res[p])
    BY EntryFacts, ExpireViaSound
<1>2. Arm(r, res, wire) /\ UNCHANGED <<up, links>>
    BY DEF BfdDown
<1>3. /\ next' \in [Router -> 0 .. UPDATE] /\ due' \in [Router -> BOOLEAN]
      /\ other' \in [Router -> SUBSET Net]
    BY RestTyped DEF BfdDown
<1> HIDE DEF res
<1> QED
    BY <1>1, <1>2, <1>3, RestTyped, ArmInv

\* Redistribution tells the router task nothing: it is silent about every entry.
LEMMA RedistributeInv ==
    ASSUME RipInv, NEW r \in Router, NEW q \in Net, Redistribute(r, q)
    PROVE  RipInv'
<1> DEFINE e == IF q \notin other[r] THEN AddRedistributed(table[r][q])
                ELSE WithdrawRedistributed(table[r][q])
           t == [table[r] EXCEPT ![q] = e]
           res == [p \in Net |-> Silent(t[p])]
<1>1. \A p \in Net : Sound(table[r][p], res[p])
  <2>1. table[r] \in [Net -> RipRoute]
    BY DEF RipInv, RipTypeOK
  <2>2. Sound(table[r][q], Silent(e))
    BY EntryFacts, RedistributedSound
  <2> HIDE DEF e
  <2>3. \A p \in Net : t[p] = IF p = q THEN e ELSE table[r][p]
    BY <2>1
  <2>4. \A p \in Net : Sound(table[r][p], Silent(table[r][p]))
    BY EntryFacts, SilentSound
  <2> HIDE DEF t
  <2> QED
    BY <2>2, <2>3, <2>4
<1>2. /\ table' = [table EXCEPT ![r] = ClearChanged(t)]
      /\ wire' = FlushTriggered(wire, r, t) /\ UNCHANGED <<up, links, told, inherited>>
      /\ UNCHANGED <<next, due>>
    BY DEF Redistribute
<1>3. other' \in [Router -> SUBSET Net]
    BY RestTyped DEF Redistribute
<1> HIDE DEF e
<1>4. t \in [Net -> RipRoute] /\ t = [p \in Net |-> res[p].entry]
  <2>1. table[r] \in [Net -> RipRoute]
    BY DEF RipInv, RipTypeOK
  <2>2. \A p \in Net : res[p].entry = t[p] /\ res[p].event = "none"
    BY DEF Silent
  <2>3. \A p \in Net : t[p] \in RipRoute
    BY <1>1, <2>2 DEF Sound, Good
  <2>4. DOMAIN t = Net /\ t = [p \in Net |-> t[p]]
    BY <2>1
  <2> HIDE DEF t, res
  <2> QED
    BY <2>2, <2>3, <2>4
<1>5. WireOK(wire')
  <2> HIDE DEF t, res
  <2> QED
    BY <1>2, <1>4, RestTyped, UpdatesTyped, MulticastTyped DEF FlushTriggered, Attached
<1>6. ForwardAll(r, res)
  <2>1. /\ told \in [Router -> [Net -> Told]] /\ inherited \in [Router -> SUBSET Net]
    BY DEF RipInv, RipTypeOK, Told
  <2>2. \A p \in Net : res[p].event = "none"
    BY DEF Silent
  <2> HIDE DEF res, t
  <2>3. [p \in Net |-> ForwardEvent(res[p].entry, res[p].event, told[r][p])] = told[r]
    BY <2>1, <2>2 DEF ForwardEvent
  <2>4. {p \in inherited[r] : res[p].event = "none"} = inherited[r]
    BY <2>1, <2>2
  <2> QED
    BY <1>2, <2>1, <2>3, <2>4 DEF ForwardAll
<1>7. table' = [table EXCEPT ![r] = ClearChanged([p \in Net |-> res[p].entry])]
    BY <1>2, <1>4
<1> HIDE DEF res, t
<1> QED
    BY <1>1, <1>2, <1>3, <1>5, <1>6, <1>7, RestTyped, StepInv


\* The entries of an engine that starts are good and none is a candidate.
LEMMA StartTableGood ==
    ASSUME NEW r \in Router
    PROVE  /\ StartTable(r) \in [Net -> RipRoute]
           /\ \A p \in Net : /\ Good(StartTable(r)[p]) /\ Candidate(StartTable(r)[p]) = None
                             /\ StartTable(r)[p].kind # "redistributed"
<1>1. Absent.kind = "none"
    BY DEF Absent
<1> QED
    BY <1>1, AbsentGood, ConnectedGood DEF StartTable, Good

LEMMA StartInv ==
    ASSUME RipInv, NEW r \in Router, Start(r)
    PROVE  RipInv'
<1> DEFINE out == [s \in Attached(r) |-> Request(s)]
           left == {p \in Net : told[r][p] # None}
<1>1. /\ table' = [table EXCEPT ![r] = StartTable(r)] /\ wire' = Multicast(wire, r, out)
      /\ inherited' = [inherited EXCEPT ![r] = left] /\ UNCHANGED <<told, links>>
      /\ up' = [up EXCEPT ![r] = TRUE] /\ next' = [next EXCEPT ![r] = UPDATE]
      /\ due' = [due EXCEPT ![r] = FALSE] /\ other' = [other EXCEPT ![r] = {}]
    BY DEF Start
<1>2. WireOK(wire')
    BY <1>1, RestTyped, RequestTyped, MulticastTyped DEF Attached
<1> HIDE DEF out
<1>3. RipTypeOK'
  <2>1. table' \in [Router -> [Net -> RipRoute]]
    BY <1>1, StartTableGood DEF RipInv, RipTypeOK
  <2>2. /\ up' \in [Router -> BOOLEAN] /\ due' \in [Router -> BOOLEAN] /\ links' \subseteq Segment
        /\ next' \in [Router -> 0 .. UPDATE]
    BY <1>1, Constants DEF RipInv, RipTypeOK
  <2>3. /\ other' \in [Router -> SUBSET Net] /\ inherited' \in [Router -> SUBSET Net]
        /\ told' = told
    BY <1>1 DEF RipInv, RipTypeOK
  <2> QED
    BY <1>2, <2>1, <2>2, <2>3 DEF RipInv, RipTypeOK, WireOK
<1>4. ASSUME NEW q \in Router
      PROVE  /\ q = r => table'[q] = StartTable(r) /\ inherited'[q] = left
             /\ q # r => table'[q] = table[q] /\ inherited'[q] = inherited[q] /\ up'[q] = up[q]
    BY <1>1 DEF RipInv, RipTypeOK
<1>5. FeedMatches'
  <2> SUFFICES ASSUME NEW q \in Router, NEW p \in Net, p \notin inherited'[q],
                      up'[q], table'[q][p].kind # "redistributed"
               PROVE  told[q][p] = Candidate(table'[q][p])
    BY <1>1 DEF FeedMatches, Candidate, None
  <2>1. p \notin inherited[q] /\ up[q] /\ table[q][p].kind # "redistributed" =>
            told[q][p] = Candidate(table[q][p])
    BY DEF RipInv, FeedMatches
  <2>2. CASE q # r
    BY <1>4, <2>1, <2>2
  <2>3. CASE q = r
    BY <1>4, <2>3, StartTableGood
  <2> QED
    BY <2>2, <2>3
<1>6. UnreachableCollected'
  <2> SUFFICES ASSUME NEW q \in Router, NEW p \in Net, table'[q][p].kind # "none"
               PROVE  table'[q][p].metric = INF <=> table'[q][p].delete # Off
    BY DEF UnreachableCollected, Present, Off
  <2>1. Good(table'[q][p])
    BY <1>4, StartTableGood, EntryFacts
  <2> QED
    BY <2>1 DEF Good
<1> QED
    BY <1>3, <1>5, <1>6 DEF RipInv

LEMMA ShutdownInv ==
    ASSUME RipInv, NEW r \in Router, Shutdown(r)
    PROVE  RipInv'
<1> DEFINE none == [p \in Net |-> Absent]
           rest == [n \in Router |-> [wire[n] EXCEPT ![r] = <<>>]]
<1>1. /\ table' = [table EXCEPT ![r] = none] /\ wire' = SendFullUpdate(rest, r, table[r], TRUE)
      /\ UNCHANGED <<told, links, inherited, next>>
      /\ up' = [up EXCEPT ![r] = FALSE]
      /\ due' = [due EXCEPT ![r] = FALSE] /\ other' = [other EXCEPT ![r] = {}]
    BY DEF Shutdown
<1>2. none \in [Net -> RipRoute] /\ \A p \in Net : Good(none[p])
    BY AbsentGood DEF Good
<1>3. WireOK(wire')
  <2>1. WireOK(rest)
    <3>1. <<>> \in Seq(Datagram) /\ Len(<<>>) <= WIRE
        BY Constants
    <3>2. WireOK(wire)
        BY RestTyped
    <3>3. \A n \in Router : wire[n] \in [Router -> Seq(Datagram)]
        BY <3>2 DEF WireOK
    <3>4. \A n \in Router : rest[n] = [wire[n] EXCEPT ![r] = <<>>]
        OBVIOUS
    <3>5. \A n, m \in Router : rest[n][m] = IF m = r THEN <<>> ELSE wire[n][m]
        BY <3>3, <3>4
    <3>6. rest \in [Router -> [Router -> Seq(Datagram)]]
        BY <3>1, <3>3
    <3> HIDE DEF rest
    <3> QED
        BY <3>1, <3>2, <3>5, <3>6 DEF WireOK
  <2>2. table[r] \in [Net -> RipRoute]
    BY DEF RipInv, RipTypeOK
  <2> HIDE DEF rest
  <2> QED
    BY <1>1, <2>1, <2>2, UpdatesTyped, MulticastTyped DEF SendFullUpdate, Attached
<1> HIDE DEF none, rest
<1>4. RipTypeOK'
  <2>1. table' \in [Router -> [Net -> RipRoute]]
    BY <1>1, <1>2 DEF RipInv, RipTypeOK
  <2>2. /\ up' \in [Router -> BOOLEAN] /\ due' \in [Router -> BOOLEAN] /\ links' \subseteq Segment
        /\ other' \in [Router -> SUBSET Net]
    BY <1>1 DEF RipInv, RipTypeOK
  <2> QED
    BY <1>1, <1>3, <2>1, <2>2 DEF RipInv, RipTypeOK, WireOK
<1>5. ASSUME NEW q \in Router
      PROVE  /\ q = r => table'[q] = none /\ ~up'[q]
             /\ q # r => table'[q] = table[q] /\ up'[q] = up[q]
    BY <1>1 DEF RipInv, RipTypeOK
<1>6. FeedMatches'
  <2> SUFFICES ASSUME NEW q \in Router, NEW p \in Net, p \notin inherited[q],
                      up'[q], table'[q][p].kind # "redistributed"
               PROVE  told[q][p] = Candidate(table'[q][p])
    BY <1>1 DEF FeedMatches, Candidate, None
  <2>1. p \notin inherited[q] /\ up[q] /\ table[q][p].kind # "redistributed" =>
            told[q][p] = Candidate(table[q][p])
    BY DEF RipInv, FeedMatches
  <2> QED
    BY <1>5, <2>1
<1>7. UnreachableCollected'
  <2> SUFFICES ASSUME NEW q \in Router, NEW p \in Net, table'[q][p].kind # "none"
               PROVE  table'[q][p].metric = INF <=> table'[q][p].delete # Off
    BY DEF UnreachableCollected, Present, Off
  <2>1. Good(table'[q][p])
    BY <1>2, <1>5, EntryFacts
  <2> QED
    BY <2>1 DEF Good
<1> QED
    BY <1>4, <1>6, <1>7 DEF RipInv

LEMMA TickInv ==
    ASSUME RipInv, Tick
    PROVE  RipInv'
<1>1. /\ table' = [r \in Router |-> [p \in Net |-> Elapsed(table[r][p])]]
      /\ next' = [r \in Router |-> Less(next[r])] /\ due' = up
      /\ UNCHANGED <<up, told, other, wire, links, inherited>>
    BY DEF Tick
<1>2. ASSUME NEW q \in Router, NEW p \in Net
      PROVE  /\ table'[q][p] = Elapsed(table[q][p]) /\ Good(table'[q][p])
             /\ table'[q][p].kind = table[q][p].kind
             /\ Candidate(table'[q][p]) = Candidate(table[q][p])
    BY <1>1, EntryFacts, ElapsedGood
<1>3. RipTypeOK'
  <2>1. table' \in [Router -> [Net -> RipRoute]]
    BY <1>1, EntryFacts, ElapsedGood DEF Good
  <2>2. next' \in [Router -> 0 .. UPDATE]
    BY <1>1, Constants DEF RipInv, RipTypeOK, Less
  <2> QED
    BY <1>1, <2>1, <2>2 DEF RipInv, RipTypeOK
<1>4. FeedMatches'
  <2> SUFFICES ASSUME NEW q \in Router, NEW p \in Net, p \notin inherited[q],
                      up[q], table'[q][p].kind # "redistributed"
               PROVE  told[q][p] = Candidate(table'[q][p])
    BY <1>1 DEF FeedMatches, Candidate, None
  <2>1. p \notin inherited[q] /\ up[q] /\ table[q][p].kind # "redistributed" =>
            told[q][p] = Candidate(table[q][p])
    BY DEF RipInv, FeedMatches
  <2> QED
    BY <1>2, <2>1
<1>5. UnreachableCollected'
  <2> SUFFICES ASSUME NEW q \in Router, NEW p \in Net, table'[q][p].kind # "none"
               PROVE  table'[q][p].metric = INF <=> table'[q][p].delete # Off
    BY DEF UnreachableCollected, Present, Off
  <2> QED
    BY <1>2 DEF Good
<1> QED
    BY <1>3, <1>4, <1>5 DEF RipInv

LEMMA ToggleInv ==
    ASSUME RipInv, NEW s \in FRAGILE, Toggle(s)
    PROVE  RipInv'
<1>1. links' \subseteq Segment
    BY RipAssumption DEF Toggle, RipInv, RipTypeOK
<1>2. UNCHANGED <<up, table, next, due, told, other, wire, inherited>>
    BY DEF Toggle
<1>3. RipTypeOK'
    BY <1>1, <1>2 DEF RipInv, RipTypeOK
<1>4. FeedMatches' /\ UnreachableCollected'
    BY <1>2 DEF RipInv, FeedMatches, UnreachableCollected, Candidate, None, Present, Off
<1> QED
    BY <1>3, <1>4 DEF RipInv

LEMMA InitInv == Init => RipInv
<1> SUFFICES ASSUME Init PROVE RipInv
    OBVIOUS
<1>1. RipTypeOK
  <2>1. table \in [Router -> [Net -> RipRoute]]
    BY StartTableGood DEF Init
  <2>2. wire \in [Router -> [Router -> Seq(Datagram)]] /\ \A r, n \in Router : Len(wire[n][r]) <= WIRE
    BY Constants DEF Init
  <2>3. told \in [Router -> [Net -> [via : Router \cup {"none"}, metric : 0 .. INF]]]
    BY Constants DEF Init, None
  <2> QED
    BY <2>1, <2>2, <2>3, Constants DEF Init, RipTypeOK
<1>2. FeedMatches
    BY StartTableGood DEF Init, FeedMatches
<1>3. UnreachableCollected
    BY StartTableGood DEF Init, UnreachableCollected, Good, Present
<1> QED
    BY <1>1, <1>2, <1>3 DEF RipInv

LEMMA RipInvariant == Spec => []RipInv
<1>1. RipInv /\ [Next]_vars => RipInv'
  <2> SUFFICES ASSUME RipInv, [Next]_vars PROVE RipInv'
    OBVIOUS
  <2>1. ASSUME NEW r \in Router,
               Start(r) \/ Periodic(r) \/ Housekeeping(r) \/ Shutdown(r)
        PROVE  RipInv'
    BY <2>1, StartInv, PeriodicInv, HousekeepingInv, ShutdownInv
  <2>2. ASSUME NEW r \in Router, NEW n \in Router, Packet(r, n) \/ BfdDown(r, n)
        PROVE  RipInv'
    BY <2>2, PacketInv, BfdDownInv
  <2>3. ASSUME NEW r \in Router, NEW p \in Net, Redistribute(r, p)
        PROVE  RipInv'
    BY <2>3, RedistributeInv
  <2>4. ASSUME NEW s \in FRAGILE, Toggle(s)
        PROVE  RipInv'
    BY <2>4, ToggleInv
  <2>5. CASE Tick
    BY <2>5, TickInv
  <2>6. CASE UNCHANGED vars
    BY <2>6 DEF vars, RipInv, RipTypeOK, FeedMatches, UnreachableCollected, Candidate, None,
                Present, Off
  <2> QED
    BY <2>1, <2>2, <2>3, <2>4, <2>5, <2>6 DEF Next
<1> QED
    BY <1>1, InitInv, PTL DEF Spec

-----------------------------------------------------------------------------
(* The theorems.                                                           *)

\* Tables, timers, candidates and datagrams have their types, and no link carries
\* more than it can, for any network and any timers.
THEOREM RipTyped == Spec => []RipTypeOK
<1>1. RipInv => RipTypeOK
    BY DEF RipInv
<1> QED
    BY <1>1, RipInvariant, PTL

\* The router task has exactly the reachable learned routes of the table, whatever
\* responses, expiries, failures of BFD, redistribution and restarts came before.
THEOREM FeedFollowsTable == Spec => []FeedMatches
<1>1. RipInv => FeedMatches
    BY DEF RipInv
<1> QED
    BY <1>1, RipInvariant, PTL

\* An entry is unreachable exactly while its garbage deadline runs, so none is
\* advertised at infinity for ever and none that was revived is collected.
THEOREM GarbageIsUnreachable == Spec => []UnreachableCollected
<1>1. RipInv => UnreachableCollected
    BY DEF RipInv
<1> QED
    BY <1>1, RipInvariant, PTL

=============================================================================
