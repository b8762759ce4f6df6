--------------------------------- MODULE Ha ---------------------------------
(***************************************************************************)
(* Leased forwarding authority of a firewall pair: the witness of wren-ha  *)
(* (Engine and serve) and the two coordinators of wren-daemon (run_ha in   *)
(* vrrp.rs).  A member may forward only until the deadline in its role     *)
(* file, which the kernel guard enforces; the witness moves authority to   *)
(* the other member only after its own copy of the lease has run out.      *)
(*                                                                         *)
(* Deadlines are kept as the time left until them, so Tick counts them all *)
(* down; the clocks are assumed to run at the same rate.  Three intervals  *)
(* decide only who may be granted, never when a lease is over: how long a  *)
(* vote and a preference last (two leases) and when a member counts as     *)
(* silent (four leases or more).  What the witness's clock says of them is *)
(* an input of each request (lapsed, aged, silent).                        *)
(* The data-plane agent is not part of this program: what it reports (its  *)
(* boot, the generation of its snapshot, its policy) is an input, chosen   *)
(* when the witness reads the request that carries it.                     *)
(***************************************************************************)
EXTENDS Naturals, FiniteSets

CONSTANTS
    AgentBoots,     \* the identities of the agents' processes
    Policies,       \* fingerprints of the members' configurations
    NoPolicy,       \* the fingerprint of all zeroes
    LEASES,         \* the lease lengths the witness may be configured with
    MEMBER_LEASE,   \* MEMBER_LEASE[m]: the longest lease member m honours
    MARGIN,         \* what a member cuts off a lease
    PRIORITY,       \* PRIORITY[m], PREEMPT[m]: the configuration of member m
    PREEMPT,
    MAX_TERM,       \* the last term (u64::MAX in the code)
    MAX_BOOT,       \* bound: starts of a coordinator
    MAX_STRAYS      \* bound: abandoned requests not read yet; any further one is lost

Members  == {1, 2}
Other(m) == 3 - m

ASSUME LeaseAssumption ==
    /\ MARGIN \in Nat
    /\ LEASES \subseteq Nat /\ \A l \in LEASES : l > MARGIN
    /\ MEMBER_LEASE \in [Members -> Nat]
ASSUME MemberAssumption ==
    /\ PRIORITY \in [Members -> 1 .. 255] /\ PREEMPT \in [Members -> BOOLEAN]
    /\ MAX_TERM \in Nat /\ MAX_BOOT \in Nat /\ MAX_STRAYS \in Nat
    /\ NoPolicy \notin Policies

VARIABLES
    \* The witness.
    serving,     \* "down", "up", or "fenced" after a failed write
    lease,       \* the lease length of this run
    authority,   \* the current generation: term, owner, its boot, policy
    claim,       \* the baseline of the last grant
    expiry,      \* time left of the lease granted last
    quarantine,  \* time left before this run may grant
    preferred,   \* the member that asked to preempt, or 0
    cold,        \* cold[m]: the policy member m votes to start afresh with
    durable,     \* the state file: authority, claim and lease
    \* The coordinators.
    alive,       \* whether the process runs
    boot,        \* its current or last incarnation
    role,        \* the authority it knows of
    deadline,    \* time left until the deadline in its role file
    exchange,    \* its exchange with the witness: see Stages
    elapsed,     \* time since the exchange started
    reply,       \* the witness's answer
    strays       \* requests of abandoned exchanges the witness may still read

engine == <<lease, authority, claim, expiry, quarantine, preferred, cold>>
member == <<alive, boot, role, deadline, exchange, elapsed, reply, strays>>
vars   == <<serving, engine, durable, member>>

\* "lost": the member waits for an answer that will not come.
Stages == {"idle", "asked", "lost", "answered"}

Less(x, y) == IF x > y THEN x - y ELSE 0
Lower(x, y) == IF x < y THEN x ELSE y

NoAuthority == [term |-> 0, owner |-> 0, boot |-> 0, policy |-> NoPolicy]
NoClaim     == [ready_term |-> 0, agent_boot |-> 0]
NoVotes     == [m \in Members |-> NoPolicy]
NoReply     == [authority |-> NoAuthority, remaining |-> 0, granted |-> FALSE]

Authorities == [term: 0 .. MAX_TERM, owner: Members \cup {0}, boot: 0 .. MAX_BOOT,
                policy: Policies \cup {NoPolicy}]

Init ==
    /\ serving = "down" /\ lease \in LEASES
    /\ authority = NoAuthority /\ claim = NoClaim /\ expiry = 0 /\ quarantine = 0
    /\ preferred = 0 /\ cold = NoVotes
    /\ durable = [authority |-> NoAuthority, claim |-> NoClaim, lease |-> lease]
    /\ alive = [m \in Members |-> FALSE] /\ boot = [m \in Members |-> 0]
    /\ role = [m \in Members |-> NoAuthority] /\ deadline = [m \in Members |-> 0]
    /\ exchange = [m \in Members |-> "idle"]
    /\ elapsed = [m \in Members |-> 0] /\ reply = [m \in Members |-> NoReply]
    /\ strays = {}
----------------------------------------------------------------------------
(* The witness's decision on a request q: Engine::request *)

\* The clock at the request: the preference has lapsed, the other member's vote is
\* too old, the other member has been silent.  Silence lasts longer than the
\* other's lease, vote and preference.
Timely(q) ==
    /\ q.lapsed => preferred # 0
    /\ q.aged => cold[Other(q.node)] # NoPolicy
    /\ q.silent => /\ authority.owner # Other(q.node) \/ expiry = 0
                   /\ cold[Other(q.node)] # NoPolicy => q.aged
                   /\ preferred = Other(q.node) => q.lapsed

Votes(q) ==
    [cold EXCEPT ![q.node] = IF q.eligible /\ q.ready_term = 0 THEN q.policy
                             ELSE NoPolicy]

ColdQuorum(q) == ~q.aged /\ \A m \in Members : Votes(q)[m] = q.policy

Current == expiry > 0

Ours(q)  == q.node = authority.owner /\ q.boot = authority.boot

Exact(q) == q.policy = authority.policy /\ q.ready_term = authority.term

\* A complete snapshot of this or an earlier generation.
Ready(q) == q.policy = authority.policy /\ q.ready_term \in 1 .. authority.term

Initial(q) == authority.term = 0 /\ q.node = 1 /\ q.ready_term = 0

\* The owner asks again for what it was granted: the answer was lost.
Retry(q) ==
    /\ Ours(q)
    /\ q.policy = authority.policy
    /\ claim = [ready_term |-> q.ready_term, agent_boot |-> q.agent_boot]

Lone(q) == authority.term > 0 /\ q.ready_term = 0 /\ q.silent

Eligible(q) ==
    /\ q.eligible
    /\ \/ Ready(q) \/ Initial(q) \/ Retry(q) \/ Lone(q)
       \/ ColdQuorum(q) /\ q.node = 1

\* The pair (priority, 3 - node) is compared with the owner's.
Outranks(m) ==
    LET o == authority.owner
    IN  /\ o \in Members
        /\ \/ PRIORITY[m] > PRIORITY[o]
           \/ PRIORITY[m] = PRIORITY[o] /\ m < o

Preference(q) ==
    IF /\ Current /\ ~Ours(q) /\ Exact(q) /\ q.eligible
       /\ PREEMPT[q.node] /\ Outranks(q.node)
    THEN q.node
    ELSE IF q.lapsed THEN 0 ELSE preferred

PreferredUs(q) == Preference(q) \in {0, q.node}

Granting == serving = "up" /\ quarantine = 0

Renews(q) ==
    /\ Granting /\ q.eligible
    /\ Current /\ Ours(q)
    /\ q.ready_term = authority.term \/ Retry(q)
    /\ PreferredUs(q) \/ q.policy # authority.policy

\* Mutant: the lease of the present owner is not waited for.
ClaimsEarly(q) == Granting /\ ~Ours(q) /\ Eligible(q) /\ PreferredUs(q)

Claims(q) == Granting /\ ~Current /\ Eligible(q) /\ PreferredUs(q)

Granted(q) == Renews(q) \/ Claims(q)

\* Whether the grant opens a generation: a new owner, or the owner's new policy.
Opens(q) == Claims(q) \/ (Renews(q) /\ q.policy # authority.policy)

Generation(q) ==
    IF Opens(q) THEN [term |-> authority.term + 1, owner |-> q.node,
                      boot |-> q.boot, policy |-> q.policy]
    ELSE authority

\* The term is exhausted: the request fails after its vote was counted.
Exhausted(q) == Opens(q) /\ authority.term = MAX_TERM

\* The claim after the request.
Baseline(q) ==
    IF Granted(q) THEN [ready_term |-> q.ready_term, agent_boot |-> q.agent_boot]
    ELSE claim

Decide(q) ==
    /\ ~Exhausted(q)
    /\ authority' = Generation(q)
    /\ claim' = Baseline(q)
    /\ expiry' = IF Granted(q) THEN lease ELSE expiry
    /\ preferred' = IF Opens(q) THEN 0 ELSE Preference(q)
    /\ cold' = IF Claims(q) THEN NoVotes ELSE Votes(q)
    /\ UNCHANGED <<lease, quarantine>>

\* The request fails: no generation is left.
Refuse(q) ==
    /\ Exhausted(q)
    /\ preferred' = Preference(q)
    /\ cold' = Votes(q)
    /\ UNCHANGED <<lease, quarantine, authority, claim, expiry, serving, durable>>

\* The state file is written before the answer leaves, and only when the
\* generation or the baseline has changed.
Changes(q) == Generation(q) # authority \/ Baseline(q) # claim

Recorded(q) == [authority |-> Generation(q), claim |-> Baseline(q), lease |-> lease]
----------------------------------------------------------------------------
(* One session of the witness *)

\* Where the request came from: a member still waiting, or an abandoned exchange.
Waiting(q) == exchange[q.node] = "asked" /\ q.boot = boot[q.node]

Stray(q) == <<q.node, q.boot>> \in strays

\* The requests of member m's incarnation b.  What an ineligible one says of its
\* agent is never looked at, and the age of votes and members only for an agent
\* without a snapshot.
RequestsOf(m, b) ==
    [node: {m}, boot: {b}, agent_boot: AgentBoots, ready_term: {0}, policy: Policies,
     eligible: {TRUE}, lapsed: BOOLEAN, aged: BOOLEAN, silent: BOOLEAN]
    \cup
    [node: {m}, boot: {b}, agent_boot: AgentBoots, ready_term: 1 .. MAX_TERM,
     policy: Policies, eligible: {TRUE}, lapsed: BOOLEAN, aged: {FALSE}, silent: {FALSE}]
    \cup
    [node: {m}, boot: {b}, agent_boot: AgentBoots, ready_term: {0},
     policy: Policies, eligible: {FALSE}, lapsed: BOOLEAN, aged: {FALSE}, silent: {FALSE}]

\* The answer is on its way to a member that still waits for it.  The time left is
\* read only with a grant.
Answer(q) ==
    /\ exchange' = [exchange EXCEPT ![q.node] = "answered"]
    /\ reply' = [reply EXCEPT ![q.node] =
                   [authority |-> Generation(q), granted |-> Granted(q),
                    remaining |-> IF Granted(q) THEN lease ELSE 0]]
    /\ UNCHANGED strays

Drop(q) ==
    /\ strays' = strays \ {<<q.node, q.boot>>}
    /\ UNCHANGED <<exchange, reply>>

\* Mutant: the generation is announced although it may not be on disk.
HangAnswers(q) ==
    /\ exchange' = [exchange EXCEPT ![q.node] = "answered"]
    /\ reply' = [reply EXCEPT ![q.node] =
                   [authority |-> Generation(q), remaining |-> lease, granted |-> Granted(q)]]
    /\ UNCHANGED strays

\* The session ends without an answer.
Hang(q) ==
    /\ exchange' = [exchange EXCEPT ![q.node] = "lost"]
    /\ UNCHANGED <<reply, strays>>

\* serve: decide, persist, answer.
Serve(q) ==
    /\ serving # "down"
    /\ Decide(q)
    /\ durable' = IF Changes(q) THEN Recorded(q) ELSE durable
    /\ \/ Waiting(q) /\ Answer(q)
       \/ Stray(q) /\ Drop(q)
    /\ UNCHANGED <<serving, alive, boot, role, deadline, elapsed>>

\* The state file cannot be written, though the new one may have landed: the
\* witness fences itself and the session ends without an answer.
PersistFails(q) ==
    /\ serving # "down"
    /\ Changes(q)
    /\ ~Exhausted(q)
    /\ authority' = Generation(q) /\ claim' = Baseline(q) /\ expiry' = 0
    /\ preferred' = IF Opens(q) THEN 0 ELSE Preference(q)
    /\ cold' = IF Claims(q) THEN NoVotes ELSE Votes(q)
    /\ serving' = "fenced"
    /\ durable' \in {Recorded(q), durable}
    /\ (Waiting(q) /\ Hang(q)) \/ (Stray(q) /\ Drop(q))
    /\ UNCHANGED <<lease, quarantine, alive, boot, role, deadline, elapsed>>

\* Engine::request returns an error: the session ends without an answer.
ServeFails(q) ==
    /\ serving # "down"
    /\ Refuse(q)
    /\ (Waiting(q) /\ Hang(q)) \/ (Stray(q) /\ Drop(q))
    /\ UNCHANGED <<alive, boot, role, deadline, elapsed>>

\* The witness stops: connections break, and only the state file is left.
WitnessCrash ==
    /\ serving # "down"
    /\ serving' = "down"
    /\ lease' = durable.lease /\ authority' = NoAuthority /\ claim' = NoClaim
    /\ expiry' = 0 /\ quarantine' = 0
    /\ preferred' = 0 /\ cold' = NoVotes
    /\ exchange' = [m \in Members |-> IF exchange[m] = "asked" THEN "lost" ELSE exchange[m]]
    /\ strays' = {}
    /\ UNCHANGED <<durable, alive, boot, role, deadline, elapsed, reply>>

\* The longest lease an earlier run may have granted.
Outstanding(l) == IF durable.lease > l THEN durable.lease ELSE l

\* serve and Engine::configured: the previous run's leases are waited out.
WitnessStart(l) ==
    /\ serving = "down"
    /\ serving' = "up"
    /\ lease' = l
    /\ authority' = durable.authority /\ claim' = durable.claim
    /\ expiry' = 0
    /\ quarantine' = Outstanding(l) + MARGIN
    /\ preferred' = 0 /\ cold' = NoVotes
    /\ UNCHANGED <<durable, member>>

----------------------------------------------------------------------------
(* A coordinator *)

\* run_ha up to its loop: a fresh identity and a role without authority.
Start(m) ==
    /\ ~alive[m] /\ boot[m] < MAX_BOOT
    /\ alive' = [alive EXCEPT ![m] = TRUE]
    /\ boot' = [boot EXCEPT ![m] = @ + 1]
    /\ role' = [role EXCEPT ![m] = NoAuthority]
    /\ deadline' = [deadline EXCEPT ![m] = 0]
    /\ UNCHANGED <<serving, engine, durable, exchange, elapsed, reply, strays>>

\* A request already on its way outlives the exchange.
Outlives(m) == exchange[m] = "asked" /\ Cardinality(strays) < MAX_STRAYS

Leave(m) ==
    /\ exchange' = [exchange EXCEPT ![m] = "idle"]
    /\ strays' = IF Outlives(m) THEN strays \cup {<<m, boot[m]>>} ELSE strays
    /\ elapsed' = [elapsed EXCEPT ![m] = 0]
    /\ reply' = [reply EXCEPT ![m] = NoReply]

\* The process is killed: its role file stays, and so does the kernel's deadline.
Crash(m) ==
    /\ alive[m]
    /\ alive' = [alive EXCEPT ![m] = FALSE]
    /\ Leave(m)
    /\ UNCHANGED <<serving, engine, durable, boot, role, deadline>>

\* Graceful shutdown, taken between two polls: the guard is closed at once.
Shutdown(m) ==
    /\ alive[m] /\ exchange[m] = "idle"
    /\ alive' = [alive EXCEPT ![m] = FALSE]
    /\ deadline' = [deadline EXCEPT ![m] = 0]
    /\ UNCHANGED <<serving, engine, durable, boot, role, exchange, elapsed, reply, strays>>

\* The poll timer ticks: an exchange starts.  Whether links, agent and VPN are in
\* order decides Request::eligible and, at the end of the poll, whether authority
\* is used; the model lets the two differ.
Poll(m) ==
    /\ alive[m] /\ exchange[m] = "idle"
    /\ exchange' = [exchange EXCEPT ![m] = "asked"]
    /\ elapsed' = [elapsed EXCEPT ![m] = 0]
    /\ UNCHANGED <<serving, engine, durable, alive, boot, role, deadline, reply, strays>>

\* Mutant: the lease is counted from the answer, not from the connect.
ValidityLate(m) == Less(Lower(reply[m].remaining, MEMBER_LEASE[m]), MARGIN)

\* exchange: what is left of a grant that is counted from before the connect.
Validity(m) == Less(Lower(reply[m].remaining, MEMBER_LEASE[m]), MARGIN + elapsed[m])

\* The end of a poll: with authority a in force for d, keep it if everything is in
\* order and the virtual addresses could be installed (fit), else give it up.
Settle(m, a, d, fit) ==
    deadline' = [deadline EXCEPT ![m] =
                   IF fit /\ a.owner = m /\ a.boot = boot[m] THEN d ELSE 0]

\* The witness's answer is read.
Apply(m, fit) ==
    /\ exchange[m] = "answered"
    /\ role' = [role EXCEPT ![m] = reply[m].authority]
    /\ Settle(m, reply[m].authority,
              IF reply[m].granted THEN Validity(m)
              ELSE IF reply[m].authority = role[m] THEN deadline[m] ELSE 0,
              fit)
    /\ Leave(m)
    /\ UNCHANGED <<serving, engine, durable, alive, boot>>

\* The exchange fails or times out: the present lease is not extended.
Abandon(m, fit) ==
    /\ exchange[m] # "idle"
    /\ Settle(m, role[m], deadline[m], fit)
    /\ Leave(m)
    /\ UNCHANGED <<serving, engine, durable, alive, boot, role>>
----------------------------------------------------------------------------
(* The specification *)

\* Time passes, for everyone; an exchange older than any lease is not aged further.
Tick ==
    /\ expiry' = Less(expiry, 1) /\ quarantine' = Less(quarantine, 1)
    /\ deadline' = [m \in Members |-> Less(deadline[m], 1)]
    /\ elapsed' = [m \in Members |-> IF exchange[m] = "idle" THEN 0
                                     ELSE Lower(elapsed[m] + 1, Less(MEMBER_LEASE[m], MARGIN))]
    /\ UNCHANGED <<serving, lease, authority, claim, preferred, cold, durable,
                   alive, boot, role, exchange, reply, strays>>

WitnessStep ==
    \/ \E m \in Members, b \in 0 .. MAX_BOOT :
         /\ <<m, b>> \in strays \/ (exchange[m] = "asked" /\ b = boot[m])
         /\ \E q \in RequestsOf(m, b) :
              /\ Timely(q)
              /\ Serve(q) \/ ServeFails(q) \/ PersistFails(q)
    \/ WitnessCrash
    \/ \E l \in LEASES : WitnessStart(l)

MemberStep ==
    \E m \in Members :
        \/ Start(m) \/ Crash(m) \/ Shutdown(m)
        \/ Poll(m)
        \/ \E fit \in BOOLEAN : Apply(m, fit) \/ Abandon(m, fit)

Next == WitnessStep \/ MemberStep \/ Tick

Spec == Init /\ [][Next]_vars
----------------------------------------------------------------------------
(* Correctness *)

\* A member may forward while the deadline of its role file has not passed.
Forwards(m) == deadline[m] > 0

\* At no time may both members forward: a lease the witness has moved, lost in a
\* crash or shortened by reconfiguration is over at its old holder.
Exclusive == ~(Forwards(1) /\ Forwards(2))

\* A member forwards only for a generation that is on disk, so that a restarted
\* witness knows whom it has to wait for, whatever writes failed.
GrantOnDisk ==
    \A m \in Members : Forwards(m) =>
        /\ durable.authority.owner = m /\ durable.authority.boot = role[m].boot
        /\ role[m].term <= durable.authority.term

\* Once any member has learnt of a newer owner than the one that may forward, that
\* one may no longer: nobody acts on a takeover before it is safe.
StoppedWhenReplaced ==
    \A m \in Members : Forwards(m) =>
        \/ role[Other(m)].term <= role[m].term
        \/ role[Other(m)].owner = m
============================================================================
