# Wren: a verification development

Wren is a routing daemon written in Rust. One process runs every routing
protocol as an asynchronous task; a single router task owns the routing
information base (RIB) and programs the operating system's forwarding plane
through a worker thread; a firewall pair can run under a leased forwarding
authority decided by a witness. This directory holds TLA+ models of its parts,
the TLC configurations that check them, and TLAPS proofs for the parts whose
failure is hardest to test. `PROJECT.json` maps the definitions to the source lines
they model (one that only names a condition or an update inside a mapped operation is
covered by the entry of that operation) and lists components, hazards, runs and
theorems.

## 1. Inventory

### Components, their state and their operations

| Component | Code | State | Operations |
|---|---|---|---|
| RIB | `wren-core/src/lib.rs` | per (table, prefix): ordered list of candidate routes, one per (protocol, source) | `update`, `withdraw`, `best`, `diff` |
| Router task | `wren-daemon/src/router.rs` | RIB, `exported`, `failed`, `current_statics`, filters, subscribers | update batch, static reload, filter reload, reconcile tick, subscribe, `program_fib`, `redistribute` |
| Start-up and SIGHUP | `wren-daemon/src/main.rs` | the loaded configuration, known BGP peers | `reconcile_owned`, seeding of statics, `apply_reload`, shutdown |
| Forwarding plane | `wren-core` `Fib`, `wren-daemon/src/fib.rs`, `wren-netlink` | kernel routes | install (replace), remove, dump |
| Filters | `wren-filter` | compiled rules | `apply`: accept with rewriting, or reject |
| HA witness | `wren-ha/src/lib.rs` `Engine`, `serve` | authority, claim, expiry, quarantine, votes, preference; a state file | `request`, persist, answer, restart |
| HA coordinator | `wren-daemon/src/vrrp.rs` `run_ha` | role file (authority, deadline), boot identity, VIPs | poll, exchange, relinquish, shutdown |
| VRRP | `wren-vrrp`, `vrrp.rs` `run` | FSM state, priority, learned interval, two timers, VIP | start, advertisement, two timers, interface poll, shutdown |
| Supervisor | `wren-daemon/src/reload.rs` | one slot per engine: running signature, stop signal, task | start, stop, restart on SIGHUP; shutdown relay |
| BFD | `wren-bfd`, `bfd.rs`, `bfd_echo.rs` | sessions, detection deadline, subscribers | register, receive, detect timeout, transmit, notify |
| RIP / RIPng | `wren-rip`, `rip.rs`, `ripng.rs` | distance-vector table with expiry and garbage timers | process response, tick, redistribute, expire via neighbour |
| Babel | `wren-babel`, `babel.rs` | neighbours, source table, routes, sequence numbers | updates, requests, retractions |
| BGP | `wren-bgp`, `bgp.rs`, `bmp.rs`, `rtr.rs` | session FSMs, Adj-RIB-In/Out, Loc-RIB, EVPN and other families, VRPs | events, decision, export, graceful restart, reconfiguration |
| OSPFv2 / OSPFv3 | `wren-ospf`, `wren-ospfv3`, `ospf.rs`, `ospf3.rs` | neighbours, DR election, LSDB, retransmission lists | hello, database exchange, flooding, ageing, SPF |
| IS-IS | `wren-isis`, `isis.rs` | adjacencies, LSP database | hello, LSP/CSNP/PSNP, ageing, SPF |
| IGMP / MLD, PIM | `wren-igmp`, `wren-pim`, `igmp.rs`, `mld.rs`, `pim.rs`, `mroute.rs` | group membership, querier, join/prune trees | reports, queries, timers, forwarding cache |
| Kernel backend | `wren-netlink` | socket, sequence number; the kernel's tables | route add/replace/delete, dump, retry, VIP add/remove |
| Configuration | `wren-config`, the `build_*` functions of `main.rs` | none of their own | parse, resolve, reject |
| Control plane of the daemon | `control.rs`, `query.rs`, `metrics.rs`, `connected.rs` | query routes to the engines | forwarded `show` queries, rendering |

### How they interact

Engines send `RouteUpdate`s to the router over one bounded channel
(`UPDATE_QUEUE`), and the router sends best-path changes back to the engines
that redistribute over a bounded channel each (`REDIST_QUEUE`). SIGHUP reaches
the router over two separate channels (statics, filters) and the engines through
the supervisor. The router awaits each forwarding-plane write, which a worker
thread performs in order. `monitor routes` clients have a bounded channel each:
the snapshot waits for room, the stream after it drops a client that lags. BFD
tells protocols about dead neighbours over small queues with `try_send`. The
witness and the coordinators exchange one request and one answer per
authenticated connection, and the witness writes its state file before it
answers.

### What is hard here

* **Belief against reality**: `exported` is the router's belief about the
  kernel; writes fail, and the process may die between two of them.
* **Coalescing**: a batch keeps only the last best-path change of a prefix.
* **Independent channels**: updates, the two halves of a reload, the reconcile
  tick and subscriptions interleave arbitrarily.
* **Leases over three clocks**: the witness, both members and the kernel guard
  each measure the lease from a different moment; requests outlive the exchange
  that sent them; both sides restart; the state write may fail half-way.
* **Backpressure cycles** between router and engines, and between the main loop
  and the router it polls.
* **Timers and late messages** in VRRP, BFD, RIP, BGP hold timers, LSA ageing.
* **Overlapping generations** of an engine during a reload.

`PROJECT.json` lists each of these at its line under `hazards`, with the
properties that cover it or a note on why none does.

### What makes each component correct

* RIB: the change stream keeps a forwarding plane at the best path; ties do not
  depend on replacement.
* Router: belief equals forwarding plane; nothing is orphaned; every key
  converges to its best path; redistribution and streams reflect it; a failed
  write is eventually repaired.
* HA: at most one member may forward; the grant it forwards under is on disk;
  nobody acts on a takeover before the old holder has stopped.
* VRRP: exactly one timer runs in Backup and Master, the address is held only by
  a Master, one Master remains once messages get through.
* BFD: a session that was up and hears nothing goes down and every subscriber
  learns of it.
* RIP, Babel: no stale candidate stays in the RIB; no loops (Babel's
  feasibility), bounded counting to infinity (RIP).
* BGP: Loc-RIB is the decision over the sessions' routes; Adj-RIB-Out follows
  it; nothing of a closed session survives its stale timer.
* OSPF, IS-IS: databases of connected routers converge to the newest instance.

## 2. Plan

The order in which the modules were written, the most important behaviour first.

1. `Rib`, `Router` (composes `Rib` by EXTENDS), `RouterProof`
   (best path; forwarding plane; subscribers, statics, redistribution).
2. `Ha`, `HaProof` - witness and both coordinators in one module, since the
   property is about all three.
3. `Vrrp`, `VrrpProof`; `Bfd`, `BfdProof`.
4. `Rip`, `RipProof`; `Babel`.
5. `LinkStateDb`, the abstract link-state database; `Ospf`, `Ospf3`, `Isis`, which
   implement it; `IsisProof`; `Spf`, the computation on such a database; `OspfAreas`,
   `IsisLevels`, what passes between two of them.
6. `BgpSession`, `BgpSessionProof`; `BgpDecision` and `Bgp` (EXTENDS it); `BgpServices`; `BgpUpdate`;
   `Rtr`.
7. `Config` and `Daemon` (EXTENDS it), `DaemonProof`; `Netlink`; `Membership`, `PimTree` and
   `Multicast` (EXTENDS both).

Done: all of them. Left: the same refinement for `Ospf` (its flooding lists and
acknowledgements need a stronger invariant than `Isis` has).

## 3. Modules and their correspondence to the code

### Rib

Pure operators. A route is a record of its table, prefix, protocol, source,
preference, metric and a tag `nh` that stands for the rest of its attributes.
`Best` picks the earliest candidate no other beats; `BestByScan` is the fold
that `RibEntry::best` executes, and `router_fib` shows that they agree on
every entry it reaches.
`Announced` replaces a candidate of the same owner in place or appends it;
`Withdrawn` removes the owner's; `Diff` is `Rib::diff`. Ranks are bounded by
`MaxU32`, a stand-in for `u32::MAX` (nothing is added to them).

### Router

| Variable | Code |
|---|---|
| `rib`, `exported`, `failed`, `current_statics`, `imports`, `fib_export` | the locals of `router::run` of the same name |
| `pc`, `work`, `drained`, `dumping`, `undumped` | where the task stands between two awaits, and the changes it still has to program |
| `updates`, `reloads`, `filter_reloads` | the three channels |
| `kernel` | the forwarding plane (survives a crash) |
| `origin` | what each redistribution target was last told |
| `subs` | subscriber: its view and unread count |
| `programmed_by` | history: the export filter in force when a key was last programmed |

A handler that writes the forwarding plane several times is a phase with one
step per key (`Program` with its six cases is `program_fib`); between two steps
only the environment moves, as between two awaits of the task. `Start` is the
whole of start-up (reconciliation, seeding, redistribution of the seeds),
`StartFails` its error path, `Crash` any exit. Filters are functions from
routes to routes or rejection that keep identity, which is all the router needs
of them. `Faults` names the writes that may be refused or may go unacknowledged.

### Ha

Both members and the witness. A deadline is kept as the time left until it, so
`Tick` counts all of them down together: clocks may differ in offset but are
assumed to run at the same rate. The decision of `Engine::request` is split into
one operator per local of the function (`Renews`, `Claims`, `Eligible`,
`Retry`, `ColdQuorum`, ...), `Serve` is one session of `serve` (decide, persist,
answer), `PersistFails` its failed write - with or without the new file on disk -
and `ServeFails` the exhausted term. A coordinator's exchange is `Poll`, an
answer or none, then `Apply` or `Abandon`; an abandoned request stays in
`strays` and may be served later. Abstractions:

* the intervals for votes, preference and silence are inputs (`lapsed`, `aged`,
  `silent`), constrained by `Timely` to what the durations imply;
* the data-plane agent is not part of the program: its reports are inputs;
* a request's `eligible` and the end of the poll's health (`fit`) are chosen
  independently, which allows more than the code;
* the VIP calls and the VPN rekey appear as success or failure, a failed write
  of the role file as a crash; `coordinator_lock` gives one coordinator per host;
* a member outranks by its configured priority.

### Vrrp

| Variable | Code |
|---|---|
| `inst[p]` | the `Vrrp` state machine and the two deadlines of an `Instance`; `p` is a host and a generation, `"off"` when it does not run |
| `stopping[p]` | the generation's stop signal has been given |
| `inbox[p]` | socket and `adv_rx` channel together, at most `INBOX` long |
| `vip[h]` | the virtual address on the interface: `"absent"`, `"held"` (installed by a running process), `"left"` (its process was killed) |
| `address[h]`, `tracked[h]` | what the polls read from the kernel |

The runner is one task, so an arm of its `select!` is one step. Each function of
`fsm.rs` and `apply_actions` is an operator on a working copy (instance, virtual
address, advertisements sent), and `Commit` publishes what the arm leaves:
`Receive`, `Timer`, `Poll` (`poll_primary`, then `poll_tracking`), `Stop` (the
goodbye). `ok` tells whether `assume_vip` succeeds. Deadlines are the time left,
and `Tick` with `"late"` in `Faults` passes although something is due. One
virtual router is modelled: instances share nothing but the loop. Abstractions:

* an interface that is re-created (new index or MAC, socket reopened) is a change
  of address, and a lost link a lost address, also at start-up;
* no two hosts have the same address, so the tie-break is strict;
* repeated neighbour announcements, the packet's checks and the zero interval a
  foreign router might send are left out.

### Bfd

| Variable | Code |
|---|---|
| `session[e]` | the `PeerSession` end `e` keeps for its peer: the `Session` state machine, what it learned from the last packet, transmit and detection deadline, subscribers, Echo deadlines; not `live` before a registration and after the last deregistration |
| `wire[e]`, `looping[e]` | Control packets on their way to `e`; an Echo packet of `e` in the forwarding plane |
| `link[e]` | one direction of the link |
| `commands[e]` | the registration channel (`BFD_QUEUE`) |
| `notes[e][c]` | down notifications waiting in consumer `c`'s channel |
| `adjacent[e]` | the consumers with an adjacency over the link |
| `respawned[e]` | the consumers that a reload has restarted |
| `missed[e]`, `riding[e]` | history: packets lost in a row; adjacent subscribers that have seen the session Up |

`Timer`, `Receive`, `EchoReturn` and `HandleCommand` are the arms of the loop's
`select!`, each with `service` and `service_echo` after it (`Serviced`, `Sends`).
The consumers' side is `reconcile_bfd` and the `bfd_down` arm as OSPF has them; a
statically registered consumer (BGP) sends its one registration at start-up.
`Respawn` is the supervisor's spawn closure. Abstractions:

* both ends run this code, so no packet is AdminDown or asks for a Final; no
  authentication;
* Control packets keep their order, at most `WIRE` are in flight, and a full or cut
  link loses them; an unresolved neighbour address is an Echo packet lost;
* one peer per consumer channel, so notifications compete only with earlier ones of
  the same peer; OSPF's refusal to drop a neighbour it helps through a graceful
  restart is left out;
* `Tick` waits for what is due, under way or queued in the BFD tasks: those take less
  than a unit of time. Consumers may be as slow as they like.

### Rip

Every router of a small network runs `wren-rip`'s table and the engine of `rip.rs`
(`ripng.rs` is the same engine over IPv6). `Packet`, `Periodic`, `Housekeeping`,
`Redistribute`, `BfdDown`, `Start` and `Shutdown` are the arms and ends of the task;
each is the table operation, the events forwarded to the router (`told`), and the
triggered update behind it (`due`, `FlushTriggered`). `other` are the prefixes of
other protocols, `inherited` the ones whose route a restarted engine knows nothing
of. Deadlines are the time left. Left out: packet authentication and splitting an
update over several datagrams.

### Babel

Neighbour table with Hello history and IHU, source table with feasibility
distances, routes per (prefix, origin, neighbour), selection and relaying, on every
router; `todo` holds what a tick made due. A Hello interval is the unit of time.
Left out: sub-TLVs, requests for a new sequence number (the code sends none) and
retransmission, which it does not have either.

### LinkStateDb, Ospf, Ospf3, Isis

`LinkStateDb` says what a link-state database promises: an instance is replaced only
by a more recent one or forgotten, and nobody holds anything more recent than its
originator issued. Each engine is one record per router and every handler an
operator from that record to the one it leaves (`HandleHello`, `HandleDd`,
`HandleLsu`, ..., `ProcessLsp`, `ProcessCsnp`, ...), with the election of DR or DIS
behind every neighbour change, as in the code. `issued` is a history variable: the
most recent instance of each advertisement in existence. LSA and LSP bodies are a
number that also stands for the checksum (in `Isis` the constant `Checksum`, of which
only the type is assumed); ages are "at MaxAge or not"; Hellos are never in flight. A
`BUDGETS` record bounds losses, stops, changes and BFD failures per behaviour.

### Spf

The three Dijkstra implementations, one vertex per step, over an abstract database
with the two-way check as each protocol makes it (`V2Neighbors`, `V3Neighbors`,
`IsisNeighbors`), then the routes read off the tree. The reference definitions
(`Distances`, `FirstHops`, ...) are declarative: minima over paths and edges.

### OspfAreas, IsisLevels

What border routers write into the areas or levels they join: summaries, defaults,
translated type-7 LSAs; leaked prefixes and the attached bit. An area or level is
one database here - that its routers come to hold one is what `Ospf`, `Ospf3` and
`Isis` show - and a router that has not yet processed a change is `dirty`.

### BgpSession, BgpDecision, Bgp, BgpServices, BgpUpdate, Rtr

`BgpSession` has two speakers that both dial and accept; a TCP connection has a
session task at each end with the state machine of `fsm.rs`, and the part of the
central task that keeps one connection per peer, and evicts a session whose queue was
full once it reads the request to (`teardown`). `Bgp` is that central task between
its neighbours: import, Adj-RIB-In, selection with deterministic MED, multipath,
what each neighbour and the router task are told, ADD-PATH identifiers, graceful
restart, route refresh, redistribution and aggregates, RTR feeds, reconfiguration.
`BgpDecision` holds its pure rules. `BgpServices` has the four parallel RIBs, the
EVPN views with MAC mobility and the monitor feeds; `BgpUpdate` the decoder of one
message with the error handling of RFC 7606, octets abstracted to what it tells
apart; `Rtr` the RPKI client against a cache that changes, forgets and restarts.

### Config, Daemon

`Config` resolves a file: a record of sections in which of a text only matters
whether it parses. `Daemon` is the life of the process: start-up in the order of
`main`, SIGHUP (`reload_config`, `apply_reload`), the supervisor's generations and
their shutdown relays, the shutdown with its awaited goodbyes, and `show` queries
that go to whoever owns the state.

### Netlink

Encoding of a RIB route into a request (`BuildRouteMsg`, the fields an rtnetlink
message carries), sending with retries, parsing of replies and dumps, reconciliation
at start-up. The kernel is external, modelled as `lib.rs` uses it: one route per
table, prefix and priority, first match for a delete.

### Membership, PimTree, Multicast

`Membership` and `PimTree` are the pure state of `wren-igmp` and `wren-pim`;
`Multicast` the runners, the bounded channel from IGMP to PIM and the kernel's
forwarding cache. Upstream routers are reduced to what they hold for us.

### Combined instances

A run asks one question of several modules where they answer it alike, so some MC
modules hold several instances side by side: a variable (`proto` or `part`), chosen
in the initial state and never changed, says which one the behaviour is about, and
the state of the others rests. `MCOspf`: OSPFv2 and OSPFv3. `MCAreas`: IS-IS
database, IS-IS levels, OSPF areas. `MCRoutes`: RIP, two Babel instances, SPF.
`MCBgp`: central task, services, decoder, RTR. `MCPlatform`: daemon, netlink,
multicast. Each property is the implication from its part to the module's own
invariants, except `DaemonInv`, which also holds of a daemon at rest in its initial
state and is checked as it stands.

## 4. Runs

Every passing run finishes within the five-minute budget on two workers.

| Run | Instance | Checks |
|---|---|---|
| `router_fib` | two prefixes, two configurations, three engine routes, refused installs, crashes | `ScanFindsBest`, `StaticsTracked`, `ExportedInKernel`, `NoOrphans`, `Converged`, and `EventuallySettled` under `FairSpec` |
| `router_out` | two redistribution targets with filters, one subscriber, every write fault | `RedistCurrent`, `SubscriberMirrors` |
| `ha` | lease 1, margin 0, terms up to 2, one start per member, member 2 preempts | `Exclusive`, `GrantOnDisk`, `StoppedWhenReplaced` |
| `vrrp` | two hosts, interval 1, one message per inbox, kills, loss, lateness, refused installs | `TimerOfState`, `HeldByMaster`, and `ElectionSettles` under `FairSpec` |
| `bfd` | two ends, multipliers 1 and 2, Echo at one, a static and a coming-and-going consumer, loss, failures of each direction, reloads | `Watched`, `NoFalseAlarm`, `FallReported`, and `SilenceNoticed`, `SessionsForm` under `FairSpec` |
| `bgp_session` | two speakers, two connections, one of: a fan-out, a cut path, a reset with a failed write | `SessionInv`, and `Settled` under `Fair` |
| `bgp` | four neighbours (eBGP twice to one AS, reflector client with ADD-PATH, third AS), seven budgets; ten service NLRIs; a catalogue of messages; a cache with two ROAs | `BgpInv`, `ServicesInv`, `UpdatesSound`, `RtrInv` |
| `ospf` | two routers, point-to-point or broadcast, budgets of one loss, stop, crash, change or BFD failure | `OspfInv`, `Ospf3Inv`, `ImplementsDb` |
| `areas` | two IS-IS routers on a LAN or link; four routers in two levels; five in three areas, two changes | `IsisInv`, `HierarchyInv`, `ImplementsDb` |
| `routes` | three RIP routers in a line; three Babel routers with two faults, or one and a reload; every database of three routers, two networks and one defect | `FeedMatches`, `UnreachableCollected`, `BabelInv`, `SpfInv`, and `RipDistancesFound`, `BabelSilentDropped` while time passes |
| `platform` | nine files, two reloads, a failing engine, a query; five routes, four lost replies, one link change; nine multicast scenarios | `DaemonInv`, `NetlinkInv`, `McInv` |
| `daemon_reload` (violation) | a good file, and one whose OSPF section does not build | `BadReloadKeepsRunning` |

What the compound invariants say:

* `BgpInv`: routes are kept only for sessions and restarting neighbours
  (`RoutesOwned`), the Adj-RIB-In is what each neighbour last said
  (`AdjRibInCurrent`), peers and router hold the selection (`PeersFollowBest`),
  ADD-PATH identifiers are never shared (`AddPathFresh`), the selection does not
  depend on the order of arrival (`SelectionOrderFree`).
* `ServicesInv`: an installed MAC or prefix has an offer behind it, a monitor that
  kept up mirrors the table, an only offer is reflected, the preferred policy is
  the installed one. `UpdatesSound`: a broken UPDATE withdraws what it names, only
  harmless faults are ignored, AS_PATHs are rebuilt. `RtrInv`: what BGP is given is
  a set the cache has held, and the current one when nothing is under way.
* `OspfInv`, `Ospf3Inv`: at rest, neighbours are adjacent, agree on the DR and hold
  equal databases; an adjacency's lists die with it; prefixes and externals are
  advertised by exactly whoever has them. `IsisInv`: only a router with neighbours is
  DIS; at rest (nothing in flight, Hellos and databases agree) every LAN has exactly
  one, and neighbours hold each router's LSP at the number its originator is at.
* `HierarchyInv`: routes between areas and levels lead to a live origin, without
  loops, and every reachable network is reached; intra-area routes come first.
* `SpfInv`: distances, next hops and equal-cost sets equal the declarative ones.
* `DaemonInv`: one generation per engine, of the configuration in force; goodbyes
  awaited; BGP's neighbours those of the last accepted file. `NetlinkInv`: an answer
  reported is true of the kernel, foreign routes stay, a restart clears what the
  last instance left. `McInv`: members are served, nobody else is, upstream and the
  kernel agree, one querier per LAN.

Bounds. Channels of length 1 with a batch of 1 more update already let a second
update of the same or another prefix arrive during a batch, wait behind a
reload, and be coalesced; a longer channel only repeats these cases. Two
configurations are enough for every difference of a reload (static added,
redefined, removed; filters turned on and off), since a reload looks only at
the current and the next one. In `ha`, a lease of one tick with no margin is the
tightest case: every tick is a boundary between two holders. Term 2 allows one
takeover, and the witness may restart without bound. In `vrrp`, host 1 loses and
regains its address, and host 2's tracked interface lowers its priority from
above host 1's to exactly the same, so preemption, yielding and the tie-break all
happen; interval 1 is the smallest that makes the skew differ from the interval,
and a full inbox drops what a longer one would delay. Overlapping generations are
left to the proof. In `bfd`, interval 2 against a slow start of 3 makes the rate
change when a session comes up, 75 and 90 percent are the extremes of the jitter,
multiplier 1 allows no loss and 2 allows one; channels of length 1 fill with the
first entry. RIP and Babel need a third router for a route that is relayed and
for a loop; infinity 4 and 5 lie one beyond the longest path that counts. The
link-state runs have two routers, enough for every neighbour state, for both roles
of the database exchange and for an instance that meets an older and a newer one;
the relaying of a third router's LSA is only in `areas`, as a change of the
database. The budgets let each kind of event happen once, at any moment, on every
link type. The neighbours of `bgp` are chosen so that three paths compare in a
circle under MED, which is what deterministic MED exists for. The proofs have none
of these bounds.

Fairness (`router_fib`). tokio's `select!` polls its arms in random order and
the reconcile interval keeps ticking, so an arm that is ready again and again is
eventually taken: strong fairness of each arm. Within a handler the task only
waits for a worker that answers: weak fairness of draining and programming.
Nothing is assumed of engines, operators, clients, or of writes succeeding; the
property speaks of the executions in which disturbances and failures stop.

Fairness (`vrrp`). Each arm of the loop stays ready until taken, and time passes:
weak fairness of `Receive`, `Timer`, `Poll`, `Stop` and `Tick`. Starts, signals and
the environment have none. `ElectionSettles` speaks of executions in which from
some point on nothing is killed, started, stripped, readdressed, lost or late and
installs succeed. A step counts as a refused install or a loss only when it differs
from the undisturbed step of the same arm (`Refused`): otherwise every periodic
advertisement would be one, and the property would say nothing.

Fairness (`bfd`). Time passes without end: `[]<><<Tick>>_vars`. As `Tick` waits for
the due deadlines, the packets and the commands, this says that the loops run and
that the link delivers or loses what it was given; nothing is assumed of consumers,
of the link's failures or of reloads. `SessionsForm` speaks of executions that from
some point on lose nothing and keep both ends registered.

Fairness (`bgp_session`). Tasks are polled, timers fire, a connector redials after
its delay and the path heals: weak fairness of `Read`, `HoldExpires`, `Command`,
`Dial`, `Central`, `Teardown` and `Heal`. Faults have a budget and no fairness.
`Settled` excuses executions in which a write failed or a live session was evicted.

Fairness (`routes`). Time passes, as in `bfd`; `Tick` waits for what is due.
`RipDistancesFound` speaks of executions in which failures, restarts and
redistribution stop; `BabelSilentDropped` of links that stay down.

## 5. Proofs

* `RouterProof`
  * `BestIsCandidate`: best-path selection returns a candidate and is defined exactly
    for non-empty lists (from well-foundedness of the least index); announcing and
    withdrawing keep a list of routes of the key.
  * `TypeCorrect`: `TypeOK`, for every set of routes, configurations, channel
    capacities. Needed by all the others; the one part that is not routine is
    that filters keep identity, so a candidate stays under its key.
  * `ExportedIsForwarded`: `ExportedInKernel`, whenever writes are acknowledged
    (`"unacked" \notin Faults`) and statics are plain, i.e. untouched by the VRF
    and kernel-export filters and not defined twice.
  * `NothingOrphaned`, `ForwardingConverges`: `NoOrphans` and `Converged` when
    only installs may be refused. The inductive invariant is
    `SyncInv = TypeOK /\ PlaneIsExported /\ WorkIsCurrent /\ SettledOrWaiting`:
    `Converged` alone speaks only of idle states, so the strengthening says what
    a pending change is (the best path's desired state) while a batch is open.
  The assumptions are not conveniences: with refused removes `NoOrphans` fails, and
  with statics that are not plain `ExportedInKernel` does; section 6 says how.
  For the router's other outputs:
  * `StreamsMirror`: `SubscriberMirrors`, unconditionally. `MirrorInv` adds to the
    types what the mirror is worth in the middle of a snapshot: every programmed key
    is either in the view or still to be dumped (`DumpMatches`, `SentSoFar`).
  * `StaticsStayTracked`: `StaticsTracked`, unconditionally. `TrackInv` adds that a
    key has one static owner, which an announcement replaces in place.
  * `RedistributionCurrent`: `RedistCurrent` under `OneTable` and `SameStatics`.
    `RedistInv` adds that pending changes are the best path's (`WorkIsCurrent`), so a
    target is behind only for keys with work. Both hypotheses are needed: messages to
    the engines carry no table, and `reload_statics` does not redistribute (section 6).
* `HaProof`: `AuthorityExclusive`, `GrantsAreDurable` and `NobodyTakesOverEarly`,
  for every lease length, margin, policy set, number of restarts and of terms,
  and with any mixture of failed writes. The inductive invariant `HaInv` adds to
  the types that the engine's generation never trails the file (`OnDisk`), that
  the file's lease bounds the present one (`LeaseOnFile`), that no known term is
  beyond the file or the engine (`TermsOnFile`), and `Covered`: any time a member
  holds, or is about to hold through an answer under way, is covered by the
  witness's own expiry (if up) or by the quarantine the next start would set.

* `VrrpProof`: `VrrpTyped`, `TimersFollowState` and `AddressHeldByMaster`, for any
  set of hosts and generations, priorities, intervals, queue length and faults.
  The three properties together are inductive. Every call a handler makes keeps
  its working copy `Sound` (typed, its timer that of its state, its address held
  only with a Master behind it - this process or, while generations overlap,
  another of the host), and `CommitInv` carries that over to the system.
* `BfdProof`: `BfdTyped`, `SessionsWatched` and `FallsReported`, for any intervals,
  multipliers, jitter, Echo settings, consumers, registrations and channel lengths.
  The three properties together are inductive: that a fall is reported needs that
  only a live session is Up (part of `Watched`), and that an Up session is watched
  needs the types of what packets carry. The lemmas `Received`,
  `Handled` and `Passes` follow one session through an arm and the two passes behind
  it, and `Service` says who is told.

  For any intervals, multipliers and jitter:
  * `AlarmsAtKnownPace`: `NoFalseAlarm`, as long as an end that is Up reckons with a
    rate no faster than the one its neighbour sends at (`PaceKnown`). `RatesInv` says
    that the packets on the link carry the rate of their state and that no end waits
    longer than its pace; `TimingInv` is the countdown: while fewer packets than the
    multiplier are missing, the detection time outlasts the units for the rest plus the
    neighbour's wait for the next one.
  * `AlarmsGenuine`: `PaceKnown` itself, and so `NoFalseAlarm`, without a slow start
    or with one packet under way each way (`HandshakeInv`: what an end of a forming
    session has heard and what is on the link). The hypothesis is needed: with two
    packets under way, multiplier 4 and a slow rate of 10 units, TLC finds both ends
    re-registering within a unit, one taking an Up packet of the earlier session
    (`on_receive` does not compare `your_discr`), reckoning with the fast rate while
    the other still sends at the slow one, and an alarm after a single loss.
* `RipProof`: `RipTyped`, `FeedFollowsTable` and `GarbageIsUnreachable`, for any
  routers, networks, segments and timers. The three together are inductive (`RipInv`):
  the feed is right only because a route is collected exactly at metric infinity, and
  that only because metrics stay within 1 to 16. A response, a sweep and a BFD failure
  change many routes at once; the lemmas follow one prefix through each.

* `IsisProof`, `DatabaseKept` and `IsisImplements`: the refinement of `LinkStateDb` by
  one level of IS-IS, for any routers, links, DIS priorities, checksums, fragment
  sizes and budgets of losses, stops, changes and BFD failures. From
  `IsisAssumption` only: finitely many System IDs, LANs and point-to-point links
  between them, priorities and checksums that are numbers. The inductive invariant `DbInv` adds to the types
  that a stopped engine has an empty database (`Idle`, so that a restart replaces
  nothing) and that no instance, held *or on its way*, is more recent than the one on
  record (`Recorded`, so that what a PDU brings in is never ahead of `issued`). The
  argument: every handler either has to do with the LSPs of its own system and makes
  at most one new instance of each (`Step`, which composes over a Hello's election,
  pseudonode and LSP), or takes up the one instance it received (`Learns`); a lapsed
  copy is the only third case. Each of the twelve actions is then `Progress` of one
  router, and `DbStep` turns `Progress` into a step of `LinkStateDb`. That
  `cmp_recency` is the order of ISO 10589 7.3.16 (`MoreRecent`) and a total order is
  the lemma `Recency`.

  `IsisSettles`: `IsisInv`, on top of it. TLC sees two routers on one link; the theorem
  any number of routers on any number of LANs. `OneDis` and `LspReclaimed` speak of
  states at rest only, so the inductive invariant `RestInv` says what holds on the way
  there: on every LAN a router is DIS exactly if it has up neighbours and wins the
  election among itself and them (`Elects`), and its own LSP in its database has the
  number it is at (`Current`). The first is why `dis_election_input_changed` may leave
  the election out when no candidate changed (`Relisted`); the second why an LSP of
  ours with the same number may be installed and a higher one must be reclaimed. At
  rest a Hello repeats what is known, so all members have the same candidates
  (`SeeEachOther`) and hence one winner.

* `DaemonProof`: `DaemonSafe`, which is `DaemonInv`, and `UnchangedEngineKept`, for any
  set of configuration files, any capacity of the BGP engine's channel and any number
  of edits, reloads, failures and queries (`CapAssumption`, `BudgetsAssumption`). The
  inductive invariant adds to `DaemonInv` that a slot which runs holds a generation of
  its own engine (`SlotsCoherent`, so that stopping it stops no other) and what main
  relies on in each phase (`PhaseInv`: during start-up the engines already passed follow
  the file and the rest are stopped, no reload overlaps it, and no shutdown has been
  signalled while main runs). The argument: `apply_reload` treats the slots one after
  the other; each plan leaves its slot following the new configuration, and the others
  as they were (`ApplySlotFollows`), so that after the last one every slot follows it
  (`ApplyFollows`). For BGP, the neighbours in force and the deltas in the queue give
  main's baseline: a delta put last changes the result as it changes a set
  (`ResultingAppend`), and taking the first one up changes nothing (`ResultingTail`).
  `UnchangedEngineKept` says in terms of steps what `reload.rs` promises of "unaffected
  engines": one that runs under the signature the configuration gives it keeps its
  generation.

* `BgpSessionProof`, `SessionsAgree`: `SessionInv`, for two speakers with any
  Identifiers, OPENs, connection slots, queue length and budgets of route changes,
  cuts, resets and one failed write, from `SpeakerAssumption`, `ConnAssumption`,
  `BudgetsAssumption`. TLC sees two connections and one fault at a
  time. `SameVerdict` speaks of states in which everything has been read, so the
  inductive invariant says what is in which queue before. `WireInv`: an end whose peer
  is gone has a FIN to read (`Closing`), an end that is not Established has something
  to read now or once its peer has read its OPEN (`Handshake`), an OPEN is only ever
  first (`OpenFirst`), and a reset leaves the error alone on the wire (`AtReset`).
  `BooksInv`: an Established connection is the one in use, or its Established report or
  a Shutdown is queued (`Known`), one that is not Established is unknown to the central
  task (`Unknown`), reports and commands come in order (`Ordered`, `Commanded`), and at
  most one connection in use has lost its task without a Down, to the failed write
  (`OneLost`). In a quiet state every live task is then Established and in use at both
  ends; if the session one speaker holds had lost its task, the other's has not, and is
  in use at both. Every step of a task is one of two shapes, it ends (`EndsBook`) or goes
  on (`GoesBook`); `Machine` evaluates the FSM, and each shape keeps the invariant once.
  The theorem is `Spec /\ []Kept => []SessionInv`, where `Kept` says that no session is
  evicted while its task lives. The hypothesis is needed: an eviction does not end the
  task, and with a queue of 1 TLC finds the two speakers on different connections after
  two evictions during a collision (section 6). Sessions whose task has ended may be
  evicted at any time. Trying the proof without the hypothesis is what showed that an
  eviction requested for one connection can meet the next.

Only model-checked:

* liveness, which needs fairness: `EventuallySettled`, `ElectionSettles`,
  `SilenceNoticed`, `SessionsForm`, `Settled`, `RipDistancesFound`,
  `BabelSilentDropped`;
* what rests on folds over sequences, whose value for every sequence is an induction
  over data: `ScanFindsBest` (`BestByScan` against `Best`), `BabelInv`,
  `BgpInv`, `ServicesInv`, `UpdatesSound`; and `RtrInv`, whose module is recursive;
* `SpfInv` and `HierarchyInv`: shortest paths, an induction over the length of paths;
* `ImplementsDb` of OSPFv2 and OSPFv3 (the `ospf` run), `OspfInv`, `Ospf3Inv`,
  `NetlinkInv`, `McInv`: within the prover's reach in part, not attempted yet.

## 6. Where the code departs from what it says

With a run: `daemon_reload` - a reload whose file parses but whose engine section
does not build stops the running engine and starts nothing in its place.

Met while modelling. Each is behaviour of the code that a comment, a document or a
reader's expectation contradicts; the models follow the code, and the properties are
stated for what it does do.

Router and start-up:

* a refused remove is dropped from `exported` before it is retried
  (`router.rs:766`, comments at 340 and 785), so `NoOrphans` holds only while removes
  succeed; a connected route that wins leaves the loser programmed (`router.rs:710`);
  `reload_statics` never redistributes (`router.rs:448`, `architecture.md:43`);
* the set of routes kept at start-up is computed before the VRF import route-map, so
  a static that the map rejects stays in the kernel; `exported` is seeded with
  statics that the VRF export map rejected; a static defined twice is recorded by its
  first definition and forwarded by its last; statics seeded at start-up bypass the
  `[export] kernel` filter;
* redistribution drops the table, so a best-path change in a VRF replaces what the
  main table originated for the same prefix (`docs/src/vrf.md:12`);
* `apply_reload` awaits bounded channels inside the select that polls the router
  (`main.rs:2126`).

Daemon:

* `wren check` and `reload_config` build neither OSPF, IS-IS, Babel, VRRP nor RIP
  (`getting-started.md:71`), nor `build_vrf_infos` on a reload;
* an engine that ended by itself keeps its slot, so an unchanged SIGHUP never
  restarts it; engines that a reload stops withdraw nothing from the RIB
  (`reload.rs:22`, `monitoring.md:105`), and a restarted one has lost its
  redistribution and `show` wiring; the goodbye of a stopped generation is not
  awaited at shutdown;
* a RIP instance in an unknown VRF aborts start-up after others are running; an
  enabled engine that does not build leaves `show` waiting for ever, and the BGP
  reload queue of 16 then blocks `apply_reload`; a removed VRRP answers "reloading".

HA, VRRP, BFD:

* the budget of `lib.rs:82` covers three exchanges and two polls only by its margin;
  a witness fenced after a failed write answers with a generation that is not on
  disk, harmless for exclusivity;
* a Master that is killed restarts as Backup with the address still installed
  (`vrrp.rs:308`, `vrrp.md:25`); `vrrp.md:97` describes a fallback for a missing
  `address-interface` that `vrrp.rs` does not have; an address owner demoted by
  tracking and configured without preemption does not preempt; a preempting router
  whose install keeps failing takes and leaves mastership for ever; an old
  generation's goodbye can remove the address a new one has just assumed;
* a restarted engine registers a BFD sender whose receiver is gone (`main.rs:1217`,
  `bfd.md:56`); a detection deadline that elapses while Down is not cleared; the
  last authenticated sequence number outlives a failure; Echo with multiplier 1 has
  its deadline just when the next return is due.

RIP and Babel:

* `add_redistributed` overwrites a learned entry silently; a withdrawn redistributed
  prefix ignores neighbours until its garbage timer ends;
* Babel can keep a loop for ever (`babel.md:10`, `babel.rs` near 622): feasibility
  distances are never reset, sequence numbers never advance; a route's `feasible` flag
  is set when the route arrives and stands when the distance falls later
  (`table.rs:189`), and an update of the selected route is feasible by definition, its
  metric however large, so that `NearerToOrigin` speaks only of metrics the condition
  admits; relayed routes that are lost are not retracted, and a relayed metric stays
  stale after a fallback.

OSPF and IS-IS:

* both ends of a broadcast adjacency can become master (`ospf.rs:1183`,
  `ospf.md:39`); database descriptions are not retransmitted in Exchange; LSAs at
  MaxAge are never removed, or removed without flooding; Link State Updates and
  Requests are taken before Exchange; acknowledgements are matched by sequence number only;
  sequence numbers wrap at the maximum; a declared DR that changes raises no
  NeighborChange; leaving Full does not re-originate; summaries are made only of
  backbone intra-area routes, translation ignores the P bit (`ospf.md:257`), and two
  border routers can summarise each other's routes in a loop;
* OSPFv3 externals are not re-flooded at refresh (`ospf3.rs` near 493), its own
  Link-LSA is not reclaimed after a restart, `ospfv3.md:20` says there is no
  authentication; OSPFv3 and IS-IS do not settle networks before routers at equal
  cost (`ospfv3.md:87`, `isis.md:120`), and v3 lets E2 compete with E1;
* IS-IS LAN members do not point at the pseudonode (`isis.md:110`), expired LSPs are
  never removed, a purge of an unknown LSP is stored, equal sequence numbers with
  another checksum are kept, leaking includes externals (`isis.rs:1750`) and can
  loop, and the attached bit goes stale.

BGP:

* a write error loses the Down report (`bgp.md:1015`, `bgp.rs` near 5490); a late
  UPDATE of a collision's loser is applied after its Down; `read_message` is not
  cancel-safe;
* eviction does not end the session's task, which keeps a sender of its own channel,
  while the comment at `bgp.rs:2159` says "Dropping its Sender closes the session's
  command channel, so the session tears itself down". The request waits in the
  `teardown` channel and names only the peer, so it can evict a newer session that
  lives: TLC reaches this with one route change, pushed to the loser of a collision
  whose task has ended. The speaker that evicted then pushes nothing over a connection
  its neighbour still uses, for as long as both live; `Settled` excuses executions in
  which this happens. With two evictions during a collision the speakers can come to
  use different connections; the theorem assumes `[]Kept`, and the run has one route
  change;
* a maximum-prefix teardown leaves service routes; the stale set is not refreshed by
  IPv4 over IPv6, and flushing uses path identifier 0; the loop checks skip the
  implicit withdraw; a new RTR set revalidates only best paths (`bgp.md:1122`); a
  peer keeps an advertisement that the rules no longer allow (`bgp.md:552`); an
  Update queued behind a removal by reconfiguration is installed for ever; ADD-PATH
  skips the OTC egress rule; reconfiguration cannot add passive peers;
* a malformed UPDATE without IPv4 NLRI is taken for End-of-RIB
  (`message.rs:573`, `bgp.rs:5435`); treat-as-withdraw ignores MP_REACH and
  MP_UNREACH;
* a Cache Reset that is read while another Serial Query is unanswered applies the
  delta to an emptied set; the session identifier is not checked;
* the services select in one pass; a reflected EVPN next hop is wrong when another
  peer's path becomes best; withdrawing an origination forgets a learned next hop.

Multicast and netlink:

* the membership feed is lossy; the change from any-source to source-specific leaves
  the shared tree joined; a kernel entry is not shrunk when a member expires
  (`pim.rs` near 390); the incoming interface is never updated;
* a blackhole is never read back by `dump_owned`; a delete may take a foreign route
  (`wren-netlink/src/lib.rs:554`); the metric is part of the kernel's identity of a
  route, so a replace with another metric adds one; a retried delete whose answer was
  lost reports ESRCH; reply sequence numbers are not checked.

## 7. Not modelled

Layouts of octets (LSAs, TLVs, BFD and VRRP packets, NLRI), authentication digests,
rendering of `show` output, metrics, logging, BMP export, the CLI, connected-route
discovery and the VPN agent: data and input/output, covered by unit tests and fuzz
targets. `PROJECT.json` gives the reason for each. In `Router` the engines are an
environment that announces and withdraws anything at any time, which allows more
than their own modules do. The `Fib` contract of `Router` is the one `Netlink`
checks for routes of one metric.
