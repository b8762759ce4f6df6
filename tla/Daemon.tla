------------------------------- MODULE Daemon -------------------------------
(***************************************************************************)
(* The life of the daemon process: main starts the engines one after       *)
(* another, SIGHUP re-reads the configuration and hands the delta to BGP   *)
(* and to the supervisor, the supervisor starts, stops and restarts engine *)
(* generations, a shutdown signal is relayed to every generation and main  *)
(* waits for their goodbyes; meanwhile the control socket forwards `show`  *)
(* queries to whoever owns the state.                                      *)
(*                                                                         *)
(* A generation is one task of one engine.  It watches its own stop flag,  *)
(* which the supervisor or the generation's shutdown relay sets, says      *)
(* goodbye and ends; it may also end by itself (an error or a panic).      *)
(* Static routes and filters go to the router, see Router.tla; what the    *)
(* BGP engine does with a neighbour delta is in Bgp.tla.                   *)
(***************************************************************************)
EXTENDS Config

CONSTANTS Files,        \* the configuration files the operator may write
          BGP_CAP,      \* capacity of the BGP reconfiguration queue (QUERY_QUEUE)
          Budgets       \* bounds: edits, SIGHUPs, engines that end by themselves,
                        \* control connections; a behaviour has one of these budgets

ASSUME CapAssumption == BGP_CAP \in Nat

Counters == [edits : Nat, reloads : Nat, failures : Nat, queries : Nat]

ASSUME BudgetsAssumption ==
  Budgets \subseteq Counters

VARIABLES file,      \* the configuration file on disk
          phase,     \* "start", "run", "stop" or "exit"
          at,        \* the position of main in MainOrder
          slot,      \* the supervisor's slots
          gens,      \* every engine generation spawned so far
          shutdown,  \* the daemon-wide shutdown signal
          late,      \* the grace window of the shutdown is over
          reload,    \* "idle", or where apply_reload stands
          applied,   \* the configuration accepted last
          bgp,       \* the BGP engine, its neighbours and its queue
          known,     \* the neighbour set main diffs against
          route,     \* the query channel the control socket uses per engine
          conn,      \* one control connection
          left       \* what is left of its budget

vars == <<file, phase, at, slot, gens, shutdown, late, reload, applied, bgp, known,
          route, conn, left>>

MainOrder == <<"vrrp", "rip", "ripng", "ospf", "ospf3", "bgp", "babel", "isis">>

Stopped == [running |-> {}, gen |-> 0]

\* The neighbour addresses of a configuration that has BGP enabled.
Peers(c) == IF c.bgp.enabled THEN {n.peer : n \in {x \in c.bgp.neighbor : ParseNeighborAddr(x)}}
                             ELSE {}

\* Query channel 0 is the one made before start-up: its receiver stays with main
\* until the engine is started and goes to the startup generation then.
NoChannel == [made |-> FALSE, to |-> 0]

StartupChannel == [made |-> TRUE, to |-> 0]

NoConn == [state |-> "idle", engine |-> "none", to |-> 0]

Signatures == [e \in Engines |-> {SigOf(c, e) : c \in Files}]

Addresses == UNION {Peers(c) : c \in Files}

Generations ==
  [engine : Engines, startup : BOOLEAN, stop : BOOLEAN, done : BOOLEAN, relay : BOOLEAN]

Deltas == [add : SUBSET Addresses, remove : SUBSET Addresses]

BgpStates == [state : {"none", "parked", "up", "ended"}, peers : SUBSET Addresses,
              queue : Seq(Deltas)]

Connections == [state : {"idle", "sent"}, engine : Engines \cup {"none"}, to : Nat]

TypeOK ==
  /\ file \in Files /\ applied \in Files
  /\ phase \in {"start", "run", "stop", "exit"}
  /\ at \in 1..(Len(MainOrder) + 1)
  /\ gens \in Seq(Generations)
  /\ DOMAIN slot = Engines
  /\ \A e \in Engines : slot[e] \in [running : SUBSET Signatures[e], gen : 0..Len(gens)]
  /\ shutdown \in BOOLEAN /\ late \in BOOLEAN
  /\ reload \in {"idle", "bgp", "engines"}
  /\ bgp \in BgpStates /\ Len(bgp.queue) <= BGP_CAP
  /\ known \subseteq Addresses
  /\ route \in [Engines -> [made : BOOLEAN, to : 0..Len(gens)]]
  /\ conn \in Connections /\ conn.to <= Len(gens)
  /\ left \in Counters

\* main up to the start of the first engine; a file that does not resolve ends
\* the process before anything is started, so no such state is modelled.
Init ==
  /\ file \in {c \in Files : StartupResolves(c)}
  /\ applied = file
  /\ phase = "start" /\ at = 1
  /\ slot = [e \in Engines |-> Stopped]
  /\ gens = <<>>
  /\ shutdown = FALSE /\ late = FALSE
  /\ reload = "idle"
  /\ bgp = [state |-> IF file.bgp.enabled THEN "parked" ELSE "none",
            peers |-> {}, queue |-> <<>>]
  /\ known = Peers(file)
  /\ route = [e \in Engines |-> IF Enabled(file, e) THEN StartupChannel ELSE NoChannel]
  /\ conn = NoConn
  /\ left \in Budgets

-----------------------------------------------------------------------------
(* The supervisor (reload.rs). *)

\* A fresh generation; its shutdown relay is subscribed when it is spawned.
Generation(e, startup) ==
  [engine |-> e, startup |-> startup, stop |-> FALSE, done |-> FALSE, relay |-> TRUE]

\* stop_slot: set the stop flag, abort the relay, forget the task.
StopSlot(s, e) ==
  LET g == s.slot[e].gen
  IN  [slot  |-> [s.slot EXCEPT ![e] = Stopped],
       gens  |-> IF g = 0 THEN s.gens
                 ELSE [s.gens EXCEPT ![g].stop = TRUE, ![g].relay = FALSE],
       route |-> s.route]

\* The respawn closure registered for VRRP replaces the route of the query
\* broker; the other engines keep the channel of their startup generation.
Respawned(s, c, e) ==
  IF e # "vrrp" THEN s.route[e]
  ELSE IF Builds(c, e) THEN [made |-> TRUE, to |-> Len(s.gens) + 1] ELSE NoChannel

\* spawn_generation: nothing is started when the configuration does not build.
SpawnGeneration(s, c, e) ==
  LET fresh == [running |-> {SigOf(c, e)}, gen |-> Len(s.gens) + 1]
  IN  [slot  |-> IF Builds(c, e) THEN [s.slot EXCEPT ![e] = fresh] ELSE s.slot,
       gens  |-> IF Builds(c, e) THEN Append(s.gens, Generation(e, FALSE)) ELSE s.gens,
       route |-> [s.route EXCEPT ![e] = Respawned(s, c, e)]]

\* plan_action.
PlanAction(running, sig) ==
  CASE running = {} /\ ~sig.enabled -> "none"
    [] running = {} /\ sig.enabled  -> "start"
    [] running # {} /\ ~sig.enabled -> "stop"
    [] running # {} /\ sig.enabled  -> IF running = {sig} THEN "none" ELSE "restart"

\* A slip, for the mutants: a restart that does not stop the old generation.
ApplySlotNoStop(s, c, e) ==
  LET action == PlanAction(s.slot[e].running, SigOf(c, e))
  IN  CASE action = "none"    -> s
        [] action = "stop"    -> StopSlot(s, e)
        [] action = "start"   -> SpawnGeneration(s, c, e)
        [] action = "restart" -> SpawnGeneration(s, c, e)

\* What a decision does to a slot.
Perform(action, s, c, e) ==
  CASE action = "none"    -> s
    [] action = "stop"    -> StopSlot(s, e)
    [] action = "start"   -> SpawnGeneration(s, c, e)
    [] action = "restart" -> SpawnGeneration(StopSlot(s, e), c, e)

\* Supervisor::apply for one slot.
ApplySlot(s, c, e) == Perform(PlanAction(s.slot[e].running, SigOf(c, e)), s, c, e)

\* Supervisor::apply: every slot in turn (their order shows in the numbering of the
\* generations only).
Apply(s, c) ==
  LET s1 == ApplySlot(s,  c, "vrrp")
      s2 == ApplySlot(s1, c, "rip")
      s3 == ApplySlot(s2, c, "ripng")
      s4 == ApplySlot(s3, c, "ospf")
      s5 == ApplySlot(s4, c, "ospf3")
      s6 == ApplySlot(s5, c, "babel")
  IN  ApplySlot(s6, c, "isis")

Supervised == [slot |-> slot, gens |-> gens, route |-> route]

-----------------------------------------------------------------------------
(* Start-up. *)

\* main reaches the block of an engine of the supervisor: it is skipped when it
\* is off or (all but RIP) does not build; RIP in an unknown VRF fails main,
\* which ends the process with the engines started so far.
StartEngine ==
  /\ phase = "start" /\ at <= Len(MainOrder) /\ MainOrder[at] # "bgp"
  /\ LET e == MainOrder[at]
         g == Len(gens) + 1
     IN  \/ /\ Enabled(file, e) /\ Builds(file, e)
            /\ gens' = Append(gens, Generation(e, TRUE))
            /\ slot' = [slot EXCEPT ![e] = [running |-> {SigOf(file, e)}, gen |-> g]]
            /\ at' = at + 1
            /\ UNCHANGED phase
         \/ /\ ~(Enabled(file, e) /\ (Builds(file, e) \/ e = "rip"))
            /\ at' = at + 1
            /\ UNCHANGED <<gens, slot, phase>>
         \/ /\ e = "rip" /\ Enabled(file, e) /\ ~Builds(file, e)
            /\ phase' = "exit"
            /\ UNCHANGED <<gens, slot, at>>
  /\ UNCHANGED <<file, shutdown, late, reload, applied, bgp, known, route, conn, left>>

\* The BGP block: a configuration that does not build leaves the receivers of
\* its channels with main.
StartBgp ==
  /\ phase = "start" /\ at <= Len(MainOrder) /\ MainOrder[at] = "bgp"
  /\ bgp' = IF file.bgp.enabled /\ BuildBgpConfig(file, file.bgp)
            THEN [bgp EXCEPT !.state = "up", !.peers = Peers(file)]
            ELSE bgp
  /\ at' = at + 1
  /\ UNCHANGED <<file, phase, slot, gens, shutdown, late, reload, applied, known, route,
                 conn, left>>

\* The engines are registered with the supervisor and the signal loop begins.
Ready ==
  /\ phase = "start" /\ at > Len(MainOrder)
  /\ phase' = "run"
  /\ UNCHANGED <<file, at, slot, gens, shutdown, late, reload, applied, bgp, known, route,
                 conn, left>>

-----------------------------------------------------------------------------
(* Reload. *)

\* The operator edits the file (main has read it before the first engine).
Edit(c) ==
  /\ phase = "run" /\ left.edits > 0 /\ c # file
  /\ file' = c
  /\ left' = [left EXCEPT !.edits = @ - 1]
  /\ UNCHANGED <<phase, at, slot, gens, shutdown, late, reload, applied, bgp, known,
                 route, conn>>

\* SIGHUP: reload_config; a file that does not resolve is dropped.
Sighup ==
  /\ phase = "run" /\ reload = "idle" /\ left.reloads > 0
  /\ left' = [left EXCEPT !.reloads = @ - 1]
  /\ IF ReloadConfig(file) THEN reload' = "bgp" /\ applied' = file
                           ELSE UNCHANGED <<reload, applied>>
  /\ UNCHANGED <<file, phase, at, slot, gens, shutdown, late, bgp, known, route, conn>>

\* A slip, for the mutants: the baseline of the neighbour diff is not moved.
ReloadBgpForgets ==
  /\ reload = "bgp"
  /\ LET new   == Peers(applied)
         delta == [add |-> new \ known, remove |-> known \ new]
         live  == bgp.state # "none" /\ applied.bgp.enabled
     IN  bgp' = IF live /\ bgp.state # "ended" /\ Len(bgp.queue) < BGP_CAP
                THEN [bgp EXCEPT !.queue = Append(@, delta)] ELSE bgp
  /\ reload' = "engines"
  /\ UNCHANGED <<file, phase, at, slot, gens, shutdown, late, applied, known, route, conn,
                 left>>

\* The neighbour delta: sent when BGP was enabled at start-up and still is;
\* main waits for room in the queue and moves its baseline only after a send.
ReloadBgp ==
  /\ reload = "bgp"
  /\ LET new   == Peers(applied)
         delta == [add |-> new \ known, remove |-> known \ new]
         live  == bgp.state # "none" /\ applied.bgp.enabled
         quiet == delta.add = {} /\ delta.remove = {}
     IN  \/ /\ ~live \/ quiet
            /\ UNCHANGED <<bgp, known>>
         \/ /\ live /\ ~quiet /\ bgp.state = "ended"
            /\ UNCHANGED <<bgp, known>>
         \/ /\ live /\ ~quiet /\ bgp.state # "ended" /\ Len(bgp.queue) < BGP_CAP
            /\ bgp' = [bgp EXCEPT !.queue = Append(@, delta)]
            /\ known' = new
  /\ reload' = "engines"
  /\ UNCHANGED <<file, phase, at, slot, gens, shutdown, late, applied, route, conn, left>>

\* supervisor.apply.
ReloadEngines ==
  /\ reload = "engines"
  /\ LET s == Apply(Supervised, applied)
     IN  slot' = s.slot /\ gens' = s.gens /\ route' = s.route
  /\ reload' = "idle"
  /\ UNCHANGED <<file, phase, at, shutdown, late, applied, bgp, known, conn, left>>

\* The BGP engine takes a neighbour delta.
BgpReconfig ==
  /\ phase # "exit" /\ bgp.state = "up" /\ bgp.queue # <<>>
  /\ LET d == Head(bgp.queue)
     IN  bgp' = [bgp EXCEPT !.peers = (@ \ d.remove) \cup d.add, !.queue = Tail(@)]
  /\ UNCHANGED <<file, phase, at, slot, gens, shutdown, late, reload, applied, known,
                 route, conn, left>>

-----------------------------------------------------------------------------
(* Generations and their relays. *)

Alive(g) == phase # "exit" /\ ~gens[g].done

\* The relay sees the daemon-wide signal and passes it on ...
RelayFires(g) ==
  /\ phase # "exit" /\ gens[g].relay /\ shutdown
  /\ gens' = [gens EXCEPT ![g].stop = TRUE, ![g].relay = FALSE]
  /\ UNCHANGED <<file, phase, at, slot, shutdown, late, reload, applied, bgp, known,
                 route, conn, left>>

\* ... or ends because its generation has.
RelayReleased(g) ==
  /\ phase # "exit" /\ gens[g].relay /\ ~shutdown /\ gens[g].done
  /\ gens' = [gens EXCEPT ![g].relay = FALSE]
  /\ UNCHANGED <<file, phase, at, slot, shutdown, late, reload, applied, bgp, known,
                 route, conn, left>>

\* The engine sees its stop flag, says goodbye and ends.
EngineStops(g) ==
  /\ Alive(g) /\ gens[g].stop
  /\ gens' = [gens EXCEPT ![g].done = TRUE]
  /\ UNCHANGED <<file, phase, at, slot, shutdown, late, reload, applied, bgp, known,
                 route, conn, left>>

\* The engine ends by itself: run returned an error, or the task panicked.
EngineFails(g) ==
  /\ Alive(g) /\ ~gens[g].stop /\ left.failures > 0
  /\ gens' = [gens EXCEPT ![g].done = TRUE]
  /\ left' = [left EXCEPT !.failures = @ - 1]
  /\ UNCHANGED <<file, phase, at, slot, shutdown, late, reload, applied, bgp, known,
                 route, conn>>

\* The BGP engine ends: on the shutdown signal, or by itself.
BgpEnds ==
  /\ phase # "exit" /\ bgp.state = "up"
  /\ shutdown \/ left.failures > 0
  /\ bgp' = [bgp EXCEPT !.state = "ended"]
  /\ left' = IF shutdown THEN left ELSE [left EXCEPT !.failures = @ - 1]
  /\ UNCHANGED <<file, phase, at, slot, gens, shutdown, late, reload, applied, known,
                 route, conn>>

-----------------------------------------------------------------------------
(* Shutdown. *)

\* SIGINT or SIGTERM, seen by the signal loop.
Signal ==
  /\ phase = "run" /\ reload = "idle"
  /\ phase' = "stop" /\ shutdown' = TRUE
  /\ UNCHANGED <<file, at, slot, gens, late, reload, applied, bgp, known, route, conn, left>>

\* The grace window of GRACEFUL_SHUTDOWN_SECS passes.
GraceElapses ==
  /\ phase = "stop" /\ ~late
  /\ late' = TRUE
  /\ UNCHANGED <<file, phase, at, slot, gens, shutdown, reload, applied, bgp, known, route,
                 conn, left>>

\* A slip, for the mutants: the generations of a reload are not awaited.
AwaitedStartup(g) == gens[g].startup

\* The tasks main waits for: the startup generations (proto_handles) and, in
\* join_all, the generations the slots still hold.
Awaited(g) == gens[g].startup \/ g \in {slot[e].gen : e \in Engines}

\* main returns; the runtime drops every task that is left.
Exit ==
  /\ phase = "stop"
  /\ late \/ (bgp.state # "up" /\ \A g \in DOMAIN gens : Awaited(g) => gens[g].done)
  /\ phase' = "exit"
  /\ UNCHANGED <<file, at, slot, gens, shutdown, late, reload, applied, bgp, known, route,
                 conn, left>>

-----------------------------------------------------------------------------
(* The control socket. *)

\* Who holds the receiver of the channel the query went to: 0 is main.
Owner(e, to) ==
  IF to # 0 THEN to
  ELSE IF \E g \in DOMAIN gens : gens[g].engine = e /\ gens[g].startup
       THEN CHOOSE g \in DOMAIN gens : gens[g].engine = e /\ gens[g].startup
       ELSE 0

\* handle_conn and ask_opt: an engine without a channel is reported as not
\* enabled at once, any other query is sent and its answer awaited.
Show(e) ==
  /\ phase \in {"start", "run", "stop"} /\ conn.state = "idle"
  /\ left.queries > 0
  /\ left' = [left EXCEPT !.queries = @ - 1]
  /\ conn' = IF route[e].made
             THEN [state |-> "sent", engine |-> e, to |-> route[e].to]
             ELSE NoConn
  /\ UNCHANGED <<file, phase, at, slot, gens, shutdown, late, reload, applied, bgp, known,
                 route>>

\* The owner answers, or is gone and the channel with it ("unavailable").
Answered ==
  /\ phase # "exit" /\ conn.state = "sent"
  /\ Owner(conn.engine, conn.to) # 0
  /\ conn' = NoConn
  /\ UNCHANGED <<file, phase, at, slot, gens, shutdown, late, reload, applied, bgp, known,
                 route, left>>

-----------------------------------------------------------------------------

Next ==
  \/ StartEngine \/ StartBgp \/ Ready
  \/ \E c \in Files : Edit(c)
  \/ Sighup \/ ReloadBgp \/ ReloadEngines \/ BgpReconfig
  \/ \E g \in DOMAIN gens : RelayFires(g) \/ RelayReleased(g) \/ EngineStops(g) \/ EngineFails(g)
  \/ BgpEnds
  \/ Signal \/ GraceElapses \/ Exit
  \/ \E e \in Engines : Show(e)
  \/ Answered

Spec == Init /\ [][Next]_vars

-----------------------------------------------------------------------------
(* Properties. *)

\* At most one generation of an engine has not been told to stop, and it is the
\* one its slot holds: a reload never leaves two tasks of an engine running.
OneGeneration ==
  \A g \in DOMAIN gens : ~gens[g].stop /\ ~gens[g].done => slot[gens[g].engine].gen = g

\* A slot never runs under another signature than the accepted configuration's,
\* runs when that configuration enables an engine that builds, and is stopped
\* when it is not enabled.
SlotFollowsConfig ==
  phase = "run" /\ reload = "idle" =>
     \A e \in Engines :
        LET running == slot[e].running
        IN  /\ running \subseteq {SigOf(applied, e)}
            /\ Enabled(applied, e) /\ Builds(applied, e) => running # {}
            /\ ~Enabled(applied, e) => running = {}

\* main leaves within the grace window only after every generation that was
\* running when the signal came, whoever started it, has said goodbye.
GoodbyesAwaited ==
  phase = "exit" /\ shutdown /\ ~late =>
     /\ bgp.state # "up"
     /\ \A e \in Engines : slot[e].gen # 0 => gens[slot[e].gen].done

\* The neighbours a queue of deltas leaves of a set: a neighbour is there at the
\* end when no delta after its last addition removes it.
Survives(p, i, queue) == \A j \in DOMAIN queue : j > i => p \notin queue[j].remove

Resulting(peers, queue) ==
  {p \in peers : Survives(p, 0, queue)}
  \cup UNION {{p \in queue[i].add : Survives(p, i, queue)} : i \in DOMAIN queue}

\* The neighbours of the BGP engine and the deltas still in its queue add up to
\* the set main diffs the next reload against.
PeersInSync == bgp.state = "up" => known = Resulting(bgp.peers, bgp.queue)

\* The type invariant and the four together.
DaemonInv ==
  TypeOK /\ OneGeneration /\ SlotFollowsConfig /\ GoodbyesAwaited /\ PeersInSync

\* "A reload that fails to parse or resolve is logged and dropped, keeping the
\* running configuration" (apply_reload): no reload stops an engine that the new
\* file still enables.
BadReloadKeepsRunning ==
  [][\A e \in Engines : slot[e].running # {} /\ slot'[e].running = {}
                          => ~Enabled(applied, e)]_vars
=============================================================================
