------------------------------- MODULE Router -------------------------------
(***************************************************************************)
(* The router task of wren-daemon (router.rs) with the start-up sequence   *)
(* of main.rs that precedes it: the single owner of the RIB, which folds   *)
(* the updates of every protocol engine into it, programs the forwarding   *)
(* plane with the net best-path changes, retries failed writes on a timer, *)
(* streams the installed routes to subscribers, redistributes best paths   *)
(* into the engines and reloads static routes and filters on SIGHUP.       *)
(*                                                                         *)
(* The task is single-threaded, so between two of its awaits only its      *)
(* environment moves.  A handler that writes the forwarding plane several  *)
(* times is a phase (`pc`) with one step per prefix.  The forwarding plane *)
(* is the `Fib` trait of wren-core: an install replaces the route of its   *)
(* (table, prefix), a remove drops it, and a write may fail.  Filters and  *)
(* route-maps are functions from routes to the rewritten route or NoRoute. *)
(***************************************************************************)
EXTENDS Rib

CONSTANTS
    EngineRoutes,        \* the routes the protocol engines announce
    Configs,             \* the configurations the operator may load
    Targets,             \* redistribution targets, named by their protocol
    Sources,             \* Sources[t]: the protocols target t redistributes
    RedistFilter,        \* RedistFilter[t]: the export filter of target t
    Subscribers,         \* clients of `wren monitor routes`
    Faults,              \* which forwarding-plane writes may fail: see WriteResults, StuckSets
    UPDATE_QUEUE,        \* capacity of the update channel
    RELOAD_QUEUE,        \* capacity of each of the two reload channels
    MAX_COALESCE_BATCH,  \* updates drained after the first before programming
    SUBSCRIBER_CAP       \* capacity of a subscriber's channel

Filters == [Routes -> Routes \cup {NoRoute}]

\* A filter rewrites metric, preference and attributes, never a route's identity.
KeepsIdentity(f) ==
    \A r \in Routes : f[r] # NoRoute => /\ KeyOf(f[r]) = KeyOf(r)
                                        /\ Owner(f[r]) = Owner(r)

\* A resolved configuration file: its static routes in file order, the VRF
\* route-maps, and the import and kernel-export filters.
ConfigShape == [statics: Seq({r \in Routes : r.protocol = "static"}),
                vrf_imports: Filters, vrf_exports: Filters,
                imports: Filters, fib_export: Filters]

ASSUME EngineAssumption ==
    EngineRoutes \subseteq {r \in Routes : r.protocol # "static"}
ASSUME ConfigsAssumption ==
    /\ Configs \subseteq ConfigShape
    /\ \A c \in Configs :
        /\ KeepsIdentity(c.vrf_imports) /\ KeepsIdentity(c.vrf_exports)
        /\ KeepsIdentity(c.imports) /\ KeepsIdentity(c.fib_export)
        /\ \A i \in DOMAIN c.statics : c.statics[i].source = 0
ASSUME TargetsAssumption ==
    /\ Targets \subseteq Protocols
    /\ Sources \in [Targets -> SUBSET Protocols]
    /\ RedistFilter \in [Targets -> Filters]
ASSUME FaultsAssumption == Faults \subseteq {"install", "remove", "unacked", "reconcile"}
ASSUME BoundsAssumption ==
    /\ UPDATE_QUEUE \in Nat /\ RELOAD_QUEUE \in Nat
    /\ MAX_COALESCE_BATCH \in Nat /\ SUBSCRIBER_CAP \in Nat

VARIABLES
    pc,              \* "down", or where the router task is: see Phases
    rib,             \* candidate lists per key
    exported,        \* the routes the router believes it has programmed
    failed,          \* the keys whose last write failed
    current_statics, \* the static routes the next reload is compared with
    imports,         \* the import filter in force
    fib_export,      \* the kernel-export filter in force
    work,            \* the changes still to program in this phase
    drained,         \* updates taken after the first one of this batch
    dumping,         \* the subscriber a snapshot is being sent to
    undumped,        \* the keys of that snapshot not sent yet
    updates,         \* channel: engines to router
    reloads,         \* channel: static reloads
    filter_reloads,  \* channel: filter reloads
    kernel,          \* the forwarding plane: wren's route per key
    origin,          \* origin[t][p]: what target t re-originates for prefix p
    subs,            \* per subscriber: stream state, the routes it has after
                     \* reading its channel, and how many events are unread
    programmed_by    \* history: the export policy last applied to each key

state   == <<rib, exported, failed, current_statics, imports, fib_export>>
phase   == <<work, drained, dumping, undumped>>
chans   == <<updates, reloads, filter_reloads>>
outside == <<kernel, origin, subs, programmed_by>>
vars    == <<pc, state, phase, chans, outside>>

MaybeRoutes == Routes \cup {NoRoute}
NoRoutes    == [k \in Keys |-> NoRoute]
NoWork      == [k \in Keys |-> NoChange]
Nobody      == "nobody"

\* "program" handles protocol updates and redistributes each change; "repair"
\* (a static reload or a retry) programs without redistributing.
Phases      == {"down", "idle", "drain", "program", "repair", "dump"}

\* RouteUpdate::Announce and RouteUpdate::Withdraw.
Messages == [op: {"announce"}, route: EngineRoutes]
            \cup [op: {"withdraw"}, key: Keys, owner: {Owner(r) : r \in EngineRoutes}]

Fresh == [st |-> "closed", view |-> NoRoutes, unread |-> 0]

BestAt(k) == Best(rib[k])
----------------------------------------------------------------------------
(* Static routes of a configuration *)

\* The indexes of the statics of key k that pass the VRF import route-map.
AdmittedAt(c, k) ==
    {i \in DOMAIN c.statics : /\ KeyOf(c.statics[i]) = k
                              /\ c.vrf_imports[c.statics[i]] # NoRoute}

\* Those that the start-up loop also writes to the forwarding plane.
SeededAt(c, k) ==
    {i \in AdmittedAt(c, k) : c.vrf_exports[c.vrf_imports[c.statics[i]]] # NoRoute}

Newest(I) == CHOOSE i \in I : \A j \in I : j <= i
Oldest(I) == CHOOSE i \in I : \A j \in I : i <= j

\* The RIB and `current_statics` keep the last definition of a key, and so does
\* a reload's `next`; `exported` is seeded with the first one.
LastStatic(c, k) ==
    IF AdmittedAt(c, k) = {} THEN NoRoute
    ELSE c.vrf_imports[c.statics[Newest(AdmittedAt(c, k))]]

FirstStatic(c, k) ==
    IF AdmittedAt(c, k) = {} THEN NoRoute
    ELSE c.vrf_imports[c.statics[Oldest(AdmittedAt(c, k))]]

\* What the start-up loop leaves in the forwarding plane for key k.
Seed(c, k) ==
    IF SeededAt(c, k) = {} THEN NoRoute
    ELSE c.vrf_exports[c.vrf_imports[c.statics[Newest(SeededAt(c, k))]]]

\* `keep`: every prefix the file names, whatever the route-maps say.
Kept(c) == {KeyOf(c.statics[i]) : i \in DOMAIN c.statics}
----------------------------------------------------------------------------
(* Redistribution *)

\* What a change makes of the route target t originates for its prefix.  The
\* message names the prefix only, so the table is not part of it.
Redistributed(t, change) ==
    IF /\ change.op = "install"
       /\ change.route.protocol # t
       /\ change.route.protocol \in Sources[t]
    THEN RedistFilter[t][change.route]
    ELSE NoRoute

\* Mutant: only installs are passed on, so a prefix that is gone lingers.
RedistributeInstalls(k, change) ==
    origin' = [t \in Targets |->
                 IF change.op = "remove" THEN origin[t]
                 ELSE [origin[t] EXCEPT ![k[2]] = Redistributed(t, change)]]

\* redistribute: every target is told, whatever happened to the write.
Redistribute(k, change) ==
    origin' = [t \in Targets |-> [origin[t] EXCEPT ![k[2]] = Redistributed(t, change)]]

----------------------------------------------------------------------------
(* Route-export subscribers *)

\* Mutant: a full channel loses the event and keeps the subscriber.
FanoutLossy(k, r) ==
    subs' = [s \in Subscribers |->
                IF subs[s].st = "open" /\ subs[s].unread < SUBSCRIBER_CAP
                THEN [subs[s] EXCEPT !.view[k] = r, !.unread = @ + 1]
                ELSE subs[s]]

\* fanout: a live event goes to every open subscriber with room in its
\* channel; a subscriber whose channel is full is dropped.
Fanout(k, r) ==
    subs' = [s \in Subscribers |->
                IF subs[s].st # "open" THEN subs[s]
                ELSE IF subs[s].unread < SUBSCRIBER_CAP
                     THEN [subs[s] EXCEPT !.view[k] = r, !.unread = @ + 1]
                     ELSE Fresh]

----------------------------------------------------------------------------
(* Start-up and crash *)

Init ==
    /\ pc = "down"
    /\ rib = [k \in Keys |-> <<>>] /\ exported = NoRoutes /\ failed = {}
    /\ current_statics = NoRoutes
    /\ imports \in {c.imports : c \in Configs}
    /\ fib_export \in {c.fib_export : c \in Configs}
    /\ work = NoWork /\ drained = 0
    /\ dumping = Nobody /\ undumped = {}
    /\ updates = <<>> /\ reloads = <<>> /\ filter_reloads = <<>>
    /\ kernel = NoRoutes
    /\ origin = [t \in Targets |-> [p \in Prefixes |-> NoRoute]]
    /\ subs = [s \in Subscribers |-> Fresh]
    /\ programmed_by = [k \in Keys |-> fib_export]

\* Mutant: leftovers of the previous instance are not looked at.
ReconciledNothing(c, stuck) == kernel

\* reconcile_owned: remove every leftover route that the configuration does not
\* name; the removes of the keys in `stuck` fail and are not tried again.
Reconciled(c, stuck) ==
    [k \in Keys |-> IF k \in Kept(c) \cup stuck THEN kernel[k] ELSE NoRoute]

\* Failing removes need a fault; so does failing to read the leftovers at all.
StuckSets == IF "reconcile" \in Faults THEN SUBSET Keys ELSE {{}}

\* redistribute_seed: one Changed per best path, in (table, prefix) order, so
\* the greatest table that has the prefix speaks last.
SeededOrigin(c, t, p) ==
    LET holders == {tb \in Tables : LastStatic(c, <<tb, p>>) # NoRoute}
    IN  IF holders = {} THEN NoRoute
        ELSE Redistributed(t, Install(LastStatic(c, <<Newest(holders), p>>)))

\* main up to the router loop, with every seeded install accepted.
Start(c, stuck) ==
    /\ pc = "down"
    /\ pc' = "idle"
    /\ kernel' = [k \in Keys |-> IF Seed(c, k) # NoRoute THEN Seed(c, k)
                                  ELSE Reconciled(c, stuck)[k]]
    /\ rib' = [k \in Keys |-> IF LastStatic(c, k) = NoRoute THEN <<>>
                               ELSE <<LastStatic(c, k)>>]
    /\ current_statics' = [k \in Keys |-> LastStatic(c, k)]
    /\ exported' = [k \in Keys |-> FirstStatic(c, k)]
    /\ imports' = c.imports /\ fib_export' = c.fib_export
    /\ origin' = [t \in Targets |-> [p \in Prefixes |-> SeededOrigin(c, t, p)]]
    /\ programmed_by' = [k \in Keys |-> c.vrf_exports]
    /\ UNCHANGED <<failed, phase, chans, subs>>

\* A seeded install fails: start-up returns the error and the process exits,
\* leaving what it had installed by then.
StartFails(c, stuck, done) ==
    /\ pc = "down"
    /\ "install" \in Faults
    /\ \E k \in Keys \ done : Seed(c, k) # NoRoute
    /\ kernel' = [k \in Keys |-> IF k \in done /\ Seed(c, k) # NoRoute THEN Seed(c, k)
                                  ELSE Reconciled(c, stuck)[k]]
    /\ UNCHANGED <<pc, state, phase, chans, origin, subs, programmed_by>>

\* The process dies: the forwarding plane keeps its routes, all else is lost.
Crash ==
    /\ pc # "down"
    /\ pc' = "down"
    /\ rib' = [k \in Keys |-> <<>>] /\ exported' = NoRoutes /\ failed' = {}
    /\ current_statics' = NoRoutes
    /\ work' = NoWork /\ drained' = 0
    /\ dumping' = Nobody /\ undumped' = {}
    /\ updates' = <<>> /\ reloads' = <<>> /\ filter_reloads' = <<>>
    /\ origin' = [t \in Targets |-> [p \in Prefixes |-> NoRoute]]
    /\ subs' = [s \in Subscribers |-> Fresh]
    /\ UNCHANGED <<imports, fib_export, kernel, programmed_by>>
----------------------------------------------------------------------------
(* The environment of a running router *)

\* Mutant: the update channel has no bound.
SendUnbounded(m) ==
    /\ pc # "down"
    /\ updates' = Append(updates, m)
    /\ UNCHANGED <<pc, state, phase, reloads, filter_reloads, outside>>

\* An engine's `updates.send().await` completes when the channel has room.
Send(m) ==
    /\ pc # "down" /\ Len(updates) < UPDATE_QUEUE
    /\ updates' = Append(updates, m)
    /\ UNCHANGED <<pc, state, phase, reloads, filter_reloads, outside>>

\* apply_reload: the re-read configuration's statics and filters travel on two
\* channels, so the router may take them in either order.
Sighup(c) ==
    /\ pc # "down"
    /\ Len(reloads) < RELOAD_QUEUE /\ Len(filter_reloads) < RELOAD_QUEUE
    /\ reloads' = Append(reloads, c)
    /\ filter_reloads' = Append(filter_reloads, c)
    /\ UNCHANGED <<pc, state, phase, updates, outside>>

\* A subscriber reads one event of its stream.
Read(s) ==
    /\ subs[s].unread > 0
    /\ subs' = [subs EXCEPT ![s].unread = @ - 1]
    /\ UNCHANGED <<pc, state, phase, chans, kernel, origin, programmed_by>>

\* A subscriber goes away; the router notices at its next send to it.
Disconnect(s) ==
    /\ subs[s].st = "open"
    /\ subs' = [subs EXCEPT ![s] = Fresh]
    /\ UNCHANGED <<pc, state, phase, chans, kernel, origin, programmed_by>>
----------------------------------------------------------------------------
(* Folding updates into the RIB *)

\* ingest: a rejected announcement withdraws what its owner had announced.
Ingested(cands, m) ==
    IF m.op = "withdraw" THEN Withdrawn(cands, m.owner)
    ELSE IF imports[m.route] = NoRoute THEN Withdrawn(cands, Owner(m.route))
    ELSE Announced(cands, imports[m.route])

MessageKey(m) == IF m.op = "withdraw" THEN m.key ELSE KeyOf(m.route)

\* Mutant: the first change of a batch wins over a later one for the same key.
IngestFirstWins ==
    LET m      == Head(updates)
        k      == MessageKey(m)
        cands  == Ingested(rib[k], m)
        change == Diff(BestAt(k), Best(cands))
    IN  /\ updates # <<>>
        /\ updates' = Tail(updates)
        /\ rib' = [rib EXCEPT ![k] = cands]
        /\ work' = IF work[k] = NoChange THEN [work EXCEPT ![k] = change] ELSE work

\* Fold the head of the channel into the RIB and its best-path change, if any,
\* over an earlier one for the same key.
Ingest ==
    LET m      == Head(updates)
        k      == MessageKey(m)
        cands  == Ingested(rib[k], m)
        change == Diff(BestAt(k), Best(cands))
    IN  /\ updates # <<>>
        /\ updates' = Tail(updates)
        /\ rib' = [rib EXCEPT ![k] = cands]
        /\ work' = IF change = NoChange THEN work ELSE [work EXCEPT ![k] = change]

\* `updates.recv()` wins the select.
ReceiveFirst ==
    /\ pc = "idle" /\ pc' = "drain"
    /\ Ingest
    /\ drained' = 0
    /\ UNCHANGED <<exported, failed, current_statics, imports, fib_export,
                   dumping, undumped, reloads, filter_reloads, outside>>

\* `updates.try_recv()` finds another update.
ReceiveMore ==
    /\ pc = "drain" /\ drained < MAX_COALESCE_BATCH
    /\ Ingest
    /\ drained' = drained + 1
    /\ UNCHANGED <<pc, exported, failed, current_statics, imports, fib_export,
                   dumping, undumped, reloads, filter_reloads, outside>>

\* The channel is empty or the batch is full: program what has changed.
EndDrain ==
    /\ pc = "drain"
    /\ updates = <<>> \/ drained = MAX_COALESCE_BATCH
    /\ pc' = IF work = NoWork THEN "idle" ELSE "program"
    /\ drained' = 0
    /\ UNCHANGED <<state, work, dumping, undumped, chans, outside>>
----------------------------------------------------------------------------
(* Programming one change *)

\* How a write may end: it succeeds, it is refused and changes nothing, or it
\* takes effect but its acknowledgement never reaches the router.
WriteResults(op) ==
    {"ok"} \cup (IF op \in Faults THEN {"refused"} ELSE {})
           \cup (IF "unacked" \in Faults THEN {"unacked"} ELSE {})

Write(k, r, result) ==
    kernel' = IF result = "refused" THEN kernel ELSE [kernel EXCEPT ![k] = r]

\* Mutant: a failed write is logged and forgotten.
FailedForgotten(k, result) == failed \ {k}

\* `failed` after a write of key k.
FailedAfter(k, result) == IF result = "ok" THEN failed \ {k} ELSE failed \cup {k}

\* The change of key k is done with: redistribute it if it came from a protocol
\* update, and go on with the rest of the phase.
Done(k) ==
    /\ pc \in {"program", "repair"}
    /\ work[k] # NoChange
    /\ work' = [work EXCEPT ![k] = NoChange]
    /\ pc' = IF \E j \in Keys \ {k} : work[j] # NoChange THEN pc ELSE "idle"
    /\ programmed_by' = [programmed_by EXCEPT ![k] = fib_export]
    /\ IF pc = "program" THEN Redistribute(k, work[k]) ELSE origin' = origin
    /\ UNCHANGED <<rib, current_statics, imports, fib_export, drained, dumping,
                   undumped, chans>>

\* program_fib, Install of a connected route: the kernel owns it.
ProgramConnected(k) ==
    /\ work[k].op = "install" /\ work[k].route.protocol = "connected"
    /\ Done(k)
    /\ UNCHANGED <<exported, failed, kernel, subs>>

\* The route of an install that is not the kernel's own.
Installs(k, e) ==
    /\ work[k].op = "install" /\ work[k].route.protocol # "connected"
    /\ e = fib_export[work[k].route]

\* Mutant: the route is recorded as exported before the write is known to work.
ProgramInstallEager(k, e, result) ==
    /\ Installs(k, e) /\ e # NoRoute
    /\ Done(k)
    /\ result \in WriteResults("install")
    /\ Write(k, e, result)
    /\ failed' = FailedAfter(k, result)
    /\ exported' = [exported EXCEPT ![k] = e]
    /\ Fanout(k, e)

\* program_fib, Install accepted by the export filter as route e.
ProgramInstall(k, e, result) ==
    /\ Installs(k, e) /\ e # NoRoute
    /\ Done(k)
    /\ result \in WriteResults("install")
    /\ Write(k, e, result)
    /\ failed' = FailedAfter(k, result)
    /\ IF result = "ok"
       THEN exported' = [exported EXCEPT ![k] = e] /\ Fanout(k, e)
       ELSE UNCHANGED <<exported, subs>>

\* Take back what was programmed for k: from `exported`, from the forwarding
\* plane and from the subscribers.
Unprogram(k, result) ==
    /\ exported[k] # NoRoute
    /\ exported' = [exported EXCEPT ![k] = NoRoute]
    /\ result \in WriteResults("remove")
    /\ Write(k, NoRoute, result)
    /\ failed' = FailedAfter(k, result)
    /\ Fanout(k, NoRoute)

\* program_fib, Install rejected by the export filter.
ProgramRejected(k, result) ==
    /\ Installs(k, NoRoute)
    /\ Done(k)
    /\ Unprogram(k, result)

\* The same for a key that was not programmed: nothing to take back.
ProgramRejectedIdle(k) ==
    /\ Installs(k, NoRoute)
    /\ Done(k)
    /\ exported[k] = NoRoute
    /\ UNCHANGED <<exported, failed, kernel, subs>>

\* program_fib, Remove of a programmed key.
ProgramRemove(k, result) ==
    /\ work[k].op = "remove"
    /\ Done(k)
    /\ Unprogram(k, result)

\* program_fib, Remove of a key that is not programmed: never delete a route
\* somebody else installed.
ProgramRemoveIdle(k) ==
    /\ work[k].op = "remove"
    /\ Done(k)
    /\ exported[k] = NoRoute
    /\ failed' = failed \ {k}
    /\ UNCHANGED <<exported, kernel, subs>>

Program(k, result) ==
    \/ result = "ok" /\ (\/ ProgramConnected(k)
                         \/ ProgramRejectedIdle(k)
                         \/ ProgramRemoveIdle(k))
    \/ \E e \in Routes : ProgramInstall(k, e, result)
    \/ ProgramRejected(k, result)
    \/ ProgramRemove(k, result)
----------------------------------------------------------------------------
(* Reload, retry, subscribe *)

StaticOwner == <<"static", 0>>

\* Mutant: a static that the new configuration drops stays in the RIB.
ReloadedAdditive(k, next) ==
    IF next[k] \in {current_statics[k], NoRoute} THEN rib[k]
    ELSE Announced(rib[k], next[k])

\* reload_statics: the candidates of key k under the new configuration.
Reloaded(k, next) ==
    IF next[k] = current_statics[k] THEN rib[k]
    ELSE IF next[k] = NoRoute THEN Withdrawn(rib[k], StaticOwner)
    ELSE Announced(rib[k], next[k])

\* The keys of a reload are independent, so the RIB half of every one is folded
\* in first and the best-path changes are programmed one by one after it.
ReloadStatics ==
    LET c    == Head(reloads)
        next == [k \in Keys |-> LastStatic(c, k)]
        todo == [k \in Keys |-> Diff(BestAt(k), Best(Reloaded(k, next)))]
    IN  /\ pc = "idle" /\ reloads # <<>>
        /\ reloads' = Tail(reloads)
        /\ rib' = [k \in Keys |-> Reloaded(k, next)]
        /\ current_statics' = next
        /\ work' = todo
        /\ pc' = IF todo = NoWork THEN "idle" ELSE "repair"
        /\ UNCHANGED <<exported, failed, imports, fib_export, drained, dumping,
                       undumped, updates, filter_reloads, outside>>

\* The filter_reloads arm: both filters are swapped, nothing is re-evaluated.
ReloadFilters ==
    /\ pc = "idle" /\ filter_reloads # <<>>
    /\ filter_reloads' = Tail(filter_reloads)
    /\ imports' = Head(filter_reloads).imports
    /\ fib_export' = Head(filter_reloads).fib_export
    /\ UNCHANGED <<pc, rib, exported, failed, current_statics, phase, updates,
                   reloads, outside>>

\* retry_failed on the reconcile tick: the desired state of every failed key is
\* derived from the RIB again.
RetryFailed ==
    /\ pc = "idle" /\ failed # {}
    /\ work' = [k \in Keys |-> IF k \in failed THEN Desired(BestAt(k)) ELSE NoChange]
    /\ pc' = "repair"
    /\ UNCHANGED <<state, drained, dumping, undumped, chans, outside>>

\* subscribe_routes: replay `exported` with back-pressure, then retain the sender.
Subscribe(s) ==
    /\ pc = "idle" /\ subs[s].st = "closed"
    /\ pc' = "dump" /\ dumping' = s
    /\ undumped' = {k \in Keys : exported[k] # NoRoute}
    /\ subs' = [subs EXCEPT ![s] = [Fresh EXCEPT !.st = "dumping"]]
    /\ UNCHANGED <<state, work, drained, chans, kernel, origin, programmed_by>>

DumpRoute(s, k) ==
    /\ pc = "dump" /\ dumping = s /\ k \in undumped
    /\ subs[s].unread < SUBSCRIBER_CAP
    /\ subs' = [subs EXCEPT ![s].view[k] = exported[k], ![s].unread = @ + 1]
    /\ undumped' = undumped \ {k}
    /\ UNCHANGED <<pc, state, work, drained, dumping, chans, kernel, origin, programmed_by>>

EndOfDump(s) ==
    /\ pc = "dump" /\ dumping = s /\ undumped = {}
    /\ subs[s].unread < SUBSCRIBER_CAP
    /\ pc' = "idle" /\ dumping' = Nobody
    /\ subs' = [subs EXCEPT ![s].st = "open", ![s].unread = @ + 1]
    /\ UNCHANGED <<state, work, drained, undumped, chans, kernel, origin, programmed_by>>

\* The client closed its end during the dump: the send fails, the stream ends.
AbortDump(s) ==
    /\ pc = "dump" /\ dumping = s
    /\ pc' = "idle" /\ dumping' = Nobody /\ undumped' = {}
    /\ subs' = [subs EXCEPT ![s] = Fresh]
    /\ UNCHANGED <<state, work, drained, chans, kernel, origin, programmed_by>>
----------------------------------------------------------------------------
(* The specification *)

Results == {"ok", "refused", "unacked"}

\* The router's own steps, taken without the environment's help.
RouterStep ==
    \/ ReceiveFirst \/ ReceiveMore \/ EndDrain
    \/ \E k \in Keys, w \in Results : Program(k, w)
    \/ ReloadStatics \/ ReloadFilters \/ RetryFailed

StreamStep ==
    \E s \in Subscribers :
        \/ Subscribe(s) \/ EndOfDump(s) \/ AbortDump(s) \/ Read(s) \/ Disconnect(s)
        \/ \E k \in Keys : DumpRoute(s, k)

Lifecycle ==
    \/ Crash
    \/ \E c \in Configs, stuck \in StuckSets :
        \/ Start(c, stuck)
        \/ \E done \in SUBSET Keys : StartFails(c, stuck, done)

Next ==
    \/ RouterStep \/ StreamStep \/ Lifecycle
    \/ \E m \in Messages : Send(m)
    \/ \E c \in Configs : Sighup(c)

Spec == Init /\ [][Next]_vars
----------------------------------------------------------------------------
(* Correctness *)

\* Every variable has its type; the candidates of a key belong to that key.
TypeOK ==
    /\ pc \in Phases
    /\ rib \in [Keys -> Seq(Routes)]
    /\ \A k \in Keys : rib[k] \in Seq(RoutesAt(k))
    /\ exported \in [Keys -> MaybeRoutes]
    /\ failed \subseteq Keys
    /\ current_statics \in [Keys -> MaybeRoutes]
    /\ imports \in {c.imports : c \in Configs}
    /\ fib_export \in {c.fib_export : c \in Configs}
    /\ work \in [Keys -> Changes]
    /\ drained \in 0 .. MAX_COALESCE_BATCH
    /\ dumping \in Subscribers \cup {Nobody}
    /\ undumped \subseteq Keys
    /\ updates \in Seq(Messages) /\ Len(updates) <= UPDATE_QUEUE
    /\ reloads \in Seq(Configs) /\ Len(reloads) <= RELOAD_QUEUE
    /\ filter_reloads \in Seq(Configs) /\ Len(filter_reloads) <= RELOAD_QUEUE
    /\ kernel \in [Keys -> MaybeRoutes]
    /\ origin \in [Targets -> [Prefixes -> MaybeRoutes]]
    /\ subs \in [Subscribers -> [st: {"closed", "dumping", "open"},
                                 view: [Keys -> MaybeRoutes],
                                 unread: 0 .. SUBSCRIBER_CAP]]
    /\ programmed_by \in [Keys -> Filters]

\* The candidate list of a key holds one route per (protocol, source), and its
\* static candidate is the route that the next reload will compare with: a
\* reload can always find what an earlier configuration put in the RIB.
StaticsTracked ==
    \A k \in Keys :
        /\ OwnersUniqueIn(rib[k])
        /\ {rib[k][i] : i \in {j \in DOMAIN rib[k] : rib[k][j].protocol = "static"}}
             = {current_statics[k]} \ {NoRoute}

\* What the router believes it has programmed is what the forwarding plane
\* forwards by (`exported` is the source of every snapshot and the licence for
\* every delete).
ExportedInKernel ==
    pc # "down" => \A k \in Keys : exported[k] # NoRoute => kernel[k] = exported[k]

\* A route of a running router is in `exported`, or a write of its key is queued
\* for the reconcile tick: nothing is left in the forwarding plane unattended.
NoOrphans ==
    pc # "down" => \A k \in Keys : \/ kernel[k] = NoRoute
                                   \/ kernel[k] = exported[k]
                                   \/ k \in failed

\* The route the forwarding plane should hold for key k, given the export policy
\* that was in force when the key was last programmed.
Wanted(k) == IF BestAt(k) = NoRoute THEN NoRoute ELSE programmed_by[k][BestAt(k)]

ConnectedWins(k) == BestAt(k) # NoRoute /\ BestAt(k).protocol = "connected"

Settled(k) == ConnectedWins(k) \/ kernel[k] = Wanted(k)

\* Between two batches the forwarding plane holds the best path of every key
\* with no failed write: coalescing loses no change, and a batch or a reload
\* programs every key whose best path it moved.
Converged == pc = "idle" => \A k \in Keys \ failed : Settled(k)

\* Between two batches each target originates, for each prefix, the best path
\* its sources and filter let through, and nothing else (with one table).
RedistCurrent ==
    pc = "idle" =>
        \A t \in Targets, k \in Keys :
            origin[t][k[2]] = Redistributed(t, Desired(BestAt(k)))

\* Once its snapshot is complete, a subscriber that has read its channel has
\* exactly the routes in `exported`, or it has been dropped.
SubscriberMirrors ==
    \A s \in Subscribers : subs[s].st = "open" => subs[s].view = exported
----------------------------------------------------------------------------
(* Liveness *)

\* tokio's select! polls its arms in a random order and the reconcile timer keeps
\* ticking, so an arm that is ready again and again is eventually taken; a write
\* is awaited and completes.
Fairness ==
    /\ WF_vars(ReceiveMore \/ EndDrain)
    /\ WF_vars(\E k \in Keys, w \in Results : Program(k, w))
    /\ SF_vars(ReceiveFirst)
    /\ SF_vars(ReloadStatics)
    /\ SF_vars(ReloadFilters)
    /\ SF_vars(RetryFailed)

FairSpec == Spec /\ Fairness

\* The environment's steps, and the writes that fail.
Disturbance ==
    \/ Lifecycle
    \/ \E m \in Messages : Send(m)
    \/ \E c \in Configs : Sighup(c)
    \/ \E k \in Keys : Program(k, "refused") \/ Program(k, "unacked")

\* Once the engines are quiet and writes stop failing, a running router brings
\* every key into the forwarding plane and keeps it there.
EventuallySettled ==
    (<>[][~Disturbance]_vars /\ <>[](pc # "down")) => <>[](\A k \in Keys : Settled(k))

============================================================================
