------------------------------ MODULE Netlink ------------------------------
(***************************************************************************)
(* The kernel backend of the forwarding plane (wren-netlink): how a route  *)
(* of the RIB becomes an rtnetlink request, how the request is sent and    *)
(* retried, how the routes of an earlier instance are read back, and what  *)
(* is then in the kernel's tables.                                         *)
(*                                                                         *)
(* The kernel is external.  It answers a request inside the send, so a     *)
(* reply is delivered or lost, never late.  It keeps one route per table,  *)
(* prefix and priority; a replace overwrites the one with the same         *)
(* priority, and a delete removes the first route of the prefix that       *)
(* agrees with every field the request does not leave as a wildcard        *)
(* (lib.rs:541).  Octets are abstracted to the fields they carry; an       *)
(* optional field or attribute is a set with at most one member.           *)
(***************************************************************************)
EXTENDS Integers, FiniteSets, Sequences, FiniteSetsExt, TLC

CONSTANTS Routes,       \* the routes the router may ask to install
          Foreign,      \* kernel routes of somebody else
          IfNames,      \* names an interface may have
          Vips,         \* virtual addresses of VRRP, each [ifname, addr]
          MAX_CALLS,    \* calls of apply and of the address operations
          MAX_LOST,     \* replies that never arrive
          MAX_LINKS     \* interfaces appearing or going away

VARIABLES kernel,       \* set of kernel routes
          addrs,        \* virtual addresses the kernel has
          ifs,          \* the interfaces that exist
          call,         \* {} or the request under way
          told,         \* outcome last reported for each table and prefix
          stale,        \* routes read back that the start-up reconciliation still has to remove
          stage,        \* "run", "dump" (just restarted) or "reconcile"
          hist,         \* history: what was asked and carried out (below)
          budget        \* calls, losses and link changes left

vars == <<kernel, addrs, ifs, call, told, stale, stage, hist, budget>>

FIB_MAX_RETRIES == 3

Place(r) == <<r.table, r.prefix>>

Places == {Place(r) : r \in Routes}

-----------------------------------------------------------------------------
(* Requests and replies as they are built and read. *)

RtProt(protocol) == IF protocol \in {"connected", "kernel"} THEN "kernel" ELSE protocol

OwnedProtocol(proto) == {proto} \cap {"static", "rip", "ospf", "isis", "babel", "bgp"}

\* A gateway of the family of the destination and one of the other family.
PushGateway(family, nh) ==
  [gateway |-> {g \in nh.gateway : g.family = family},
   via |-> {g \in nh.gateway : g.family # family}]

\* An interface that does not resolve contributes no index.
IfIndex(nh, present) == nh.iface \cap present

BuildMultipath(family, nexthops, present) ==
  [i \in DOMAIN nexthops |->
     [attrs |-> PushGateway(family, nexthops[i]),
      hops |-> Min({Max({nexthops[i].weight - 1, 0}), 255}),
      oif |-> IfIndex(nexthops[i], present)]]

\* A slip, for the mutants: the table id cut down to its octet.
TableFieldOctet(table) == [octet |-> table % 256, attr |-> {}]

\* A table id that does not fit one octet travels in RTA_TABLE.
TableField(table) ==
  IF table <= 255 THEN [octet |-> table, attr |-> {}]
                  ELSE [octet |-> 0, attr |-> {table}]

NoHop == [attrs |-> [gateway |-> {}, via |-> {}], oif |-> {}]

\* `route` is {} for a delete, which pins neither protocol nor scope.
BuildRouteMsg(type, place, route, present) ==
  LET table == place[1]
      prefix == place[2]
      hdr == [type |-> type, family |-> prefix.family, len |-> prefix.len,
              dst |-> IF prefix.len > 0 THEN {prefix.net} ELSE {},
              table |-> TableField(table)]
  IN IF route = {}
     THEN [head |-> hdr, proto |-> "unspec", scope |-> "nowhere", rtype |-> "unicast",
           hop |-> NoHop, mp |-> <<>>, priority |-> {}]
     ELSE LET r == CHOOSE x \in route : TRUE
              n == Len(r.nexthops)
              via == \E i \in 1..n : r.nexthops[i].gateway # {}
          IN [head |-> hdr, proto |-> RtProt(r.protocol),
              scope |-> IF via \/ n = 0 THEN "universe" ELSE "link",
              rtype |-> IF n = 0 THEN "blackhole" ELSE "unicast",
              hop |-> IF n = 1 THEN [attrs |-> PushGateway(prefix.family, r.nexthops[1]),
                                     oif |-> IfIndex(r.nexthops[1], present)]
                      ELSE NoHop,
              mp |-> IF n > 1 THEN BuildMultipath(prefix.family, r.nexthops, present) ELSE <<>>,
              priority |-> IF r.metric > 0 THEN {r.metric} ELSE {}]

\* The next hop an attribute group stands for: none when neither the gateway nor
\* the interface can be read back.
NextHopFromGw(attrs, oif, weight, present) ==
  LET gateway == IF attrs.via # {} THEN attrs.via ELSE attrs.gateway
      iface == oif \cap present
  IN IF gateway = {} /\ iface = {} THEN <<>>
     ELSE <<[gateway |-> gateway, iface |-> iface, weight |-> weight]>>

ParseMultipath(mp, present) ==
  LET Hop(i) == NextHopFromGw(mp[i].attrs, mp[i].oif, mp[i].hops + 1, present)
      upto[i \in 0..Len(mp)] == IF i = 0 THEN <<>> ELSE upto[i - 1] \o Hop(i)
  IN upto[Len(mp)]

\* A slip, for the mutants: the origin of a kernel route is not looked at.
ParseRouteAny(k, present) ==
  LET hops == IF k.mp # <<>> THEN ParseMultipath(k.mp, present)
              ELSE NextHopFromGw(k.hop.attrs, k.hop.oif, 1, present)
  IN IF k.rtype \notin {"unicast", "blackhole"} \/ hops = <<>> THEN {}
     ELSE {[table |-> k.table, prefix |-> k.prefix, nexthops |-> hops,
            protocol |-> k.proto, metric |-> k.priority]}

\* One message of a dump: {} when it is foreign or cannot be represented.  A
\* discard route passes the type check but has no next hop to report.
ParseRoute(k, present) ==
  LET hops == IF k.mp # <<>> THEN ParseMultipath(k.mp, present)
              ELSE NextHopFromGw(k.hop.attrs, k.hop.oif, 1, present)
  IN IF OwnedProtocol(k.proto) = {} \/ k.rtype \notin {"unicast", "blackhole"} \/ hops = <<>>
     THEN {}
     ELSE {[table |-> k.table, prefix |-> k.prefix, nexthops |-> hops,
            protocol |-> k.proto, metric |-> k.priority]}

-----------------------------------------------------------------------------
(* The kernel. *)

TableOf(msg) == IF msg.head.table.attr # {} THEN CHOOSE t \in msg.head.table.attr : TRUE
                ELSE msg.head.table.octet

PriorityOf(msg) == IF msg.priority = {} THEN 0 ELSE CHOOSE p \in msg.priority : TRUE

PrefixOf(msg) ==
  [family |-> msg.head.family, len |-> msg.head.len,
   net |-> IF msg.head.dst = {} THEN 0 ELSE CHOOSE n \in msg.head.dst : TRUE]

Stored(msg) ==
  [table |-> TableOf(msg), prefix |-> PrefixOf(msg), priority |-> PriorityOf(msg),
   proto |-> msg.proto, scope |-> msg.scope, rtype |-> msg.rtype, hop |-> msg.hop, mp |-> msg.mp]

\* A unicast route needs a gateway or an interface for every hop, and the
\* interfaces it names must still be there.
Accepts(msg) ==
  LET Usable(h) == /\ h.attrs.gateway # {} \/ h.attrs.via # {} \/ h.oif # {}
                   /\ h.oif \subseteq ifs
  IN \/ msg.rtype = "blackhole"
     \/ msg.mp # <<>> /\ \A i \in DOMAIN msg.mp : Usable(msg.mp[i])
     \/ msg.mp = <<>> /\ Usable(msg.hop)

Matches(k, msg) ==
  /\ k.table = TableOf(msg) /\ k.prefix = PrefixOf(msg)
  /\ msg.proto \in {"unspec", k.proto}
  /\ msg.scope \in {"nowhere", k.scope}
  /\ msg.rtype \in {"unspec", k.rtype}
  /\ msg.priority \subseteq {k.priority}

\* The tables after a request, and the errno of its answer.
KernelNew(msg) ==
  IF ~Accepts(msg) THEN [routes |-> kernel, errno |-> "EINVAL"]
  ELSE [routes |-> {k \in kernel : ~(/\ k.table = TableOf(msg) /\ k.prefix = PrefixOf(msg)
                                     /\ k.priority = PriorityOf(msg))} \cup {Stored(msg)},
        errno |-> "ok"]

KernelDel(msg) ==
  LET hits == {k \in kernel : Matches(k, msg)}
  IN IF hits = {} THEN [routes |-> kernel, errno |-> "ESRCH"]
     ELSE LET first == CHOOSE k \in hits : \A l \in hits : k.priority <= l.priority
          IN [routes |-> kernel \ {first}, errno |-> "ok"]

-----------------------------------------------------------------------------
(* The socket: one request at a time, retried while the failure is transient. *)

IsTransientErrno(errno) == errno \in {"EINTR", "EAGAIN", "ENOBUFS", "EBUSY"}

Init ==
  /\ kernel = Foreign
  /\ addrs = {}
  /\ ifs \in SUBSET IfNames
  /\ call = {}
  /\ told = [p \in Places |-> "none"]
  /\ stale = {}
  /\ stage = "run"
  /\ hist = [wanted |-> [p \in Places |-> {}], before |-> [p \in Places |-> 0],
             done |-> [p \in Places |-> 0], clean |-> TRUE, written |-> {}]
  /\ budget = [calls |-> MAX_CALLS, lost |-> MAX_LOST, links |-> MAX_LINKS]

\* History: the route last asked for at each place; how many unicast routes were there
\* when the last removal was first carried out and how often it was; whether every
\* removal of the reconciliation was accepted; and where the kernel was written to,
\* as <<place, metric>> and, for a removal, <<place>>.
UnicastAt(p) == {k \in kernel : Place(k) = p /\ k.rtype = "unicast"}

Asked(p, k) == hist' = [hist EXCEPT !.wanted[p] = k, !.done[p] = 0]

Carried(c) ==
  hist' = IF c.kind = "install"
          THEN [hist EXCEPT !.written = @ \cup {<<c.what, PriorityOf(c.msg)>>}]
          ELSE IF c.kind = "remove"
          THEN [hist EXCEPT !.written = @ \cup {<<c.what>>},
                            !.before[c.what] = IF hist.done[c.what] = 0
                                               THEN Cardinality(UnicastAt(c.what)) ELSE @,
                            !.done[c.what] = @ + 1,
                            !.clean = @ /\ UnicastAt(c.what) # {}]
          ELSE hist

Begin(kind, what, msg) == call' = {[kind |-> kind, what |-> what, msg |-> msg, attempt |-> 0]}

\* apply(FibChange::Install): the interfaces are resolved once, when the message is built.
ApplyInstall(r) ==
  /\ stage = "run" /\ call = {} /\ budget.calls > 0
  /\ Begin("install", Place(r), BuildRouteMsg("new", Place(r), {r}, ifs))
  /\ budget' = [budget EXCEPT !.calls = @ - 1]
  /\ Asked(Place(r), {Stored(BuildRouteMsg("new", Place(r), {r}, ifs))})
  /\ UNCHANGED <<kernel, addrs, ifs, told, stale, stage>>

\* apply(FibChange::Remove), asked by the router or by the reconciliation.
ApplyRemove(p) ==
  /\ call = {}
  /\ \/ stage = "run" /\ budget.calls > 0 /\ stale' = stale
        /\ budget' = [budget EXCEPT !.calls = @ - 1]
     \/ /\ stage = "reconcile" /\ budget' = budget
        /\ \E r \in stale : Place(r) = p /\ stale' = stale \ {r}
  /\ Begin("remove", p, BuildRouteMsg("del", p, {}, ifs))
  /\ Asked(p, {})
  /\ UNCHANGED <<kernel, addrs, ifs, told, stage>>

\* add_virtual_address and del_address: a socket of their own, the same retry.
AddressOp(kind, vip) ==
  /\ stage = "run" /\ call = {} /\ budget.calls > 0
  /\ kind \in {"add", "del"}
  /\ budget' = [budget EXCEPT !.calls = @ - 1]
  /\ call' = IF vip.ifname \in ifs
             THEN {[kind |-> kind, what |-> vip, msg |-> {}, attempt |-> 0]}
             ELSE {}
  /\ UNCHANGED <<kernel, addrs, ifs, told, stale, stage, hist>>

\* What the kernel makes of the request: new tables, new addresses, errno.
Processed(c) ==
  CASE c.kind = "install" -> KernelNew(c.msg) @@ [addrs |-> addrs]
    [] c.kind = "remove" -> KernelDel(c.msg) @@ [addrs |-> addrs]
    [] c.kind = "add" -> [routes |-> kernel, addrs |-> addrs \cup {c.what},
                          errno |-> IF c.what.ifname \in ifs THEN "ok" ELSE "ENODEV"]
    [] c.kind = "del" -> [routes |-> kernel, addrs |-> addrs \ {c.what},
                          errno |-> IF c.what \in addrs THEN "ok" ELSE "EADDRNOTAVAIL"]

\* request's verdict on one round trip: another attempt, or the answer.
\* A slip, for the mutants: a failed attempt ends the request as a success.
FinishOptimist(c, errno) ==
  IF IsTransientErrno(errno) /\ c.attempt < FIB_MAX_RETRIES
  THEN /\ call' = {[c EXCEPT !.attempt = @ + 1]}
       /\ UNCHANGED told
  ELSE /\ call' = {}
       /\ told' = IF c.kind \in {"install", "remove"}
                  THEN [told EXCEPT ![c.what] = IF c.kind = "install" THEN "in" ELSE "out"]
                  ELSE told

Finish(c, errno) ==
  IF IsTransientErrno(errno) /\ c.attempt < FIB_MAX_RETRIES
  THEN /\ call' = {[c EXCEPT !.attempt = @ + 1]}
       /\ UNCHANGED told
  ELSE /\ call' = {}
       /\ told' = IF c.kind \in {"install", "remove"}
                  THEN [told EXCEPT ![c.what] =
                          IF errno = "ok" THEN (IF c.kind = "install" THEN "in" ELSE "out")
                          ELSE errno]
                  ELSE told

\* The request is carried out and its answer read.
RequestOnce ==
  \E c \in call :
     LET out == Processed(c)
     IN /\ kernel' = out.routes
        /\ addrs' = IF out.errno = "ok" THEN out.addrs ELSE addrs
        /\ Finish(c, out.errno)
        /\ Carried(c)
        /\ UNCHANGED <<ifs, stale, stage, budget>>

\* The request is carried out but its answer never comes: the receive times out.
RequestUnanswered ==
  /\ budget.lost > 0
  /\ budget' = [budget EXCEPT !.lost = @ - 1]
  /\ \E c \in call :
       LET out == Processed(c)
       IN /\ kernel' = out.routes
          /\ addrs' = IF out.errno = "ok" THEN out.addrs ELSE addrs
          /\ Finish(c, "EAGAIN")
          /\ Carried(c)
          /\ UNCHANGED <<ifs, stale, stage>>

\* The kernel is busy and does nothing, or a gateway is out of reach.
RequestRefused(errno) ==
  /\ budget.lost > 0
  /\ budget' = [budget EXCEPT !.lost = @ - 1]
  /\ \E c \in call : /\ errno \in {"EBUSY"} \cup (IF c.kind = "install" THEN {"ENETUNREACH"} ELSE {})
                     /\ Finish(c, errno)
  /\ hist' = [hist EXCEPT !.clean = @ /\ call' # {}]
  /\ UNCHANGED <<kernel, addrs, ifs, stale, stage>>

\* The daemon is replaced by a new instance; the kernel keeps what it has.
Restart ==
  /\ stage = "run" /\ budget.links > 0
  /\ stage' = "dump"
  /\ call' = {}
  /\ told' = [p \in Places |-> "none"]
  /\ budget' = [budget EXCEPT !.links = @ - 1]
  /\ UNCHANGED <<kernel, addrs, ifs, stale, hist>>

\* dump_owned, and the part of reconcile_owned that picks what nobody wants any
\* more (here: everything, the new instance has no routes yet).
DumpOwned ==
  /\ stage = "dump"
  /\ stage' = "reconcile"
  /\ stale' = UNION {ParseRoute(k, ifs) : k \in kernel}
  /\ hist' = [hist EXCEPT !.clean = TRUE]
  /\ UNCHANGED <<kernel, addrs, ifs, call, told, budget>>

Reconciled ==
  /\ stage = "reconcile" /\ stale = {} /\ call = {}
  /\ stage' = "run"
  /\ UNCHANGED <<kernel, addrs, ifs, call, told, stale, hist, budget>>

-----------------------------------------------------------------------------
(* Interfaces come and go: a route whose hops all leave by one goes with it. *)

Hops(k) == IF k.mp # <<>> THEN {k.mp[i].oif : i \in DOMAIN k.mp} ELSE {k.hop.oif}

LinkChange(name) ==
  /\ budget.links > 0 /\ stage = "run"
  /\ budget' = [budget EXCEPT !.links = @ - 1]
  /\ IF name \in ifs
     THEN LET gone == {k \in kernel : Hops(k) = {{name}}}
          IN /\ ifs' = ifs \ {name}
             /\ kernel' = kernel \ gone
             /\ addrs' = {v \in addrs : v.ifname # name}
             /\ told' = [p \in Places |-> IF p \in {Place(k) : k \in gone} THEN "none" ELSE told[p]]
             /\ hist' = [hist EXCEPT !.before = [p \in Places |->
                                        @[p] - Cardinality({k \in gone : Place(k) = p})]]
     ELSE ifs' = ifs \cup {name} /\ UNCHANGED <<kernel, addrs, told, hist>>
  /\ UNCHANGED <<call, stale, stage>>

Next ==
  \/ \E r \in Routes : ApplyInstall(r)
  \/ \E p \in Places : ApplyRemove(p)
  \/ \E kind \in {"add", "del"}, vip \in Vips : AddressOp(kind, vip)
  \/ RequestOnce
  \/ RequestUnanswered
  \/ \E errno \in {"EBUSY", "ENETUNREACH"} : RequestRefused(errno)
  \/ Restart
  \/ DumpOwned
  \/ Reconciled
  \/ \E name \in IfNames : LinkChange(name)

Spec == Init /\ [][Next]_vars

-----------------------------------------------------------------------------
(* Properties. *)

Errnos == {"none", "in", "out", "EINVAL", "ESRCH", "EAGAIN", "EBUSY", "ENETUNREACH"}

NetlinkTypeOK ==
  /\ ifs \subseteq IfNames /\ addrs \subseteq Vips
  /\ Cardinality(call) <= 1 /\ \A c \in call : c.attempt \in 0..FIB_MAX_RETRIES
  /\ told \in [Places -> Errnos]
  /\ {Place(r) : r \in stale} \subseteq Places
  /\ stage \in {"run", "dump", "reconcile"}

Ours(p) == {k \in kernel : Place(k) = p /\ k \notin Foreign}

\* After an accepted install the kernel holds the route that was asked for, to the last
\* field, whatever else is at its place: routes of other metrics, a discard route, a
\* foreign route, or the copy an unanswered attempt left.
InstallTrue ==
  call = {} => \A p \in Places : told[p] = "in" => hist.wanted[p] \subseteq kernel

\* After an accepted removal as many unicast routes are left at the place as it held
\* less the times the kernel carried the removal out: none where there was one, but one
\* of two metrics stays, although lib.rs:548 has the key identify the route "uniquely".
\* A removal that ends in ESRCH left no unicast route (a lost answer made the retry
\* repeat it); a discard route is not what a delete asks for and stays.
RemoveTrue ==
  call = {} => \A p \in Places :
     LET rest == Cardinality(UnicastAt(p))
     IN /\ told[p] = "out" => /\ hist.done[p] > 0
                              /\ rest = Max({0, hist.before[p] - hist.done[p]})
        /\ told[p] = "ESRCH" => rest = 0

\* A foreign route is lost only to a removal of its very table and prefix or to an
\* install of that table, prefix and metric, whatever the size of the table id.
ForeignKept ==
  \A k \in Foreign : \/ k \in kernel
                      \/ <<Place(k)>> \in hist.written
                      \/ <<Place(k), k.priority>> \in hist.written

\* Nobody else's route is reported as the daemon's own, and once a reconciliation has
\* ended with every removal accepted, nothing an earlier instance left and the new one
\* can read back remains, however many metrics a prefix had - except where a foreign
\* route of the same place was taken in its stead.
ReconcileClears ==
  /\ \A r \in stale : OwnedProtocol(r.protocol) # {}
  /\ (stage = "reconcile" /\ stale = {} /\ call = {} /\ hist.clean) =>
       \A p \in Places \ {Place(k) : k \in Foreign} :
          \A k \in Ours(p) : ParseRoute(k, ifs) = {}

\* What is read back of a route is the route that was asked for, with the weights that
\* fit the kernel's octet and without interfaces that do not exist.
RoundTrip ==
  \A r \in Routes :
     LET msg == BuildRouteMsg("new", Place(r), {r}, ifs)
         back == ParseRoute(Stored(msg), ifs)
         Hop(nh) == [gateway |-> nh.gateway, iface |-> nh.iface \cap ifs,
                     weight |-> IF Len(r.nexthops) = 1 THEN 1
                                ELSE Min({Max({nh.weight, 1}), 256})]
     IN (r.nexthops # <<>> /\ Accepts(msg) /\ OwnedProtocol(RtProt(r.protocol)) # {}) =>
          back = {[r EXCEPT !.nexthops = [i \in DOMAIN r.nexthops |-> Hop(r.nexthops[i])]]}

\* The backend's promises together: what it reports of an install and of a removal is
\* what the kernel holds, over retries, lost replies, two metrics, discard and foreign
\* routes; foreign routes of other places stay; a reconciliation is complete; and a
\* unicast route is read back as it was asked for (a discard route is never read back).
NetlinkInv ==
  /\ NetlinkTypeOK
  /\ InstallTrue
  /\ RemoveTrue
  /\ ForeignKept
  /\ ReconcileClears
  /\ RoundTrip
=============================================================================
