------------------------------- MODULE Config -------------------------------
(***************************************************************************)
(* The resolution of a configuration file: which sections wren-config      *)
(* accepts and which engine configurations the build_* functions of main   *)
(* can make of them.  A file is a record of sections.  An optional value   *)
(* is a set with at most one element; of a piece of text (an address, a    *)
(* prefix, a community) only whether it parses matters here, so such a     *)
(* value is Ok or anything else.  Lengths and numbers that the code        *)
(* compares with a limit stay numbers.                                     *)
(*                                                                         *)
(* Every operator is pure: Daemon.tla uses them at start-up and on reload. *)
(***************************************************************************)
EXTENDS Naturals, Sequences, FiniteSets

Ok == "ok"

Text == {Ok, "bad"}

\* An optional text that parses when it is there, and a text that must be there.
Parses(opt) == opt \subseteq {Ok}

Required(opt) == opt = {Ok}

\* The backbone area 0.0.0.0.
Backbone == 0

-----------------------------------------------------------------------------
(* wren-config: static routes, VRFs, the light validation of a loaded file. *)

\* The table of the VRF `name`: the first definition of that name wins.
VrfTables(c) == {c.vrfs[i].name : i \in DOMAIN c.vrfs}

\* An optional VRF reference that resolves.
VrfKnown(c, vrf) == vrf \subseteq VrfTables(c)

\* static_routes resolves one route: a blackhole has no next hop, any other
\* route has a gateway that parses or a device, the distance is at most 255.
StaticRoute(c, s) ==
  /\ Required(s.prefix)
  /\ IF s.blackhole THEN s.via = {} /\ s.dev = {}
                    ELSE Parses(s.via) /\ (s.via # {} \/ s.dev # {})
  /\ \A d \in s.distance : d <= 255
  /\ VrfKnown(c, s.vrf)

StaticRoutes(c) == \A s \in c.statics : StaticRoute(c, s)

\* Config::load: the file is read, the TOML parses with no unknown key, and
\* the static routes resolve.
Load(c) == c.toml = Ok /\ StaticRoutes(c)

-----------------------------------------------------------------------------
(* Filters and VRFs. *)

\* A rule of a filter: patterns, protocol, communities and next hop parse.
FilterRule(r) ==
  /\ r.prefix \subseteq {Ok}
  /\ Parses(r.protocol)
  /\ r.communities \subseteq {Ok}
  /\ Parses(r.set_next_hop)
  /\ Required(r.action)

\* compile_filter: the default action and every rule.
CompileFilter(def) ==
  /\ Parses(def.default)
  /\ \A i \in DOMAIN def.rule : FilterRule(def.rule[i])

\* compile_named_filters: no filter without a name, none that fails to compile.
CompileNamedFilters(c) ==
  \A def \in c.filters : def.name # "" /\ CompileFilter(def)

\* named_filter: an optional reference that names a defined filter.
NamedFilter(c, ref) == ref \subseteq {def.name : def \in c.filters}

\* resolve_import_filters: protocol names that exist, filters that exist.
ResolveImports(c) ==
  \A imp \in c.imports : Required(imp.protocol) /\ NamedFilter(c, imp.filter)

\* resolve_fib_export.
ResolveFibExport(c) == NamedFilter(c, c.export_kernel)

\* build_vrf_routemaps: the import and export maps of every VRF exist.
BuildVrfRoutemaps(c) ==
  \A i \in DOMAIN c.vrfs :
     NamedFilter(c, c.vrfs[i].import) /\ NamedFilter(c, c.vrfs[i].export)

\* build_vrf_infos: no table twice, route distinguishers that parse.
BuildVrfInfos(c) ==
  /\ \A i, j \in DOMAIN c.vrfs : i # j => c.vrfs[i].table # c.vrfs[j].table
  /\ \A i \in DOMAIN c.vrfs : Parses(c.vrfs[i].rd)

\* build_redist_target: known sources, never the protocol itself; the export
\* filter is looked up only when there is a source.
BuildRedistTarget(c, protocol, sources, export) ==
  /\ "unknown" \notin sources
  /\ protocol \notin sources
  /\ sources # {} => NamedFilter(c, export)

-----------------------------------------------------------------------------
(* OSPF, OSPFv3, RIP, Babel, IS-IS, VRRP. *)

\* A key that has to be there, not longer than `limit` octets.
KeyUpTo(key, limit) == key # {} /\ key \subseteq 1..limit

\* build_ospf_auth.
BuildOspfAuth(o) ==
  \/ o.auth_type \subseteq {"none"}
  \/ o.auth_type = {"text"} /\ KeyUpTo(o.auth_key, 8)
  \/ o.auth_type = {"md5"} /\ KeyUpTo(o.auth_key, 16)

\* build_ospf_config: identity, areas, the stub and NSSA sets, authentication.
BuildOspfConfig(c, o) ==
  LET stub == o.stub_areas \cup o.totally_stubby_areas
      nssa == o.nssa_areas \cup o.totally_nssa_areas \cup o.nssa_default_areas
  IN  /\ Required(c.router_id)
      /\ Parses(o.area) /\ Parses(o.network_type)
      /\ o.interface_areas \subseteq {Ok}
      /\ o.redistribute_static => StaticRoutes(c)
      /\ stub \subseteq Nat /\ Backbone \notin stub
      /\ nssa \subseteq Nat /\ Backbone \notin nssa
      /\ stub \cap nssa = {}
      /\ BuildOspfAuth(o)
      /\ VrfKnown(c, o.vrf)

\* build_ospf3_auth and build_ospf3_config.
BuildOspf3Auth(o) ==
  \/ o.auth_type \subseteq {"none"}
  \/ o.auth_type = {"hmac-sha256"} /\ o.auth_key \cap (Nat \ {0}) # {}

BuildOspf3Config(c, o) ==
  /\ Required(c.router_id)
  /\ Parses(o.area) /\ Parses(o.network_type)
  /\ o.interface_areas \subseteq {Ok}
  /\ o.redistribute_static => StaticRoutes(c)
  /\ BuildOspf3Auth(o)

\* build_babel_config: the section's router-id comes before the global one.
BuildBabelConfig(c, b) ==
  /\ Required(IF b.router_id # {} THEN b.router_id ELSE c.router_id)
  /\ b.network \subseteq {Ok}
  /\ VrfKnown(c, b.vrf)

\* build_isis_auth: the older `password` key stands in for auth-key.
BuildIsisAuth(i) ==
  LET key == IF i.auth_key # {} THEN i.auth_key ELSE i.password
  IN  \/ i.auth_type \subseteq {"none"}
      \/ /\ i.auth_type \subseteq {"text", "hmac-md5", "hmac-sha256"}
         /\ key \cap (Nat \ {0}) # {}

\* build_isis_config: a system-id, or a router-id to derive it from.
BuildIsisConfig(c, i) ==
  /\ IF i.system_id # {} THEN Required(i.system_id) ELSE Required(c.router_id)
  /\ Parses(i.area) /\ Parses(i.level) /\ Parses(i.network_type)
  /\ VrfKnown(c, i.vrf)
  /\ BuildIsisAuth(i)

\* build_vrrp_instances: numbers in range, addresses of one family.
BuildVrrpInstances(c) ==
  \A v \in c.vrrp :
     /\ v.vrid # 0 /\ v.priority # 0
     /\ v.addresses \in {{"v4"}, {"v6"}}

\* build_querier_config: an interface, and at most one upstream.
BuildQuerierConfig(mc) ==
  /\ mc.roles # <<>>
  /\ Cardinality({i \in DOMAIN mc.roles : mc.roles[i] = "upstream"}) <= 1

\* build_pim_config: a rendezvous point and at least one interface.
BuildPimConfig(mc) ==
  /\ mc.pim_enabled /\ mc.rp_address # {}
  /\ mc.pim_interfaces # {} \/ mc.roles # <<>>

\* resolve_bfd_auth: no type, or a known one with a key.
ResolveBfdAuth(auth_type, key) ==
  \/ auth_type = {}
  \/ auth_type = {"simple"} /\ KeyUpTo(key, 16)
  \/ /\ auth_type \in {{"keyed-md5"}, {"meticulous-md5"}, {"keyed-sha1"},
                       {"meticulous-sha1"}}
     /\ key \cap (Nat \ {0}) # {}

-----------------------------------------------------------------------------
(* BGP. *)

\* parse_neighbor_addr: an address, and an interface that exists if it is scoped.
ParseNeighborAddr(n) == Required(n.address) /\ Parses(n.scope)

\* The checks build_bgp_config makes of one neighbour.
BuildNeighbor(c, n) ==
  /\ ParseNeighborAddr(n)
  /\ n.password \subseteq 1..80 /\ n.ao_key \subseteq 1..80
  /\ n.password = {} \/ n.ao_key = {}
  /\ NamedFilter(c, n.import) /\ NamedFilter(c, n.export)
  /\ Parses(n.role)
  /\ n.ttl_security = {} \/ n.ebgp_multihop = {}
  /\ 0 \notin n.ebgp_multihop
  /\ \A src \in n.update_source : src = n.family
  /\ 0 \notin n.local_as

\* [[bgp.aggregate]] and [[bgp.roa]]: <<length, longest length>> of the prefix.
BuildAggregate(a) == a.len < a.max_len

BuildRoa(r) == \A l \in r.max_length : l >= r.len /\ l <= r.max_len

\* build_evpn_config: identities parse; a VXLAN IP-VRF that advertises a prefix
\* needs a router MAC; an SRv6 locator is byte-aligned and 8 to 96 bits long.
BuildEvpnConfig(e) ==
  /\ Required(e.vtep_ip)
  /\ \A i \in e.instance : Parses(i.rd) /\ i.targets \subseteq {Ok} /\ i.macs \subseteq {Ok}
  /\ \A v \in e.ip_vrf :
        /\ Parses(v.rd) /\ v.targets \subseteq {Ok} /\ v.prefixes \subseteq {Ok}
        /\ Parses(v.router_mac)
        /\ v.router_mac # {} \/ v.prefixes = {} \/ e.srv6_locator # {}
  /\ \A len \in e.srv6_locator : (len % 8) = 0 /\ len \in 8..96

\* build_flowspec_config: IPv4 prefixes only, at least one match component.
BuildFlowspecConfig(rules) ==
  \A r \in rules :
     /\ r.prefixes \subseteq {"v4"}
     /\ r.prefixes # {} \/ r.numbers # {}
     /\ Parses(r.action)

\* build_srpolicy: an endpoint, and SIDs or labels that parse.
BuildSrpolicy(p) == Required(p.endpoint) /\ p.sids \subseteq {Ok}

\* build_link_state: a link names its far end, a prefix object its prefix.
BuildLinkState(o) ==
  /\ Parses(o.protocol) /\ Required(o.router_id)
  /\ \/ o.kind = "node"
     \/ o.kind = "link" /\ Required(o.remote) /\ o.interfaces \subseteq {Ok}
     \/ o.kind = "prefix" /\ Required(o.prefix)

\* build_bgp_config.
BuildBgpConfig(c, b) ==
  /\ b.local_as # 0
  /\ Required(IF b.router_id # {} THEN b.router_id ELSE c.router_id)
  /\ \A n \in b.neighbor : BuildNeighbor(c, n)
  /\ b.network \subseteq {Ok}
  /\ \A a \in b.aggregate : BuildAggregate(a)
  /\ \A r \in b.roa : BuildRoa(r)
  /\ Parses(b.next_hop6) /\ Parses(b.cluster_id)
  /\ b.communities \subseteq {Ok}
  /\ VrfKnown(c, b.vrf)
  /\ \A e \in b.evpn : BuildEvpnConfig(e)
  /\ \A rules \in b.flowspec : BuildFlowspecConfig(rules)
  /\ \A p \in b.srpolicy : BuildSrpolicy(p)
  /\ \A o \in b.link_state : BuildLinkState(o)

-----------------------------------------------------------------------------
(* The two readers of a configuration. *)

\* What reload_config resolves, and so what `wren check` reports as valid.
ReloadConfig(c) ==
  /\ Load(c)
  /\ CompileNamedFilters(c) /\ ResolveImports(c) /\ ResolveFibExport(c)
  /\ BuildVrfRoutemaps(c)
  /\ c.bgp.enabled => BuildBgpConfig(c, c.bgp)

\* The part of main that fails the whole process before an engine is started.
StartupResolves(c) ==
  /\ Load(c)
  /\ CompileNamedFilters(c) /\ ResolveImports(c) /\ ResolveFibExport(c)
  /\ BuildVrfRoutemaps(c) /\ BuildVrfInfos(c)

\* The engines the supervisor manages.
Engines == {"vrrp", "rip", "ripng", "ospf", "ospf3", "babel", "isis"}

\* Whether an engine is configured at all ...
Enabled(c, e) == IF e = "vrrp" THEN c.vrrp # {} ELSE c[e].enabled

\* ... and whether an engine configuration can be built for it.
Builds(c, e) ==
  CASE e = "vrrp"  -> BuildVrrpInstances(c)
    [] e = "rip"   -> VrfKnown(c, c.rip.vrf)
    [] e = "ripng" -> TRUE
    [] e = "ospf"  -> BuildOspfConfig(c, c.ospf)
    [] e = "ospf3" -> BuildOspf3Config(c, c.ospf3)
    [] e = "babel" -> BuildBabelConfig(c, c.babel)
    [] e = "isis"  -> BuildIsisConfig(c, c.isis)

\* *_sig: what a reload compares.  VRRP's covers the whole definition of every
\* instance and the [ha] section, the others the set of interfaces.
SigOf(c, e) ==
  [enabled |-> Enabled(c, e),
   ifaces  |-> IF e = "vrrp" THEN c.vrrp \cup c.ha
                             ELSE c[e].interfaces]
=============================================================================
