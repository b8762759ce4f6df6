------------------------------ MODULE MCDaemon ------------------------------
(* A handful of files: good ones that differ in interfaces, neighbours and *)
(* engines, and one for each way in which start-up and reload treat a bad  *)
(* section differently.                                                    *)
EXTENDS Daemon

Off == [enabled |-> FALSE, interfaces |-> {}]

Ospf == [enabled |-> TRUE, interfaces |-> {"e0"}, area |-> {Ok}, network_type |-> {},
         interface_areas |-> {}, redistribute_static |-> TRUE,
         stub_areas |-> {1}, totally_stubby_areas |-> {}, nssa_areas |-> {2},
         totally_nssa_areas |-> {}, nssa_default_areas |-> {},
         auth_type |-> {"md5"}, auth_key |-> {16}, vrf |-> {}]

Ospf3 == [enabled |-> TRUE, interfaces |-> {"e0"}, area |-> {}, network_type |-> {Ok},
          interface_areas |-> {Ok}, redistribute_static |-> FALSE,
          auth_type |-> {"hmac-sha256"}, auth_key |-> {32}]

Rip == [enabled |-> TRUE, interfaces |-> {"e0"}, vrf |-> {"blue"}]

Babel == [enabled |-> TRUE, interfaces |-> {"e0"}, router_id |-> {}, network |-> {Ok}, vrf |-> {}]

Isis == [enabled |-> TRUE, interfaces |-> {"e0"}, system_id |-> {}, area |-> {}, level |-> {Ok},
         network_type |-> {}, vrf |-> {}, auth_type |-> {"text"}, auth_key |-> {},
         password |-> {8}]

Vrrp(prio) == [interface |-> "e0", vrid |-> 1, priority |-> prio, addresses |-> {"v4"}]

Neighbor(p) ==
  [peer |-> p, address |-> {Ok}, scope |-> {}, password |-> {80}, ao_key |-> {},
   import |-> {"all"}, export |-> {}, role |-> {Ok}, ttl_security |-> {}, ebgp_multihop |-> {2},
   update_source |-> {"v4"}, family |-> "v4", local_as |-> {}]

Bgp(ps) ==
  [enabled |-> TRUE, local_as |-> 1, router_id |-> {}, neighbor |-> {Neighbor(p) : p \in ps},
   network |-> {Ok}, aggregate |-> {[len |-> 16, max_len |-> 32]},
   roa |-> {[len |-> 16, max_len |-> 32, max_length |-> {24}]}, next_hop6 |-> {},
   cluster_id |-> {Ok}, communities |-> {Ok}, vrf |-> {},
   evpn |-> {[vtep_ip |-> {Ok}, instance |-> {[rd |-> {}, targets |-> {Ok}, macs |-> {Ok}]},
              ip_vrf |-> {[rd |-> {Ok}, targets |-> {}, prefixes |-> {Ok}, router_mac |-> {}]},
              srv6_locator |-> {48}]},
   flowspec |-> {{[prefixes |-> {"v4"}, numbers |-> {}, action |-> {Ok}]}},
   srpolicy |-> {[endpoint |-> {Ok}, sids |-> {Ok}]},
   link_state |-> {[kind |-> "link", protocol |-> {}, router_id |-> {Ok}, remote |-> {Ok},
                    interfaces |-> {Ok}, prefix |-> {}]}]

Filter == [name |-> "all", default |-> {Ok},
           rule |-> <<[prefix |-> {Ok}, protocol |-> {}, communities |-> {Ok},
                       set_next_hop |-> {}, action |-> {Ok}]>>]

Vrf(n, t) == [name |-> n, table |-> t, import |-> {"all"}, export |-> {}, rd |-> {Ok}]

Base ==
  [toml |-> Ok, router_id |-> {Ok},
   statics |-> {[prefix |-> {Ok}, blackhole |-> FALSE, via |-> {Ok}, dev |-> {},
                 distance |-> {255}, vrf |-> {"blue"}]},
   filters |-> {Filter}, imports |-> {[protocol |-> {Ok}, filter |-> {"all"}]},
   export_kernel |-> {"all"}, vrfs |-> <<Vrf("blue", 10)>>,
   ospf |-> Ospf, ospf3 |-> Off, rip |-> Off, ripng |-> Off, babel |-> Off, isis |-> Off,
   vrrp |-> {Vrrp(100)}, ha |-> {}, bgp |-> Bgp({1})]

MCFiles ==
  {Base,
   [Base EXCEPT !.ospf.interfaces = {"e0", "e1"}, !.bgp = Bgp({1, 2}), !.vrrp = {Vrrp(200)}],
   [Base EXCEPT !.ospf = Off, !.bgp = Bgp({2}), !.rip = Rip, !.vrrp = {}],
   \* a stub area that is an NSSA too: OSPF does not build
   [Base EXCEPT !.ospf.nssa_areas = {1}, !.ospf.interfaces = {"e1"}],
   \* a RIP instance in a VRF that does not exist
   [Base EXCEPT !.rip = [Rip EXCEPT !.vrf = {"red"}], !.vrrp = {}],
   \* BGP without an AS, VRRP addresses of both families
   [Base EXCEPT !.bgp.local_as = 0, !.vrrp = {[Vrrp(100) EXCEPT !.addresses = {"v4", "v6"}]}],
   \* one routing table for two VRFs
   [Base EXCEPT !.vrfs = <<Vrf("blue", 10), Vrf("red", 10)>>, !.bgp.enabled = FALSE],
   \* the other engines
   [Base EXCEPT !.ospf = Off, !.vrrp = {}, !.bgp.enabled = FALSE, !.ripng = Rip,
                !.ospf3 = Ospf3, !.babel = Babel, !.isis = Isis],
   \* not TOML at all
   [Base EXCEPT !.toml = "bad"]}

Budget(e, r, f, q) == [edits |-> e, reloads |-> r, failures |-> f, queries |-> q]

MCBudgets == {Budget(2, 2, 0, 0), Budget(1, 1, 1, 0), Budget(1, 1, 0, 1)}

SmallBudgets == {Budget(1, 1, 0, 1)}

\* Two files are enough for the disagreements: one whose OSPF section is fine,
\* one whose OSPF section does not build.
TwoFiles == {Base, [Base EXCEPT !.ospf.nssa_areas = {1}, !.ospf.interfaces = {"e1"}]}
=============================================================================
