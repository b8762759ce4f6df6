----------------------------- MODULE BgpUpdate -----------------------------
(***************************************************************************)
(* What an established session makes of a received message (wren-bgp       *)
(* message.rs and attr.rs, and the reader in wren-daemon bgp.rs): framing, *)
(* the error handling of RFC 7606 for path attributes, the check for       *)
(* mandatory attributes, recognition of the End-of-RIB marker, and the     *)
(* rebuilding of a four-octet AS_PATH.                                     *)
(*                                                                         *)
(* Octets are abstracted to what the decoder tells apart: an attribute has *)
(* a type, flag bits, the length of its value, whether it overruns its     *)
(* block (cut), and whether its contents are acceptable (good).            *)
(***************************************************************************)
EXTENDS Integers, Sequences, FiniteSets, SequencesExt

CONSTANTS Messages,     \* the messages a peer may send
          Paths         \* AS paths as they were before a two-octet speaker

VARIABLES held,         \* routes a RIB that follows this session holds
          inbox,        \* the message being read
          out           \* what the reader passed on: {} before it has been read

vars == <<held, inbox, out>>

Ipv4 == <<1, "unicast">>

-----------------------------------------------------------------------------
(* One path attribute. *)

Fixed == [origin |-> 1, next_hop |-> 4, med |-> 4, local_pref |-> 4, originator_id |-> 4,
          only_to_customer |-> 4]

Unit == [communities |-> 4, extended_communities |-> 8, large_communities |-> 12,
         cluster_list |-> 4]

CanonicalFlags(type) ==
  CASE type \in {"med", "mp_reach", "mp_unreach", "bgp_ls", "originator_id", "cluster_list"} ->
         {"optional"}
    [] type \in {"aggregator", "communities", "extended_communities", "large_communities",
                 "as4_path", "as4_aggregator", "prefix_sid", "tunnel_encap",
                 "only_to_customer"} -> {"optional", "transitive"}
    [] OTHER -> {"transitive"}

Defining == {"optional", "transitive"}

\* The Optional and Transitive bits are the canonical ones, and Partial is set only on
\* an optional transitive attribute.
FlagsAgree(flags, canonical) ==
  /\ flags \cap Defining = canonical \cap Defining
  /\ canonical \cap Defining = Defining \/ "partial" \notin flags

\* A wrong length of a purely informational attribute costs only the attribute.
DiscardOrWithdraw(a) == IF FlagsAgree(a.flags, CanonicalFlags(a.type)) THEN "discard" ELSE "malformed"

KnownFamily(family) == family \in {Ipv4, <<2, "unicast">>}

UnicastNextHopLen(family, n) == IF family = Ipv4 THEN n \in {4, 16, 32} ELSE n \in {16, 32}

OwnDecoder(family) ==
  \/ family \in {<<25, "evpn">>, <<16388, "link_state">>}
  \/ family[2] \in {"flowspec", "sr_policy"}

\* A family with a decoder of its own keeps its own next-hop rules.
MpReachOk(a) ==
  /\ a.good
  /\ ~OwnDecoder(a.family) => KnownFamily(a.family) /\ UnicastNextHopLen(a.family, a.nh_len)

MpUnreachOk(a) == a.good /\ (OwnDecoder(a.family) \/ KnownFamily(a.family))

DecodeAggregator(a, four_octet) == a.len = (IF four_octet THEN 8 ELSE 6)

\* Whole segments of a known kind, without AS 0.
SegmentsOk(a) == a.good

ValueOk(a, four_octet) ==
  CASE a.type \in DOMAIN Fixed -> a.len = Fixed[a.type] /\ a.good
    [] a.type \in DOMAIN Unit -> a.len % Unit[a.type] = 0
    [] a.type \in {"as_path", "as4_path"} -> SegmentsOk(a)
    [] a.type = "as4_aggregator" -> DecodeAggregator(a, TRUE)
    [] a.type = "mp_reach" -> MpReachOk(a)
    [] a.type = "mp_unreach" -> MpUnreachOk(a)
    [] OTHER -> TRUE

\* Malformed attributes of these types are carried on unread, with the flags they have.
Opaque(a) == a.type \in {"tunnel_encap", "bgp_ls", "prefix_sid"} /\ ~a.good

\* PathAttribute::decode: "keep", "discard" (the attribute alone) or "malformed".
DecodeAttr(a, four_octet) ==
  IF a.cut THEN "malformed"
  ELSE IF a.type = "atomic_aggregate" /\ a.len # 0 THEN DiscardOrWithdraw(a)
  ELSE IF a.type = "aggregator" /\ ~DecodeAggregator(a, four_octet) THEN DiscardOrWithdraw(a)
  ELSE IF ~ValueOk(a, four_octet) THEN "malformed"
  ELSE IF a.type = "unknown" \/ Opaque(a) THEN "keep"
  ELSE IF FlagsAgree(a.flags, CanonicalFlags(a.type)) THEN "keep" ELSE "malformed"

-----------------------------------------------------------------------------
(* A whole UPDATE. *)

\* The attributes in order; {} when one is malformed or appears twice, discarded
\* attributes counting as having appeared.
DecodeAttributes(attrs, four_octet) ==
  IF \/ \E i \in DOMAIN attrs : DecodeAttr(attrs[i], four_octet) = "malformed"
     \/ \E i, j \in DOMAIN attrs : i # j /\ attrs[i].type = attrs[j].type
  THEN {}
  ELSE {SelectSeq(attrs, LAMBDA a : DecodeAttr(a, four_octet) = "keep")}

Types(attrs) == {attrs[i].type : i \in DOMAIN attrs}

\* A slip, for the mutants: only the IPv4 NLRI field asks for mandatory attributes.
MandatoryIpv4Only(attrs, has_ipv4_nlri) ==
  has_ipv4_nlri => {"origin", "as_path", "next_hop"} \subseteq Types(attrs)

MandatoryAttributesPresent(attrs, has_ipv4_nlri) ==
  /\ has_ipv4_nlri \/ "mp_reach" \in Types(attrs) => {"origin", "as_path"} \subseteq Types(attrs)
  /\ has_ipv4_nlri => "next_hop" \in Types(attrs)

TreatAsWithdraw(u) == [withdrawn |-> u.withdrawn \cup u.nlri, attributes |-> <<>>, nlri |-> {}]

\* decode_update: {} is a framing error, which ends the session.
DecodeUpdate(u, four_octet) ==
  IF ~u.framed THEN {}
  ELSE LET decoded == DecodeAttributes(u.attrs, four_octet)
       IN IF \E attrs \in decoded : MandatoryAttributesPresent(attrs, u.nlri # {})
          THEN {[withdrawn |-> u.withdrawn, attributes |-> CHOOSE x \in decoded : TRUE,
                 nlri |-> u.nlri]}
          ELSE {TreatAsWithdraw(u)}

\* Update::end_of_rib: the families a decoded UPDATE marks the end of.
EndOfRib(d) ==
  IF d.withdrawn # {} \/ d.nlri # {} THEN {}
  ELSE IF d.attributes = <<>> THEN {Ipv4}
  ELSE IF /\ Len(d.attributes) = 1 /\ d.attributes[1].type = "mp_unreach"
          /\ d.attributes[1].routes = {}
          /\ d.attributes[1].family[2] \notin {"sr_policy", "link_state"}
       THEN {d.attributes[1].family}
  ELSE {}

\* Message::decode, the header checks before the body.
Framed(m) == m.marker /\ m.stated = m.actual /\ m.stated \in 19..4096

\* decode_open: AS 0 and identifier 0 are refused; AS_TRANS is not.
DecodeOpen(o) == o.version = 4 /\ o.my_as # 0 /\ o.identifier # 0

\* A capability with a length its code does not define is kept unread.
DecodeCapability(c) ==
  LET Rule == [multiprotocol |-> c.len = 4, route_refresh |-> c.len = 0,
               graceful_restart |-> c.len >= 2 /\ (c.len - 2) % 4 = 0,
               four_octet_as |-> c.len = 4, add_path |-> c.len % 4 = 0,
               extended_next_hop |-> c.len % 6 = 0, bgp_role |-> c.len = 1]
  IN c.code \in DOMAIN Rule /\ Rule[c.code]

\* parse_optional_parameters: capabilities up to the first one that overruns.
Capabilities(o) ==
  LET whole == {i \in DOMAIN o.caps : \A j \in 1..i : ~o.caps[j].cut}
  IN {o.caps[k].code : k \in {i \in whole : DecodeCapability(o.caps[i])}}

Decoded(m) ==
  IF ~Framed(m) THEN {[kind |-> "reset"]}
  ELSE CASE m.type = "update" ->
              (IF DecodeUpdate(m.body, m.four_octet) = {} THEN {[kind |-> "reset"]}
               ELSE {[kind |-> IF EndOfRib(d) # {} THEN "end_of_rib" ELSE "update", update |-> d] :
                     d \in DecodeUpdate(m.body, m.four_octet)})
         [] m.type = "open" ->
              (IF DecodeOpen(m.body) THEN {[kind |-> "open", capabilities |-> Capabilities(m.body)]}
               ELSE {[kind |-> "reset"]})
         [] m.type = "keepalive" -> {[kind |-> IF m.body = {} THEN "keepalive" ELSE "reset"]}
         [] OTHER -> {[kind |-> "reset"]}

-----------------------------------------------------------------------------
(* AS_PATH and AS4_PATH: a segment is [kind, asns]. *)

AS_TRANS == 23456

\* The path as a two-octet speaker carries it, and the AS4_PATH beside it.
TwoOctet(path) ==
  [i \in DOMAIN path |->
     [path[i] EXCEPT !.asns = [j \in DOMAIN @ |-> IF @[j] > 65535 THEN AS_TRANS ELSE @[j]]]]

\* One element per AS of a sequence; a set or a confederation segment is one element.
Flat(path) ==
  FlattenSeq([i \in DOMAIN path |->
     IF path[i].kind = "sequence"
     THEN [j \in DOMAIN path[i].asns |-> [kind |-> "sequence", asns |-> <<path[i].asns[j]>>]]
     ELSE <<path[i]>>])

\* Adjacent elements of sequences become one segment.
Coalesce(els) ==
  FoldLeft(LAMBDA acc, el :
             IF el.kind = "sequence" /\ acc # <<>> /\ acc[Len(acc)].kind = "sequence"
             THEN [acc EXCEPT ![Len(acc)].asns = @ \o el.asns]
             ELSE Append(acc, el),
           <<>>, els)

\* A slip, for the mutants: an AS4_PATH longer than the path replaces it.
ReconstructAny(as_path, as4_path) ==
  IF as4_path = <<>> THEN as_path
  ELSE LET path == Flat(as_path)
           path4 == Flat(as4_path)
       IN Coalesce(SubSeq(path, 1, Len(path) - Len(path4)) \o path4)

ReconstructAsPath(as_path, as4_path) ==
  LET path == Flat(as_path)
      path4 == Flat(as4_path)
  IN IF as4_path = <<>> \/ Len(path4) > Len(path) THEN as_path
     ELSE Coalesce(SubSeq(path, 1, Len(path) - Len(path4)) \o path4)

-----------------------------------------------------------------------------
(* The reader of an established session. *)

Announced(d) ==
  {<<Ipv4, p>> : p \in d.nlri}
  \cup UNION {{<<d.attributes[i].family, p>> : p \in d.attributes[i].routes} :
              i \in {k \in DOMAIN d.attributes : d.attributes[k].type = "mp_reach"}}

Withdrawn(d) ==
  {<<Ipv4, p>> : p \in d.withdrawn}
  \cup UNION {{<<d.attributes[i].family, p>> : p \in d.attributes[i].routes} :
              i \in {k \in DOMAIN d.attributes : d.attributes[k].type = "mp_unreach"}}

Init ==
  /\ inbox \in Messages
  /\ held \in {{}, {<<Ipv4, 1>>, <<<<2, "unicast">>, 1>>}}
  /\ out = {}

\* One message: pass an UPDATE or a marker on, or end the session, whose routes go.
Receive ==
  /\ out = {}
  /\ out' = Decoded(inbox)
  /\ \E o \in out' :
       held' = CASE o.kind = "reset" -> {}
                 [] o.kind = "update" -> (held \ Withdrawn(o.update)) \cup Announced(o.update)
                 [] OTHER -> held
  /\ UNCHANGED inbox

Next == Receive

Spec == Init /\ [][Next]_vars

-----------------------------------------------------------------------------
(* Properties. *)

UpdateTypeOK ==
  /\ Cardinality(out) <= 1
  /\ \A o \in out : o.kind \in {"reset", "open", "keepalive", "update", "end_of_rib"}

Broken(u) ==
  \E i \in DOMAIN u.attrs : DecodeAttr(u.attrs[i], inbox.four_octet) = "malformed"

Read == {o \in out : inbox.type = "update" /\ inbox.body.framed /\ Framed(inbox)}

\* A well-framed UPDATE never ends the session, whatever its attributes look like, and
\* when an attribute is malformed none of its IPv4 destinations stays in use.
BrokenWithdraws ==
  \A o \in Read :
     /\ o.kind # "reset"
     /\ Broken(inbox.body) => \A p \in inbox.body.nlri \cup inbox.body.withdrawn :
                                 <<Ipv4, p>> \notin held

\* No destination of any family is announced without an origin and a path, nor an
\* IPv4 one without a next hop, and no attribute was kept under flags that contradict it.
DescribedRoutes ==
  \A o \in Read : o.kind = "update" /\ Announced(o.update) # {} =>
     /\ {"origin", "as_path"} \subseteq Types(o.update.attributes)
     /\ o.update.nlri # {} => "next_hop" \in Types(o.update.attributes)
     /\ \A i \in DOMAIN o.update.attributes :
          LET a == o.update.attributes[i]
          IN a.type = "unknown" \/ Opaque(a)
             \/ a.flags \cap Defining = CanonicalFlags(a.type) \cap Defining

Informational(a) == a.type \in {"atomic_aggregate", "aggregator"}

\* An informational attribute costs nothing unless its flags are wrong, it is repeated
\* or it overruns: the UPDATE has the effect it would have without it.
DiscardHarmless ==
  \A o \in Read :
     LET u == inbox.body
         rest == [u EXCEPT !.attrs = SelectSeq(@, LAMBDA a : ~Informational(a))]
         Harmless(a) == ~a.cut /\ a.flags = (IF a.type = "aggregator" THEN Defining ELSE {"transitive"})
     IN (/\ \A i \in DOMAIN u.attrs : Informational(u.attrs[i]) => Harmless(u.attrs[i])
         /\ \A i, j \in DOMAIN u.attrs : i # j => u.attrs[i].type # u.attrs[j].type) =>
           \A d \in DecodeUpdate(u, inbox.four_octet), e \in DecodeUpdate(rest, inbox.four_octet) :
              Announced(d) = Announced(e) /\ Withdrawn(d) = Withdrawn(e)

\* A path that went through two-octet speakers is rebuilt as it was, with the ASes those
\* speakers prepended since in front of it; an AS4_PATH with more hops than the path is
\* not believed.
PathRebuilt ==
  \A path \in Paths, new \in {<<>>, <<7>>, <<7, 8>>} :
     LET ahead == IF new = <<>> THEN <<>> ELSE <<[kind |-> "sequence", asns |-> new]>>
         carried == ahead \o TwoOctet(path)
         plain == SelectSeq(path, LAMBDA s : s.kind \in {"sequence", "set"})
     IN /\ plain = path => Flat(ReconstructAsPath(carried, path)) = Flat(ahead \o path)
        /\ path # <<>> => ReconstructAsPath(Tail(TwoOctet(path)), path \o path) = Tail(TwoOctet(path))

\* What the reader promises of one message.
UpdateInv ==
  /\ UpdateTypeOK
  /\ BrokenWithdraws
  /\ DescribedRoutes
  /\ DiscardHarmless
  /\ PathRebuilt
=============================================================================
