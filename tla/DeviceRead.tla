------------------------------ MODULE DeviceRead ------------------------------
(***************************************************************************)
(* The strict projections of domain/read_projection.py and the entry       *)
(* classes of the three *_observation modules: a raw section of a          *)
(* device-state read in, typed entries and the list of rejected rows out.  *)
(* Both the published observation and the read mirror are made from them.  *)
(*                                                                         *)
(* An item is a function from wire fields to values; a field it does not   *)
(* have was not sent.  Values are strings: None is JSON null, Bad a value  *)
(* of the wrong type or range, Clash two aliases that disagree.  Nested    *)
(* lists are sequences of items.                                           *)
(***************************************************************************)
EXTENDS Naturals, Sequences, FiniteSets, SequencesExt, TLC

None == "none"
Bad == "bad"
Clash == "clash"
NotObject == [not_object |-> TRUE]

Empty(v) == v \in {None, ""}

-----------------------------------------------------------------------------
(* The entry classes: identity, the fields that must be set, the fields    *)
(* that default to "" and may not be null, the optional fields, the        *)
(* credentials among them, the nested lists, and wire fields that are      *)
(* excluded on purpose.                                                    *)

DeviceEntry(identity, required, optional, lists) ==
    [identity |-> identity, required |-> required, blank |-> {}, optional |-> optional,
     credentials |-> {}, lists |-> lists, excluded |-> {"source"}]

With(class, field, names) == [class EXCEPT ![field] = names]

NoLists == <<>>

VlanEntry == DeviceEntry(<<"vlan_id">>, {"vlan_id"}, {"name"}, NoLists)

SviEntry == DeviceEntry(<<"interface_name">>, {"interface_name", "vlan_id"}, {"type", "vrf"}, NoLists)

SubinterfaceEntry ==
    DeviceEntry(<<"interface_name">>, {"interface_name", "dot1q_vlan"},
                {"parent_interface", "type", "vrf"}, NoLists)

InterfaceMtuEntry ==
    DeviceEntry(<<"interface_name">>, {"interface_name"}, {"mtu", "ip_mtu", "mpls_mtu", "bound_port"}, NoLists)

LagMemberEntry == DeviceEntry(<<"interface_name">>, {"interface_name"}, {"mode"}, NoLists)

LagConfigMemberEntry == With(LagMemberEntry, "optional", {"mode", "port_priority"})

LagTopologyEntry ==
    With(DeviceEntry(<<"name">>, {"name", "lag_id"}, {}, [member |-> LagMemberEntry]),
         "excluded", {"vpc_sensitive"})

LagConfigEntry ==
    DeviceEntry(<<"lag_id">>, {"name", "lag_id"},
                {"min_links", "system_priority", "system_id", "timer", "admin_key", "vpc_sensitive"},
                [member |-> LagConfigMemberEntry])

BfdEntry ==
    DeviceEntry(<<"interface_name">>, {"interface_name"},
                {"bound_port", "min_tx", "min_rx", "multiplier", "micro_bfd", "enabled"}, NoLists)

L2SapEntry == DeviceEntry(<<"sap_id">>, {"sap_id"}, {"port", "outer_tag", "inner_tag"}, NoLists)

L2ServiceEntry ==
    DeviceEntry(<<"service_name">>, {"service_name"}, {"service_type", "service_id"}, [saps |-> L2SapEntry])

LoggingHostEntry ==
    With(DeviceEntry(<<"address">>, {"address"},
                     {"port", "severity", "facility", "transport", "vrf", "source"}, NoLists), "excluded", {})

LoggingLevelsEntry ==
    DeviceEntry(<<>>, {}, {"console_severity", "monitor_severity", "module_severity"}, NoLists)

SnmpCommunityEntry == DeviceEntry(<<"name">>, {"name"}, {"access", "acl", "has_secret"}, NoLists)

SnmpUserEntry == DeviceEntry(<<"username">>, {"username"}, {"has_auth_secret", "has_priv_secret"}, NoLists)

SnmpHostEntry == DeviceEntry(<<"address">>, {"address"}, {"version", "notify_type", "port", "user"}, NoLists)

SnmpSystemEntry == DeviceEntry(<<>>, {}, {"location", "contact"}, NoLists)

StaticRouteEntry ==
    DeviceEntry(<<"vrf", "prefix", "next_hop">>, {"prefix"},
                {"vrf", "next_hop", "interface_next_hop", "next_hop_vrf", "metric", "permanent", "tag", "name"},
                NoLists)

AddressEntry == DeviceEntry(<<"address", "vrf">>, {"address"}, {"vrf", "family", "secondary"}, NoLists)

InterfaceIpEntry ==
    DeviceEntry(<<"interface_name">>, {"interface_name"}, {"bound_port"}, [address |-> AddressEntry])

-----------------------------------------------------------------------------
(* BGP, IS-IS, OSPF and route policy.                                      *)

BgpPolicyEntry ==
    With(DeviceEntry(<<"afi">>, {"afi"},
                     {"enabled", "routemap_in", "routemap_out", "prefixlist_in", "prefixlist_out"}, NoLists),
         "excluded", {"redistribute"})

BgpPeerEntry ==
    With(DeviceEntry(<<"peer_address", "peer_group">>, {"peer_address"},
                     {"peer_group", "remote_as", "local_as", "enabled", "ttl", "password", "source",
                      "description", "bfd_enabled"},
                     [peer_address_family |-> BgpPolicyEntry]),
         "credentials", {"password"})

BgpPeerGroupEntry ==
    DeviceEntry(<<"name">>, {"name"}, {"remote_as", "source"}, [peer_group_address_family |-> BgpPolicyEntry])

BgpAddressFamilyEntry == With(DeviceEntry(<<"afi">>, {"afi"}, {}, NoLists), "excluded", {"redistribute"})

BgpScopeEntry ==
    With(DeviceEntry(<<"vrf">>, {}, {},
                     [address_family |-> BgpAddressFamilyEntry, peer |-> BgpPeerEntry,
                      peer_group |-> BgpPeerGroupEntry]),
         "blank", {"vrf"})

BgpRouterEntry ==
    With(DeviceEntry(<<"asn">>, {"asn"}, {"router_id"}, [scope |-> BgpScopeEntry]), "excluded", {"redistribute"})

IsisSettingEntry == DeviceEntry(<<"key">>, {"key"}, {"value"}, NoLists)

IsisLevelEntry ==
    With(DeviceEntry(<<"level">>, {"level"},
                     {"default_metric", "wide_metrics_only", "preference", "labeled_preference", "disabled",
                      "auth_type", "auth_present", "auth_key", "metric", "hello_interval",
                      "hello_multiplier", "priority", "passive"}, NoLists),
         "credentials", {"auth_key"})

IsisSegmentRoutingEntry ==
    DeviceEntry(<<>>, {},
                {"enabled", "srv6_enabled", "prefix_sid_range", "srgb_start", "srgb_range", "srlb_start",
                 "srlb_range", "node_sid_index", "node_sid_label", "node_sid_v6_index", "node_sid_v6_label",
                 "maximum_sid_depth", "tunnel_table_pref"}, NoLists)

IsisFlexAlgoEntry ==
    DeviceEntry(<<"algo_id">>, {"algo_id"},
                {"metric_type", "priority", "admin_group_exclude", "admin_group_include_any",
                 "admin_group_include_all"}, NoLists)

IsisLocatorEntry ==
    DeviceEntry(<<"name">>, {"name"},
                {"prefix", "algorithm", "is_anycast", "is_micro_segment", "flavor", "block_length",
                 "node_length", "function_length", "argument_length", "isis_level", "enabled"}, NoLists)

IsisPrefixSidEntry ==
    DeviceEntry(<<"algorithm">>, {"algorithm"},
                {"sid_index", "sid_label", "n_flag", "no_php", "explicit_null", "readvertise"}, NoLists)

IsisProcessEntry ==
    [DeviceEntry(<<"process_tag">>, {},
                 {"net", "is_type", "metric_style", "overload_bit", "area_auth_type", "area_auth_present",
                  "area_auth_key", "domain_auth_type", "domain_auth_present", "domain_auth_key",
                  "spf_initial_wait", "spf_max_wait", "lsp_initial_wait", "lsp_max_wait", "lsp_lifetime",
                  "lsp_refresh_interval", "lsp_mtu", "overload_on_startup", "overload_timeout", "te_enabled",
                  "suppress_attached_bit", "ignore_attached_bit", "fast_reroute", "microloop_avoidance",
                  "distance", "maximum_paths", "reference_bandwidth", "segment_routing_reported",
                  "segment_routing_configured"},
                 [setting |-> IsisSettingEntry, level |-> IsisLevelEntry, flex_algo |-> IsisFlexAlgoEntry,
                  srv6_locator |-> IsisLocatorEntry, segment_routing |-> IsisSegmentRoutingEntry])
     EXCEPT !.blank = {"process_tag"}, !.credentials = {"area_auth_key", "domain_auth_key"},
            !.excluded = {"redistribute", "sr_enabled", "sr_node_msd"}]

IsisInterfaceEntry ==
    [DeviceEntry(<<"interface_name", "af">>, {"interface_name", "af"},
                 {"circuit_type", "network_type", "metric", "passive", "bound_port", "hello_auth_type",
                  "hello_auth_present", "hello_auth_key", "bfd_enabled", "frr_enabled", "frr_protection",
                  "csnp_interval", "retransmit_interval", "lsp_interval", "mesh_group"},
                 [setting |-> IsisSettingEntry, level |-> IsisLevelEntry, prefix_sid |-> IsisPrefixSidEntry])
     EXCEPT !.blank = {"process_tag"}, !.credentials = {"hello_auth_key"}, !.excluded = {}]

OspfAreaEntry == DeviceEntry(<<"area_id">>, {"area_id"}, {"area_type"}, NoLists)

OspfInstanceEntry ==
    [DeviceEntry(<<"process_id", "vrf">>, {"process_id"}, {"router_id", "enabled"}, [area |-> OspfAreaEntry])
     EXCEPT !.blank = {"vrf"}, !.excluded = {"redistribute"}]

OspfInterfaceEntry ==
    With(DeviceEntry(<<"interface_name", "process_id">>, {"interface_name"},
                     {"process_id", "area_id", "passive", "priority", "cost", "network_type", "auth_type",
                      "auth_present", "auth_key", "bfd_enabled"}, NoLists),
         "credentials", {"auth_key"})

PolicyPrefixEntry ==
    DeviceEntry(<<"sequence">>, {"sequence", "action", "prefix"}, {"ge", "le"}, NoLists)

PolicyCommunityEntry == DeviceEntry(<<"sequence">>, {"sequence", "action", "community"}, {}, NoLists)

PolicyAsPathEntry == DeviceEntry(<<"sequence">>, {"sequence", "action", "pattern"}, {}, NoLists)

PolicyRouteMapEntry ==
    DeviceEntry(<<"sequence">>, {"sequence", "action"},
                {"match_prefix_lists", "match_community_lists", "match_as_paths", "match_json", "set_json"}, NoLists)

(* The four lists nest a list the wire calls "entry" in each. *)
PolicyPrefixList == DeviceEntry(<<"name">>, {"name"}, {"family"}, [prefix_list_entry |-> PolicyPrefixEntry])

PolicyCommunityList == DeviceEntry(<<"name">>, {"name"}, {"invert_match"}, [community_list_entry |-> PolicyCommunityEntry])

PolicyAsPath == DeviceEntry(<<"name">>, {"name"}, {}, [as_path_entry |-> PolicyAsPathEntry])

PolicyRouteMap == DeviceEntry(<<"name">>, {"name"}, {}, [route_map_entry |-> PolicyRouteMapEntry])

(* Redistribution reads the protocols' own sections, by their destinations. *)
RedistributionSourceEntry ==
    With(DeviceEntry(<<"source_protocol", "source_ref">>, {"source_protocol"},
                     {"route_map", "metric", "metric_type"}, NoLists),
         "blank", {"source_ref"})

OspfDestination ==
    With(DeviceEntry(<<"process_id", "vrf">>, {"process_id"}, {}, [redistribute |-> RedistributionSourceEntry]),
         "blank", {"vrf"})

IsisDestination ==
    With(DeviceEntry(<<"process_tag">>, {}, {}, [redistribute |-> RedistributionSourceEntry]), "blank", {"process_tag"})

BgpAfDestination ==
    With(DeviceEntry(<<"afi">>, {}, {}, [redistribute |-> RedistributionSourceEntry]), "blank", {"afi"})

BgpScopeDestination ==
    With(DeviceEntry(<<"vrf">>, {}, {}, [address_family |-> BgpAfDestination]), "blank", {"vrf"})

BgpDestination == DeviceEntry(<<"asn">>, {"asn"}, {}, [scope |-> BgpScopeDestination])

-----------------------------------------------------------------------------
(* One row.                                                                *)

Scalars(class) == class.required \cup class.blank \cup class.optional

(* Wire fields the class neither models nor excludes: a gap in coverage,
   reported, but no reason to keep the row out of the mirror. *)
Unsupported(item, class) ==
    DOMAIN item \ (Scalars(class) \cup DOMAIN class.lists \cup class.excluded)

Value(item, class, n) ==
    IF n \in DOMAIN item THEN item[n] ELSE IF n \in class.blank THEN "" ELSE None

(* IS-IS level names are folded to their YANG form. *)
CanonicalLevel(n, v) == IF n \in {"is_type", "circuit_type"} /\ v = "level-2" THEN "level-2-only" ELSE v

AllowEmptyIdentity == {"vrf", "process_tag", "next_hop", "source_ref"}

(* A user on an SNMP host that is not version 3. *)
SecurityUserMisplaced(item, class) ==
    /\ {"user", "version"} \subseteq class.optional
    /\ Value(item, class, "user") # None
    /\ Value(item, class, "version") # "3"

Validates(item, class) ==
    /\ \A n \in class.required : Value(item, class, n) # None
    /\ \A n \in class.blank : Value(item, class, n) # None
    /\ \A n \in Scalars(class) : Value(item, class, n) # Bad
    /\ \A i \in 1 .. Len(class.identity) :
          class.identity[i] \notin AllowEmptyIdentity \cup class.blank => Value(item, class, class.identity[i]) # ""
    /\ ~SecurityUserMisplaced(item, class)

(* The identity of an entry; a route's vrf and next hop default to "". *)
EntryKey(e, class) ==
    [i \in 1 .. Len(class.identity) |->
        IF e[class.identity[i]] = None /\ class.identity[i] \in {"vrf", "next_hop"} THEN ""
        ELSE e[class.identity[i]]]

-----------------------------------------------------------------------------
(* Lists of rows.                                                          *)

Rejection(at, reason) == [at |-> at, reason |-> reason]

(* A gap in coverage does not keep the row out of the mirror. *)
BlocksMaterialization(r) == r.reason \notin {"unsupported", "integer"}

(* ("@@ <<>>" leaves a function as it is, and has TLC evaluate it once.) *)
RECURSIVE ProjectEntries(_, _, _)

ProjectChildren(item, class, at) ==
    [n \in DOMAIN class.lists |->
        IF n \in DOMAIN item THEN ProjectEntries(item[n], class.lists[n], Append(at, n))
        ELSE [entries |-> <<>>, rejected |-> {}]] @@ <<>>

ProjectedEntry(item, class, children) ==
    [n \in Scalars(class) \cup DOMAIN class.lists |->
        IF n \in DOMAIN class.lists THEN children[n].entries
        ELSE CanonicalLevel(n, Value(item, class, n))]
    @@ ("present" :> DOMAIN item)

(* Whether the list already holds a row of this identity. *)
Repeats(acc, e, class) == EntryKey(e, class) \in acc.seen

(* One item of a list: the first row of an identity wins, every row that   *)
(* stays out is recorded with its place and reason.                        *)
ProjectItem(acc, item, class, at) ==
    IF item = NotObject THEN [acc EXCEPT !.rejected = @ \cup {Rejection(at, "object")}]
    ELSE LET gaps     == IF Unsupported(item, class) = {} THEN {} ELSE {Rejection(at, "unsupported")}
             children == ProjectChildren(item, class, at)
             below    == UNION {children[n].rejected : n \in DOMAIN children}
             e        == ProjectedEntry(item, class, children)
             reject(why) == [acc EXCEPT !.rejected = @ \cup gaps \cup below \cup {Rejection(at, why)}]
         IN  IF \E n \in DOMAIN item : item[n] = Clash
             THEN [acc EXCEPT !.rejected = @ \cup gaps \cup {Rejection(at, "aliases")}]
             ELSE IF ~Validates(item, class) THEN reject("invalid")
             ELSE IF Repeats(acc, e, class) THEN reject("duplicate")
             ELSE [entries  |-> Append(acc.entries, e),
                   rejected |-> acc.rejected \cup gaps \cup below,
                   seen     |-> acc.seen \cup {EntryKey(e, class)}]

ProjectEntries(raw, class, at) ==
    LET done == FoldLeftDomain(LAMBDA acc, i : ProjectItem(acc, raw[i], class, Append(at, ToString(i))),
                               [entries |-> <<>>, rejected |-> {}, seen |-> {}], raw)
    IN  [entries |-> done.entries, rejected |-> done.rejected]

(* The copy of an entry that is published: no credential, only whether
   there was one. *)
RECURSIVE ObservationPayload(_, _)

ObservationPayload(e, class) ==
    [n \in DOMAIN e |->
        IF n \in class.credentials THEN IF Empty(e[n]) THEN e[n] ELSE "set"
        ELSE IF n \in DOMAIN class.lists
             THEN [i \in 1 .. Len(e[n]) |-> ObservationPayload(e[n][i], class.lists[n])]
        ELSE e[n]] @@ <<>>

-----------------------------------------------------------------------------
(* The sections: which wire collections a family reads, and their classes. *)

Document(section, classes) ==
    LET parts == [n \in DOMAIN classes |->
                     IF n \in DOMAIN section THEN ProjectEntries(section[n], classes[n], <<n>>)
                     ELSE [entries |-> <<>>, rejected |-> {}]] @@ <<>>
    IN  [lists    |-> [n \in DOMAIN classes |-> parts[n].entries],
         classes  |-> classes,
         rejected |-> UNION {parts[n].rejected : n \in DOMAIN classes}]

(* A collection that two names spell differently is empty and blocked. *)
CollectionValue(section, names, classes) ==
    LET n == CHOOSE n \in DOMAIN classes : TRUE
        sent == {a \in names : a \in DOMAIN section}
    IN  IF \E a, b \in sent : section[a] # section[b]
        THEN [lists |-> [m \in DOMAIN classes |-> <<>>], classes |-> classes,
              rejected |-> {Rejection(<<n>>, "aliases")}]
        ELSE Document(IF sent = {} THEN <<>> ELSE n :> section[CHOOSE a \in sent : TRUE], classes)

ProjectVlans(s) == CollectionValue(s, {"vlan", "vlans"}, [vlan |-> VlanEntry])

ProjectSvis(s) == Document(s, [interface |-> SviEntry])

ProjectSubinterfaces(s) == Document(s, [interface |-> SubinterfaceEntry])

ProjectLagConfig(s) == Document(s, [lag |-> LagConfigEntry])

ProjectLagTopology(s) == Document(s, [lag |-> LagTopologyEntry])

ProjectBfd(s) == Document(s, [interface |-> BfdEntry])

ProjectL2Services(s) == Document(s, [service |-> L2ServiceEntry])

ProjectLogging(s) == Document(s, [host |-> LoggingHostEntry, local_levels |-> LoggingLevelsEntry])

ProjectSnmp(s) ==
    Document(s, [community |-> SnmpCommunityEntry, v3_user |-> SnmpUserEntry, host |-> SnmpHostEntry,
                 system |-> SnmpSystemEntry])

ProjectStaticRoutes(s) == Document(s, [route |-> StaticRouteEntry])

ProjectBgp(s) == Document(s, [router |-> BgpRouterEntry])

ProjectIsis(s) == Document(s, [process |-> IsisProcessEntry, interface |-> IsisInterfaceEntry])

ProjectOspf(s) == Document(s, [instance |-> OspfInstanceEntry, interface |-> OspfInterfaceEntry])

(* The statements of every destination; the ones that are published flat
   stay below their destination here. *)
ProjectRedistribution(s) ==
    Document(s, [instance |-> OspfDestination, process |-> IsisDestination, router |-> BgpDestination])

(* The community dialect of the device's NED, by one member that differs. *)
ToCanonical(v) == IF v = "native" THEN "canonical" ELSE v

ProjectRoutePolicy(s) ==
    LET doc == Document(s, [prefix_list |-> PolicyPrefixList, community_list |-> PolicyCommunityList,
                            as_path |-> PolicyAsPath, route_map |-> PolicyRouteMap])
        member(e) == [e EXCEPT !.community = ToCanonical(@)]
        canon(l)  == [l EXCEPT !.community_list_entry = [i \in 1 .. Len(@) |-> member(l.community_list_entry[i])]]
        lists     == doc.lists.community_list
    IN  [doc EXCEPT !.lists.community_list = [i \in 1 .. Len(lists) |-> canon(lists[i])]]

(* An MTU that is no integer drops the leaf and keeps the row. *)
ProjectInterfaceMtu(s) ==
    LET leaves  == {"mtu", "ip_mtu", "mpls_mtu"}
        bad(i)  == {n \in leaves : n \in DOMAIN s.interface[i] /\ s.interface[i][n] = Bad}
        mend(i) == [n \in DOMAIN s.interface[i] |-> IF n \in bad(i) THEN None ELSE s.interface[i][n]]
        doc     == Document([interface |-> [i \in 1 .. Len(s.interface) |-> mend(i)]],
                            [interface |-> InterfaceMtuEntry])
    IN  [doc EXCEPT !.rejected = @ \cup UNION {{Rejection(<<"interface", ToString(i), n>>, "integer") : n \in bad(i)}
                                               : i \in 1 .. Len(s.interface)}]

(* Addresses are not keyed: an interface or an address sent twice is kept  *)
(* twice.  The family, the secondary flag and the vrf have defaults.       *)
ProjectAddress(a) ==
    [address   |-> a.address,
     family    |-> IF Empty(Value(a, AddressEntry, "family")) THEN "ipv4" ELSE a.family,
     secondary |-> IF Value(a, AddressEntry, "secondary") = None THEN "false" ELSE a.secondary,
     vrf       |-> IF Value(a, AddressEntry, "vrf") = None THEN "" ELSE a.vrf,
     present   |-> DOMAIN a]

ProjectInterfaceIps(s) ==
    LET rows     == s.interface
        named(i) == rows[i] # NotObject /\ ~Empty(Value(rows[i], InterfaceIpEntry, "interface_name"))
        whole(i) == named(i) /\ Validates(rows[i], InterfaceIpEntry)
        well(a)  == a # NotObject /\ Validates(a, AddressEntry)
        port(i)  == Value(rows[i], InterfaceIpEntry, "bound_port")
        entry(i) == LET kept == SelectSeq(rows[i].address, well)
                    IN  [interface_name |-> rows[i].interface_name,
                         bound_port |-> IF Empty(port(i)) THEN None ELSE port(i),
                         address |-> [j \in 1 .. Len(kept) |-> ProjectAddress(kept[j])],
                         present |-> {"address"}]
        at(i)    == <<"interface", ToString(i)>>
        bad(i)   == {j \in 1 .. Len(rows[i].address) : ~well(rows[i].address[j])}
        places   == 1 .. Len(rows)
    IN  [lists    |-> [interface |-> FoldLeftDomain(LAMBDA acc, i : IF whole(i) THEN Append(acc, entry(i)) ELSE acc,
                                                    <<>>, rows)],
         classes  |-> [interface |-> InterfaceIpEntry],
         rejected |-> {Rejection(at(i), "invalid") : i \in {i \in places : ~whole(i)}}
                      \cup UNION {{Rejection(at(i) \o <<"address", ToString(j)>>, "invalid") : j \in bad(i)}
                                  : i \in {i \in places : named(i)}}]

=============================================================================
