--------------------------- MODULE IntentEncoders ---------------------------
(***************************************************************************)
(* The wire encoders of nso/apply.py: a section's stored rows in, the      *)
(* entries of its container out.  An entry is the list it stands in, its   *)
(* key, and the leaves it emits.  Nested lists are flattened; a nested     *)
(* entry's key starts with its parent's.  Each encoder states, column by   *)
(* column, whether it emits always, when the value is not None, or when it *)
(* is truthy.                                                              *)
(***************************************************************************)
EXTENDS IntentTables

Entry(list, key, leaves) == [list |-> list, key |-> key, leaves |-> leaves]

(* A column outside the row's columns is unset. *)
Col(r, c) == IF c \in DOMAIN r THEN r[c] ELSE None

(* The leaves of a row: columns emitted always, when set, and when truthy. *)
Emits(r, always, notNone, truthy) ==
    {<<c, r[c]>> : c \in {c \in DOMAIN r : \/ c \in always
                                           \/ c \in notNone /\ r[c] # None
                                           \/ c \in truthy /\ Truthy(r[c])}}

Listed(list, table, Leaves(_)) == {Entry(list, k, Leaves(table[k])) : k \in DOMAIN table}

-----------------------------------------------------------------------------
(* One list, one table.                                                    *)

EncodeVlan(rows) == Listed("vlan", rows.vlan_intent, LAMBDA r : Emits(r, {}, {}, {"name"}))

EncodeSvi(rows) == Listed("interface", rows.svi_intent, LAMBDA r : Emits(r, {}, {}, {"vrf"}))

BuildSubifInterfaces(table) ==
    Listed("interface", table, LAMBDA r : Emits(r, {"parent_interface"}, {}, {"vrf"}))

EncodeSubinterface(rows) == BuildSubifInterfaces(rows.subinterface_intent)

EncodeBfd(rows) ==
    Listed("interface", rows.bfd_intent,
           LAMBDA r : Emits(r, {"micro_bfd"}, {"min_tx", "min_rx", "multiplier"}, {}))

EncodeInterfaceMtu(rows) ==
    Listed("interface", rows.interface_mtu_intent, LAMBDA r : Emits(r, {}, {"mtu", "ip_mtu", "mpls_mtu"}, {}))

EncodeL2Sap(rows) ==
    Listed("sap", rows.l2_sap_intent, LAMBDA r : Emits(r, {}, {"outer_tag", "inner_tag"}, {"port"}))

-----------------------------------------------------------------------------
(* Logging: the hosts, and the local levels that are set.                  *)

LocalLevels(r) == Emits(r, {}, {}, {"console_severity", "monitor_severity", "module_severity"})

EncodeLogging(rows) ==
    Listed("host", rows.logging_host_intent,
           LAMBDA r : Emits(r, {}, {"port"}, {"severity", "facility", "transport", "vrf", "source"}))
    \cup {e \in Listed("local-levels", rows.logging_levels_intent, LocalLevels) : e.leaves # {}}

(* SNMP: three keyed lists and the system singleton's own leaves. *)
EncodeSnmp(rows) ==
    Listed("community", rows.snmp_community_intent, LAMBDA r : Emits(r, {"access"}, {}, {"acl"}))
    \cup Listed("v3-user", rows.snmp_v3_user_intent,
                LAMBDA r : Emits(r, {}, {}, {"group_name", "auth_protocol", "priv_protocol",
                                             "auth_vault_ref", "priv_vault_ref"}))
    \cup Listed("host", rows.snmp_host_intent,
                LAMBDA r : Emits(r, {"version"}, {"port"}, {"community_or_user"}))
    \cup Listed("system-info", rows.snmp_system_info_intent,
                LAMBDA r : Emits(r, {}, {"location", "contact"}, {}))

-----------------------------------------------------------------------------
(* IS-IS: process entries with the redistribution, flex-algo and level     *)
(* entries nested in them.  A nested row whose process has no row of its   *)
(* own still gets a minimal process entry.                                 *)

RedistributeEntry(r) == Emits(r, {}, {"metric"}, {"route_map", "metric_type"})

IsisProcessLeaves(r) ==
    Emits(r, {}, {"net", "overload_bit", "microloop_avoidance"},
          {"is_type", "metric_style", "fast_reroute", "area_auth_type", "domain_auth_type"})
    \cup (IF Truthy(Col(r, "area_auth_type")) THEN Emits(r, {}, {"area_auth_key"}, {}) ELSE {})
    \cup (IF Truthy(Col(r, "domain_auth_type")) THEN Emits(r, {}, {"domain_auth_key"}, {}) ELSE {})

IsisFlexAlgoLeaves(r) ==
    Emits(r, {}, {"priority"}, {"metric_type", "admin_group_exclude",
                                "admin_group_include_any", "admin_group_include_all"})

IsisLevelLeaves(r) == Emits(r, {}, {"wide_metrics_only", "labeled_preference", "disabled"}, {})

BuildIsisInterfacePayload(table) ==
    Listed("interface-config", table,
           LAMBDA r : Emits(r, {"passive"}, {"metric", "bfd_enabled", "frr_enabled"},
                            {"circuit_type", "network_type", "frr_protection"}))

(* The process entries a section's nested rows hang from, by process tag. *)
BuildIsisProcessPayload(procs, redist, flex, levels) ==
    LET nested == {<<k[1]>> : k \in DOMAIN redist \cup DOMAIN flex \cup DOMAIN levels}
    IN  Listed("process-config", procs, IsisProcessLeaves)
        \cup {Entry("process-config", tag, {}) : tag \in nested \ DOMAIN procs}
        \cup Listed("redistribute", redist, RedistributeEntry)
        \cup Listed("flex-algo", flex, IsisFlexAlgoLeaves)
        \cup Listed("level", levels, IsisLevelLeaves)

EncodeIsis(rows) ==
    BuildIsisInterfacePayload(rows.isis_interface_intent)
    \cup BuildIsisProcessPayload(rows.isis_process_intent, rows.redistribution_intent,
                                 rows.isis_flex_algo_intent, rows.isis_level_intent)

-----------------------------------------------------------------------------
(* OSPF: the admin state is always asserted, None as enabled.              *)

OspfProcessLeaves(r) == Emits(r, {"enabled"}, {}, {"router_id", "vrf"})

OspfInterfaceLeaves(r) ==
    Emits(r, {"passive"}, {"priority", "cost"}, {"network_type", "auth_type"})
    \cup (IF Truthy(Col(r, "auth_type")) THEN Emits(r, {}, {}, {"auth_key"}) ELSE {})

EncodeOspf(rows) ==
    LET orphans == {<<k[1]>> : k \in DOMAIN rows.redistribution_intent} \ DOMAIN rows.ospf_instance_intent
    IN  Listed("process-config", rows.ospf_instance_intent, OspfProcessLeaves)
        \cup {Entry("process-config", pid, {}) : pid \in orphans}
        \cup Listed("redistribute", rows.redistribution_intent, RedistributeEntry)
        \cup Listed("interface-config", rows.ospf_interface_intent, OspfInterfaceLeaves)

-----------------------------------------------------------------------------
(* BGP: router, scope, address family, peer and peer address family, each  *)
(* keyed below its parent.  A redistribution row synthesises the parents   *)
(* it lacks.                                                               *)

BgpRedistributeEntry(r) == Emits(r, {}, {"metric"}, {"route_map"})

BgpPeerLeaves(r) ==
    Emits(r, {"enabled"}, {"peer_group", "remote_as", "local_as", "ttl", "password", "source"}, {})

BgpPeerAfLeaves(r) ==
    Emits(r, {"enabled"}, {}, {"routemap_in", "routemap_out", "prefixlist_in", "prefixlist_out"})

BgpScopeEntries(rows) ==
    Listed("scope", rows.bgp_scope_intent, LAMBDA r : {})
    \cup Listed("address-family", rows.bgp_af_intent, LAMBDA r : {})
    \cup Listed("peer", rows.bgp_peer_intent, BgpPeerLeaves)
    \cup Listed("peer-address-family", rows.bgp_peer_af_intent, BgpPeerAfLeaves)

BgpAttachRedistribution(rows) ==
    LET dest == DOMAIN rows.redistribution_intent
    IN  Listed("redistribute", rows.redistribution_intent, BgpRedistributeEntry)
        \cup {Entry("router", k, {}) : k \in {<<d[1]>> : d \in dest} \ DOMAIN rows.bgp_router_intent}
        \cup {Entry("scope", SubSeq(d, 1, 2), {}) : d \in dest}
        \cup {Entry("address-family", SubSeq(d, 1, 3), {}) : d \in dest}

EncodeBgp(rows) ==
    Listed("router", rows.bgp_router_intent, LAMBDA r : Emits(r, {}, {}, {"router_id"}))
    \cup BgpScopeEntries(rows)
    \cup BgpAttachRedistribution(rows)

-----------------------------------------------------------------------------
(* Route policy: an object is keyed by family and name and carries its     *)
(* entries; a member the device's dialect cannot hold is left out.         *)

EncodeRoutePolicy(rows, unrepresentable) ==
    LET objs == rows.route_policy_object_intent
        ent(k) == IF "entries" \in DOMAIN objs[k] THEN objs[k].entries ELSE {}
        kept(k) == {e \in ent(k) : k[1] = "community_list" => e[1] \notin unrepresentable}
    IN  {Entry(k[1], <<k[2]>>, IF k[1] = "community_list" THEN Emits(objs[k], {"invert_match"}, {}, {}) ELSE {})
            : k \in DOMAIN objs}
        \cup UNION {{Entry("entry", k \o <<e[1]>>, {<<"leaf", e[2]>>}) : e \in kept(k)} : k \in DOMAIN objs}

-----------------------------------------------------------------------------
(* Interfaces: one entry per interface that an attribute or an address     *)
(* contributes to; attributes and addresses are two streams.  Attributes   *)
(* with intent are eligible: the PUT accepts them, and a sync or an apply  *)
(* only moves them among in_sync, drifted and apply_failed.                *)

BuildInterfaceIpBody(addresses) ==
    {Entry("ipv4-address", SubSeq(k, 1, 2), Emits(addresses[k], {"secondary"}, {}, {})) : k \in DOMAIN addresses}
    \cup {Entry("vrf", <<k[1]>>, {<<"vrf", k[3]>>}) : k \in {k \in DOMAIN addresses : k[3] # ""}}

InterfaceAttributeRows(attributes) ==
    {Entry(k[2], <<k[1]>>, {<<k[2], IF Col(attributes[k], "intent_value") = None
                                    THEN "" ELSE attributes[k].intent_value>>}) : k \in DOMAIN attributes}

EncodeInterfaceConfig(rows) ==
    {Entry("interface", <<k[1]>>, {}) : k \in DOMAIN rows.interface_intent \cup DOMAIN rows.interface_ip_intent}
    \cup InterfaceAttributeRows(rows.interface_intent)
    \cup BuildInterfaceIpBody(rows.interface_ip_intent)

=============================================================================
