----------------------------- MODULE MirrorSchema -----------------------------
(***************************************************************************)
(* The mirror's tables (store/models.py): of each, the columns of its      *)
(* unique constraint below its parent, the columns that are NOT NULL and   *)
(* the nullable ones, under the wire's names.  The lists a JSON column     *)
(* holds are rows of their own in the model and have no table here; the    *)
(* columns of the refresh itself (last_refreshed_at, refresh_source, a     *)
(* content hash) are left out.                                             *)
(***************************************************************************)
EXTENDS Sequences

Table(key, required, nullable) == [key |-> key, required |-> required, nullable |-> nullable]

DeviceVlan == Table(<<"vlan_id">>, {}, {"name"})

DeviceSvi == Table(<<"interface_name">>, {"vlan_id", "type"}, {"vrf"})

DeviceSubinterface == Table(<<"interface_name">>, {"dot1q_vlan", "type"}, {"parent_interface", "vrf"})

DeviceInterfaceMtu == Table(<<"interface_name">>, {}, {"mtu", "ip_mtu", "mpls_mtu", "bound_port"})

LagBundleConfig ==
    Table(<<"lag_id">>, {"name", "vpc_sensitive"},
          {"min_links", "system_priority", "system_id", "timer", "admin_key"})

LagMemberConfig == Table(<<"interface_name">>, {}, {"mode", "port_priority"})

LagInterface == Table(<<"name">>, {"lag_id"}, {})

LagMember == Table(<<"interface_name">>, {"mode"}, {})

DeviceBfdInterface ==
    Table(<<"interface_name">>, {"micro_bfd", "enabled"},
          {"bound_port", "min_tx", "min_rx", "multiplier"})

DeviceL2Sap ==
    Table(<<"service_name", "sap_id">>, {"service_type", "port"},
          {"service_id", "outer_tag", "inner_tag"})

DeviceLoggingHost == Table(<<"address">>, {}, {"port", "severity", "facility", "transport", "vrf", "source"})

DeviceLoggingLevels == Table(<<>>, {}, {"console_severity", "monitor_severity", "module_severity"})

SnmpCommunity == Table(<<"name">>, {"access"}, {"acl"})

SnmpV3User == Table(<<"username">>, {"has_auth_secret", "has_priv_secret"}, {})

SnmpHost == Table(<<"address">>, {}, {"version", "notify_type", "port", "user"})

SnmpSystemInfo == Table(<<>>, {}, {"location", "contact"})

DeviceStaticRoute ==
    Table(<<"vrf", "prefix", "next_hop">>, {},
          {"interface_next_hop", "next_hop_vrf", "metric", "permanent", "tag", "name"})

InterfaceIpAddress == Table(<<"interface_name", "address", "vrf">>, {"family", "secondary"}, {"bound_port"})

DeviceBgpRouter == Table(<<"asn">>, {}, {"router_id"})

DeviceBgpScope == Table(<<"vrf">>, {}, {})

DeviceBgpAddressFamily == Table(<<"af">>, {}, {})

DeviceBgpPeer ==
    Table(<<"peer_address">>, {"enabled"},
          {"peer_group", "remote_as", "local_as", "ttl", "password", "source", "bfd_enabled"})

DeviceBgpPeerAddressFamily ==
    Table(<<"af">>, {"enabled"},
          {"routemap_in", "routemap_out", "prefixlist_in", "prefixlist_out"})

DeviceBgpPeerGroup == Table(<<"name">>, {}, {"remote_as", "source"})

DeviceBgpPeerGroupAddressFamily ==
    Table(<<"af">>, {},
          {"routemap_in", "routemap_out", "prefixlist_in", "prefixlist_out"})

DeviceIsisProcess ==
    Table(<<"process_tag">>, {},
          {"net", "is_type", "metric_style", "overload_bit", "area_auth_type", "area_auth_present",
           "area_auth_key", "domain_auth_type", "domain_auth_present", "domain_auth_key",
           "spf_initial_wait", "spf_max_wait", "lsp_initial_wait", "lsp_max_wait", "lsp_lifetime",
           "lsp_refresh_interval", "lsp_mtu", "overload_on_startup", "overload_timeout", "te_enabled",
           "suppress_attached_bit", "ignore_attached_bit", "fast_reroute", "microloop_avoidance",
           "distance", "maximum_paths", "reference_bandwidth", "segment_routing_reported",
           "segment_routing_configured"})

DeviceIsisInterface ==
    Table(<<"interface_name", "af">>, {"process_tag", "passive"},
          {"circuit_type", "network_type", "metric", "bound_port", "hello_auth_type",
           "hello_auth_present", "bfd_enabled", "frr_enabled", "frr_protection", "csnp_interval",
           "retransmit_interval", "lsp_interval", "mesh_group"})

DeviceOspfInstance == Table(<<"process_id", "vrf">>, {}, {"router_id", "enabled"})

DeviceOspfInterface ==
    Table(<<"interface_name", "process_id">>, {"passive", "auth_present"},
          {"area_id", "priority", "cost", "network_type", "auth_type"})

DeviceRoutePolicyPrefixList == Table(<<"name">>, {"family"}, {})

DeviceRoutePolicyPrefixListEntry == Table(<<"sequence">>, {"action", "prefix"}, {"ge", "le"})

DeviceRoutePolicyCommunityList == Table(<<"name">>, {"invert_match"}, {})

DeviceRoutePolicyCommunityListEntry == Table(<<"sequence">>, {"action", "community"}, {})

DeviceRoutePolicyASPath == Table(<<"name">>, {}, {})

DeviceRoutePolicyASPathEntry == Table(<<"sequence">>, {"action", "pattern"}, {})

DeviceRoutePolicyRouteMap == Table(<<"name">>, {}, {})

DeviceRoutePolicyRouteMapEntry ==
    Table(<<"sequence">>, {"action"},
          {"match_prefix_lists", "match_community_lists", "match_as_paths", "match_json", "set_json"})
DeviceRedistribution ==
    Table(<<"dest_protocol", "dest_ref", "source_protocol", "source_ref">>, {}, {"route_map", "metric", "metric_type"})

-----------------------------------------------------------------------------
(* The table that mirrors each list of a family.                           *)

Tables ==
    [vlan |-> [vlan |-> DeviceVlan],
     svi |-> [interface |-> DeviceSvi],
     subinterface |-> [interface |-> DeviceSubinterface],
     interface_mtu |-> [interface |-> DeviceInterfaceMtu],
     lag_config |-> [lag |-> LagBundleConfig, member |-> LagMemberConfig],
     lag |-> [lag |-> LagInterface, member |-> LagMember],
     bfd |-> [interface |-> DeviceBfdInterface],
     l2_service |-> [saps |-> DeviceL2Sap],
     logging |-> [host |-> DeviceLoggingHost, local_levels |-> DeviceLoggingLevels],
     snmp |-> [community |-> SnmpCommunity, v3_user |-> SnmpV3User, host |-> SnmpHost, system |-> SnmpSystemInfo],
     static_route |-> [route |-> DeviceStaticRoute],
     interface_ip |-> [address |-> InterfaceIpAddress],
     bgp |-> [router |-> DeviceBgpRouter, scope |-> DeviceBgpScope, address_family |-> DeviceBgpAddressFamily,
              peer |-> DeviceBgpPeer, peer_address_family |-> DeviceBgpPeerAddressFamily,
              peer_group |-> DeviceBgpPeerGroup, peer_group_address_family |-> DeviceBgpPeerGroupAddressFamily],
     isis |-> [process |-> DeviceIsisProcess, interface |-> DeviceIsisInterface],
     redistribution |-> [redistribute |-> DeviceRedistribution],
     ospf |-> [instance |-> DeviceOspfInstance, interface |-> DeviceOspfInterface],
     route_policy |-> [prefix_list |-> DeviceRoutePolicyPrefixList,
                       prefix_list_entry |-> DeviceRoutePolicyPrefixListEntry,
                       community_list |-> DeviceRoutePolicyCommunityList,
                       community_list_entry |-> DeviceRoutePolicyCommunityListEntry,
                       as_path |-> DeviceRoutePolicyASPath, as_path_entry |-> DeviceRoutePolicyASPathEntry,
                       route_map |-> DeviceRoutePolicyRouteMap,
                       route_map_entry |-> DeviceRoutePolicyRouteMapEntry]]

=============================================================================
