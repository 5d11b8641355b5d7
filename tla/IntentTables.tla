---------------------------- MODULE IntentTables ----------------------------
(***************************************************************************)
(* The intent tables (store/models.py) and the request bodies (api/*.py)   *)
(* that replace them, one definition per table and one per entry model.    *)
(* A table maps a row key to the row's columns.  A column is abstracted to *)
(* the values the code tells apart: unset (NULL), the empty string, zero,  *)
(* the two Booleans and one ordinary value.                                *)
(***************************************************************************)
EXTENDS Sequences, FiniteSets

None == "None"

(* What a column, or a field of a request, can hold.                       *)
Opt  == {None, "", "x"}          \* str | None
Txt  == {"", "x"}                \* str = ""
Req  == {"x", "y"}               \* a required, never empty value
Num  == {None, "0", "x"}         \* int | None
Flag == {"False", "True"}        \* bool
Tri  == {None, "False", "True"}  \* bool | None
Enum == {None, "x"}              \* Literal[...] | None

(* Python truth of a column value. *)
Truthy(v) == v \notin {None, "", "0", "False"}

-----------------------------------------------------------------------------
(* The columns of each table, with what the schema lets them hold.         *)

VlanIntent           == [name |-> Enum]
SviIntent            == [vrf |-> Enum]
SubinterfaceIntent   == [parent_interface |-> Enum, vrf |-> Enum]
BfdIntent            == [min_tx |-> Num, min_rx |-> Num, multiplier |-> Num, micro_bfd |-> Flag]
InterfaceMtuIntent   == [mtu |-> Num, ip_mtu |-> Num, mpls_mtu |-> Num]
L2SapIntent          == [port |-> Txt, outer_tag |-> Num, inner_tag |-> Num]
LoggingHostIntent    == [port |-> Num, severity |-> Txt, facility |-> Txt, transport |-> Txt,
                         vrf |-> Txt, source |-> Txt]
LoggingLevelsIntent  == [console_severity |-> Opt, monitor_severity |-> Opt, module_severity |-> Opt]
SnmpCommunityIntent  == [access |-> Req, acl |-> Opt]
SnmpV3UserIntent     == [group_name |-> Opt, auth_protocol |-> Opt, priv_protocol |-> Opt,
                         auth_vault_ref |-> Opt, priv_vault_ref |-> Opt]
SnmpHostIntent       == [version |-> Req, community_or_user |-> Txt, port |-> Num]
SnmpSystemInfoIntent == [location |-> Opt, contact |-> Opt]
IsisInterfaceIntent  == [circuit_type |-> Opt, network_type |-> Opt, metric |-> Num, passive |-> Flag,
                         bfd_enabled |-> Tri, frr_enabled |-> Tri, frr_protection |-> Opt]
IsisProcessIntent    == [net |-> Opt, is_type |-> Opt, metric_style |-> Opt, overload_bit |-> Tri,
                         area_auth_type |-> Opt, area_auth_key |-> Opt,
                         domain_auth_type |-> Opt, domain_auth_key |-> Opt,
                         fast_reroute |-> Opt, microloop_avoidance |-> Tri]
IsisLevelIntent      == [wide_metrics_only |-> Tri, labeled_preference |-> Num, disabled |-> Tri]
IsisFlexAlgoIntent   == [metric_type |-> Opt, priority |-> Num, admin_group_exclude |-> Opt,
                         admin_group_include_any |-> Opt, admin_group_include_all |-> Opt]
RedistributionIntent == [route_map |-> Opt, metric |-> Num, metric_type |-> Opt]
OspfInstanceIntent   == [router_id |-> Opt, vrf |-> Txt, enabled |-> Tri]
OspfInterfaceIntent  == [passive |-> Flag, priority |-> Num, cost |-> Num, network_type |-> Opt,
                         auth_type |-> Opt, auth_key |-> Opt]
BgpRouterIntent      == [router_id |-> Opt]
BgpPeerIntent        == [enabled |-> Flag, peer_group |-> Opt, remote_as |-> Opt, local_as |-> Opt,
                         ttl |-> Num, password |-> Opt, source |-> Opt]
BgpPeerAfIntent      == [enabled |-> Flag, routemap_in |-> Opt, routemap_out |-> Opt,
                         prefixlist_in |-> Opt, prefixlist_out |-> Opt]
InterfaceIntent      == [intent_value |-> Opt]
InterfaceIpIntent    == [secondary |-> Flag]

(* A policy object holds its invert flag and its entries, a set of         *)
(* <<identity, leaf>> pairs: a route-map term is identified by its         *)
(* sequence, a community member or a prefix line is its own identity.      *)
RoutePolicyEntries == {<<"10", "x">>, <<"10", "">>, <<"20", "x">>}

RoutePolicyObjectIntent == [invert_match |-> Flag, entries |-> SUBSET RoutePolicyEntries]

(* Tables with no column of interest: the row is its key. *)
KeyOnly == [t \in {} |-> {}]

-----------------------------------------------------------------------------
(* What the request of each handler can carry for those columns.           *)

VlanEntry           == [name |-> Txt]
SviEntry            == [vrf |-> Txt]
SubinterfaceEntry   == [parent_interface |-> Txt, vrf |-> Txt]
BfdEntry            == BfdIntent
InterfaceMtuEntry   == InterfaceMtuIntent
L2SapEntry          == L2SapIntent
LoggingHostEntry    == LoggingHostIntent
LocalLevelsEntry    == [console_severity |-> Enum, monitor_severity |-> Enum, module_severity |-> Enum]
SnmpCommunityEntry  == SnmpCommunityIntent
SnmpV3UserEntry     == [group_name |-> Opt, auth_protocol |-> Enum, priv_protocol |-> Enum,
                        auth_vault_ref |-> Opt, priv_vault_ref |-> Opt]
SnmpHostEntry       == [version |-> Req, community_or_user |-> Txt, port |-> Enum]
SnmpSystemInfoEntry == SnmpSystemInfoIntent
IsisInterfaceEntry  == IsisInterfaceIntent
IsisProcessEntry    == IsisProcessIntent
IsisLevelEntry      == IsisLevelIntent
IsisFlexAlgoEntry   == IsisFlexAlgoIntent
RedistributionEntry == RedistributionIntent
OspfInstanceEntry   == OspfInstanceIntent
OspfInterfaceEntry  == OspfInterfaceIntent
BgpRouterModel      == BgpRouterIntent
BgpPeerModel        == [BgpPeerIntent EXCEPT !.remote_as = Enum, !.local_as = Enum]
BgpPeerAfModel      == BgpPeerAfIntent
IntentAttribute     == InterfaceIntent
IpAddressEntry      == InterfaceIpIntent

=============================================================================
