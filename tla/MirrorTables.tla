----------------------------- MODULE MirrorTables -----------------------------
(***************************************************************************)
(* The read mirror: per family, the materializer that replaces its tables  *)
(* from a section (core/<family>.py) and the GET handler that serves them  *)
(* (api/<family>.py).                                                      *)
(*                                                                         *)
(* A row is the list it mirrors, the key of its table's unique constraint  *)
(* below its parents' keys, and its columns, under the wire's names.  JSON *)
(* columns that hold lists are rows below the row that holds them.         *)
(***************************************************************************)
EXTENDS DeviceRead, MirrorSchema

Row(list, key, cols) == [list |-> list, key |-> key, cols |-> cols]

Rows(entries, One(_)) == FlattenSeq([i \in 1 .. Len(entries) |-> One(entries[i])])

Copied(e, names) == [n \in names |-> e[n]]

OrNone(v) == IF v = "" THEN None ELSE v

OrBlank(v) == IF v = None THEN "" ELSE v

Or(v, default) == IF Empty(v) THEN default ELSE v

AsBool(v) == IF v = "true" THEN "true" ELSE "false"

(* What a materializer leaves in its session: the replaced rows, or a      *)
(* refusal raised before or after it deleted the old ones.                 *)
Replaced(rows) == [ok |-> TRUE, deleted |-> TRUE, rows |-> rows]
RefusedUntouched == [ok |-> FALSE, deleted |-> FALSE, rows |-> <<>>]
RefusedDeleted == [ok |-> FALSE, deleted |-> TRUE, rows |-> <<>>]

Blocked(doc) == \E r \in doc.rejected : BlocksMaterialization(r)

-----------------------------------------------------------------------------
(* Switching.  VLAN, SVI and subinterface refuse a section with a row that *)
(* cannot be projected; the others log it and mirror the rest.             *)

UpsertVlans(section) ==
    LET doc == ProjectVlans(section)
    IN  IF Blocked(doc) THEN RefusedUntouched
        ELSE Replaced(Rows(doc.lists.vlan, LAMBDA e :
                 <<Row("vlan", <<e.vlan_id>>, [name |-> OrBlank(e.name)])>>))

UpsertSvi(section) ==
    LET doc == ProjectSvis(section)
    IN  IF Blocked(doc) THEN RefusedDeleted
        ELSE Replaced(Rows(doc.lists.interface, LAMBDA e :
                 <<Row("interface", <<e.interface_name>>,
                       [vlan_id |-> e.vlan_id, type |-> Or(e.type, "svi"), vrf |-> OrNone(e.vrf)])>>))

UpsertSubinterface(section) ==
    LET doc == ProjectSubinterfaces(section)
    IN  IF Blocked(doc) THEN RefusedDeleted
        ELSE Replaced(Rows(doc.lists.interface, LAMBDA e :
                 <<Row("interface", <<e.interface_name>>,
                       [parent_interface |-> OrNone(e.parent_interface), dot1q_vlan |-> e.dot1q_vlan,
                        type |-> Or(e.type, "subinterface"), vrf |-> OrNone(e.vrf)])>>))

UpsertInterfaceMtu(section) ==
    Replaced(Rows(ProjectInterfaceMtu(section).lists.interface, LAMBDA e :
        <<Row("interface", <<e.interface_name>>,
              Copied(e, {"mtu", "ip_mtu", "mpls_mtu"}) @@ [bound_port |-> OrNone(e.bound_port)])>>))

UpsertLagConfigs(section) ==
    Replaced(Rows(ProjectLagConfig(section).lists.lag, LAMBDA b :
        <<Row("lag", <<b.lag_id>>,
              Copied(b, {"name", "min_links", "system_priority", "system_id", "timer", "admin_key"})
              @@ [vpc_sensitive |-> AsBool(b.vpc_sensitive)])>>
        \o Rows(b.member, LAMBDA m :
               <<Row("member", <<b.lag_id, m.interface_name>>, Copied(m, {"mode", "port_priority"}))>>)))

UpsertLags(section) ==
    Replaced(Rows(ProjectLagTopology(section).lists.lag, LAMBDA l :
        <<Row("lag", <<l.name>>, [lag_id |-> l.lag_id])>>
        \o Rows(l.member, LAMBDA m :
               <<Row("member", <<l.name, m.interface_name>>,
                     [mode |-> IF m.mode = None THEN "unknown" ELSE m.mode])>>)))

-----------------------------------------------------------------------------
(* Services.                                                               *)

(* Mutant: the two intervals are swapped. *)
UpsertBfdDataSwapped(section) ==
    Replaced(Rows(ProjectBfd(section).lists.interface, LAMBDA e :
        <<Row("interface", <<e.interface_name>>,
              [min_tx |-> e.min_rx, min_rx |-> e.min_tx, multiplier |-> e.multiplier]
              @@ [bound_port |-> OrNone(e.bound_port), micro_bfd |-> AsBool(e.micro_bfd),
                  enabled |-> IF "enabled" \in e.present THEN AsBool(e.enabled) ELSE "true"])>>))

UpsertBfdData(section) ==
    Replaced(Rows(ProjectBfd(section).lists.interface, LAMBDA e :
        <<Row("interface", <<e.interface_name>>,
              Copied(e, {"min_tx", "min_rx", "multiplier"})
              @@ [bound_port |-> OrNone(e.bound_port), micro_bfd |-> AsBool(e.micro_bfd),
                  enabled |-> IF "enabled" \in e.present THEN AsBool(e.enabled) ELSE "true"])>>))

(* Mutant: one row per service. *)
UpsertL2SapsOnce(section) ==
    Replaced(Rows(ProjectL2Services(section).lists.service, LAMBDA s :
        Rows(IF s.saps = <<>> THEN <<>> ELSE <<s.saps[1]>>, LAMBDA sap :
            <<Row("saps", <<s.service_name, sap.sap_id>>,
                  [service_type |-> OrBlank(s.service_type), service_id |-> s.service_id,
                   port |-> OrBlank(sap.port)] @@ Copied(sap, {"outer_tag", "inner_tag"}))>>)))

(* One row per SAP, with its service's columns repeated. *)
UpsertL2Saps(section) ==
    Replaced(Rows(ProjectL2Services(section).lists.service, LAMBDA s :
        Rows(s.saps, LAMBDA sap :
            <<Row("saps", <<s.service_name, sap.sap_id>>,
                  [service_type |-> OrBlank(s.service_type), service_id |-> s.service_id,
                   port |-> OrBlank(sap.port)] @@ Copied(sap, {"outer_tag", "inner_tag"}))>>)))

UpsertLoggingConfig(section) ==
    LET doc == ProjectLogging(section)
    IN  Replaced(Rows(doc.lists.host, LAMBDA h :
                     <<Row("host", <<h.address>>,
                           Copied(h, {"port", "severity", "facility", "transport", "vrf", "source"}))>>)
                 \o Rows(SelectSeq(doc.lists.local_levels,
                                   LAMBDA l : l.present \cap Scalars(LoggingLevelsEntry) # {}), LAMBDA l :
                        <<Row("local_levels", <<>>, Copied(l, Scalars(LoggingLevelsEntry)))>>))

(* A community whose name is no fingerprint refuses the whole section. *)
UpsertSnmpConfig(section) ==
    LET doc == ProjectSnmp(section)
        unprinted(c) == c = NotObject \/ Value(c, SnmpCommunityEntry, "name") \in {None, "", Bad}
        community(c) == Row("community", <<c.name>>,
                            [access |-> IF "access" \in c.present THEN c.access ELSE "RO", acl |-> OrNone(c.acl)])
        user(u) == Row("v3_user", <<u.username>>, [has_auth_secret |-> AsBool(u.has_auth_secret),
                                                   has_priv_secret |-> AsBool(u.has_priv_secret)])
        host(h) == Row("host", <<h.address>>, [n \in {"version", "notify_type", "port", "user"} |-> OrNone(h[n])])
        system(s) == Row("system", <<>>, [location |-> OrNone(s.location), contact |-> OrNone(s.contact)])
    IN  IF \E i \in 1 .. Len(section.community) : unprinted(section.community[i]) THEN RefusedUntouched
        ELSE Replaced(Rows(doc.lists.community, LAMBDA c : <<community(c)>>)
                      \o Rows(doc.lists.v3_user, LAMBDA u : <<user(u)>>)
                      \o Rows(doc.lists.host, LAMBDA h : <<host(h)>>)
                      \o Rows(doc.lists.system, LAMBDA s :
                             IF Empty(s.location) /\ Empty(s.contact) THEN <<>> ELSE <<system(s)>>))

UpsertStaticRoutes(section) ==
    Replaced(Rows(ProjectStaticRoutes(section).lists.route, LAMBDA r :
        <<Row("route", <<OrBlank(r.vrf), r.prefix, OrBlank(r.next_hop)>>,
              Copied(r, {"interface_next_hop", "next_hop_vrf", "metric", "permanent", "tag", "name"}))>>))

UpsertIpAddresses(section) ==
    Replaced(Rows(ProjectInterfaceIps(section).lists.interface, LAMBDA i :
        Rows(i.address, LAMBDA a :
            <<Row("address", <<i.interface_name, a.address, a.vrf>>,
                  Copied(a, {"family", "secondary"}) @@ [bound_port |-> i.bound_port])>>)))

-----------------------------------------------------------------------------
(* Routing.  A redistribute entry of a routing section whose source AS is  *)
(* malformed, or spelled in two ways, refuses the section.                 *)

SourceAsNumbers(sources) ==
    \A i \in 1 .. Len(sources) :
        sources[i] # NotObject /\ ("source_ref" \in DOMAIN sources[i] => sources[i].source_ref # Bad)

Nested(item, n) == IF n \in DOMAIN item THEN item[n] ELSE <<>>

ValidSourceAsNumbers(items) ==
    \A i \in 1 .. Len(items) : items[i] # NotObject /\ SourceAsNumbers(Nested(items[i], "redistribute"))

ValidBgpPeers(peers) ==
    \A i \in 1 .. Len(peers) :
        /\ peers[i] # NotObject
        /\ \A n \in {"remote_as", "local_as"} : n \in DOMAIN peers[i] => peers[i][n] # Bad

ValidateBgpAsNumbers(routers) ==
    /\ \A i \in 1 .. Len(routers) :
          /\ routers[i] # NotObject
          /\ Value(routers[i], BgpRouterEntry, "asn") \notin {None, Bad}
          /\ \A s \in ToSet(Nested(routers[i], "scope")) :
                /\ s # NotObject
                /\ ValidSourceAsNumbers(Nested(s, "address_family"))
                /\ ValidBgpPeers(Nested(s, "peer"))
                /\ ValidBgpPeers(Nested(s, "peer_group"))
    /\ \A i, j \in 1 .. Len(routers) : routers[i].asn = routers[j].asn => i = j

Policies == {"routemap_in", "routemap_out", "prefixlist_in", "prefixlist_out"}

PafPolicy(p) == [n \in Policies |-> OrNone(p[n])]

EnabledUnlessFalse(e) == IF "enabled" \in e.present THEN AsBool(e.enabled) ELSE "true"

AddAddressFamilies(key, afs) ==
    Rows(afs, LAMBDA a : <<Row("address_family", Append(key, a.afi), <<>>)>>)

(* The first row of each key; later ones are dropped. *)
FirstWins(rows) ==
    FoldLeft(LAMBDA acc, r :
                 IF \E i \in 1 .. Len(acc) : acc[i].list = r.list /\ acc[i].key = r.key THEN acc ELSE Append(acc, r),
             <<>>, rows)

AddPeerAddressFamilies(key, afs) ==
    Rows(afs, LAMBDA a : <<Row("peer_address_family", Append(key, a.afi),
                               PafPolicy(a) @@ [enabled |-> EnabledUnlessFalse(a)])>>)

(* A neighbour listed under several groups is one peer: the first          *)
(* occurrence's columns, enabled when any is, and the families of all.     *)
InsertBgpPeers(key, peers) ==
    LET at(p) == Append(key, p.peer_address)
        same(p) == {i \in 1 .. Len(peers) : peers[i].peer_address = p.peer_address}
        enabled(p) == IF \E i \in same(p) : EnabledUnlessFalse(peers[i]) = "true" THEN "true" ELSE "false"
        peer(p) == Row("peer", at(p),
                       Copied(p, {"remote_as", "local_as", "ttl", "password", "bfd_enabled"})
                       @@ [enabled |-> enabled(p), peer_group |-> OrNone(p.peer_group), source |-> OrNone(p.source)])
    IN  FirstWins(Rows(peers, LAMBDA p : <<peer(p)>> \o AddPeerAddressFamilies(at(p), p.peer_address_family)))

AddPeerGroupAddressFamilies(key, afs) ==
    Rows(afs, LAMBDA a : <<Row("peer_group_address_family", Append(key, a.afi), PafPolicy(a))>>)

InsertBgpPeerGroups(key, groups) ==
    Rows(groups, LAMBDA g :
        <<Row("peer_group", Append(key, g.name), [remote_as |-> g.remote_as, source |-> OrNone(g.source)])>>
        \o AddPeerGroupAddressFamilies(Append(key, g.name), g.peer_group_address_family))

InsertBgpScope(key, scope) ==
    LET below == Append(key, scope.vrf)
    IN  <<Row("scope", below, <<>>)>>
        \o AddAddressFamilies(below, scope.address_family)
        \o InsertBgpPeers(below, scope.peer)
        \o InsertBgpPeerGroups(below, scope.peer_group)

UpsertBgpData(section) ==
    IF ~ValidateBgpAsNumbers(section.router) THEN RefusedUntouched
    ELSE Replaced(Rows(ProjectBgp(section).lists.router, LAMBDA r :
             <<Row("router", <<r.asn>>, [router_id |-> OrNone(r.router_id)])>>
             \o Rows(r.scope, LAMBDA s : InsertBgpScope(<<r.asn>>, s))))

(* The wire payload of a nested entry: the fields that were sent. *)
EntryPayload(list, key, e, class) ==
    Row(list, key \o EntryKey(e, class), Copied(e, e.present \cap Scalars(class)))

Payloads(list, key, entries, class) == Rows(entries, LAMBDA e : <<EntryPayload(list, key, e, class)>>)

UpsertIsisProcess(p) ==
    LET key == <<p.process_tag>>
        columns == Scalars(IsisProcessEntry) \ {"process_tag"}
    IN  <<Row("process", key, Copied(p, columns))>>
        \o Payloads("setting", key, p.setting, IsisSettingEntry)
        \o Payloads("level", key, p.level, IsisLevelEntry)
        \o Payloads("flex_algo", key, p.flex_algo, IsisFlexAlgoEntry)
        \o Payloads("srv6_locator", key, p.srv6_locator, IsisLocatorEntry)
        \o Payloads("segment_routing", key, p.segment_routing, IsisSegmentRoutingEntry)

UpsertIsisInterface(i) ==
    LET key == <<i.interface_name, i.af>>
        columns == Scalars(IsisInterfaceEntry) \ {"interface_name", "af", "hello_auth_key"}
    IN  <<Row("interface", key,
              [passive |-> AsBool(i.passive), bound_port |-> OrNone(i.bound_port),
               hello_auth_type |-> OrNone(i.hello_auth_type)] @@ Copied(i, columns))>>
        \o Payloads("setting", key, i.setting, IsisSettingEntry)
        \o Payloads("level", key, i.level, IsisLevelEntry)
        \o Payloads("prefix_sid", key, i.prefix_sid, IsisPrefixSidEntry)

UpsertIsisData(section) ==
    LET doc == ProjectIsis(section)
    IN  IF ~ValidSourceAsNumbers(section.process) THEN RefusedUntouched
        ELSE Replaced(Rows(doc.lists.process, UpsertIsisProcess) \o Rows(doc.lists.interface, UpsertIsisInterface))

UpsertOspfData(section) ==
    LET doc == ProjectOspf(section)
        instance(i) == <<Row("instance", <<i.process_id, i.vrf>>, Copied(i, {"router_id", "enabled"}))>>
                       \o Payloads("area", <<i.process_id, i.vrf>>, i.area, OspfAreaEntry)
        interface(i) == <<Row("interface", <<i.interface_name, i.process_id>>,
                              Copied(i, {"area_id", "priority", "cost", "network_type", "auth_type"})
                              @@ [passive |-> AsBool(i.passive), auth_present |-> AsBool(i.auth_present)])>>
    IN  IF ~ValidSourceAsNumbers(section.instance) THEN RefusedUntouched
        ELSE Replaced(Rows(doc.lists.instance, instance) \o Rows(doc.lists.interface, interface))

(* The three components of redistribution, each below its destination.  A  *)
(* destination's VRF is not part of an OSPF row's key.                     *)
ComponentRows(doc) ==
    LET row(dest, e) == Row("redistribute", dest \o <<e.source_protocol, e.source_ref>>,
                            Copied(e, {"route_map", "metric", "metric_type"}))
    IN  Rows(doc.lists.instance, LAMBDA i : Rows(i.redistribute, LAMBDA e : <<row(<<"ospf", i.process_id>>, e)>>))
        \o Rows(doc.lists.process, LAMBDA p : Rows(p.redistribute, LAMBDA e : <<row(<<"isis", p.process_tag>>, e)>>))
        \o Rows(doc.lists.router, LAMBDA r : Rows(r.scope, LAMBDA s : Rows(s.address_family, LAMBDA a :
               Rows(a.redistribute, LAMBDA e : <<row(<<"bgp", r.asn, s.vrf, a.afi>>, e)>>))))

UpsertRedistribution(section) ==
    LET objects(items) == SelectSeq(items, LAMBDA i : i # NotObject)
        valid == /\ ValidateBgpAsNumbers(section.router)
                 /\ ValidSourceAsNumbers(objects(section.instance))
                 /\ ValidSourceAsNumbers(objects(section.process))
    IN  IF ~valid THEN RefusedDeleted
        ELSE Replaced(FirstWins(ComponentRows(ProjectRedistribution(section))))

UpsertPrefixLists(lists) ==
    Rows(lists, LAMBDA l :
        <<Row("prefix_list", <<l.name>>, [family |-> IF "family" \in l.present THEN l.family ELSE "4"])>>
        \o Rows(l.prefix_list_entry, LAMBDA e : <<Row("prefix_list_entry", <<l.name, e.sequence>>,
                                          Copied(e, {"action", "prefix", "ge", "le"}))>>))

UpsertCommunityLists(lists) ==
    Rows(lists, LAMBDA l :
        <<Row("community_list", <<l.name>>, [invert_match |-> AsBool(l.invert_match)])>>
        \o Rows(l.community_list_entry, LAMBDA e : <<Row("community_list_entry", <<l.name, e.sequence>>,
                                          Copied(e, {"action", "community"}))>>))

UpsertAsPaths(lists) ==
    Rows(lists, LAMBDA l :
        <<Row("as_path", <<l.name>>, <<>>)>>
        \o Rows(l.as_path_entry, LAMBDA e : <<Row("as_path_entry", <<l.name, e.sequence>>,
                                          Copied(e, {"action", "pattern"}))>>))

UpsertRouteMaps(lists) ==
    LET names == {"match_prefix_lists", "match_community_lists", "match_as_paths", "match_json", "set_json"}
    IN  Rows(lists, LAMBDA l :
            <<Row("route_map", <<l.name>>, <<>>)>>
            \o Rows(l.route_map_entry, LAMBDA e : <<Row("route_map_entry", <<l.name, e.sequence>>,
                                              [action |-> e.action] @@ [n \in names |-> OrBlank(e[n])])>>))

UpsertRoutePolicyData(section) ==
    LET doc == ProjectRoutePolicy(section)
    IN  Replaced(UpsertPrefixLists(doc.lists.prefix_list) \o UpsertCommunityLists(doc.lists.community_list)
                 \o UpsertAsPaths(doc.lists.as_path) \o UpsertRouteMaps(doc.lists.route_map))

-----------------------------------------------------------------------------
(* What the tables of a family accept: one row per key, and no null in a   *)
(* NOT NULL column.                                                        *)

OneRowPerKey(rows) ==
    \A i, j \in 1 .. Len(rows) : rows[i].list = rows[j].list /\ rows[i].key = rows[j].key => i = j

NoNulls(f, rows) ==
    \A r \in ToSet(rows) : r.list \in DOMAIN Tables[f] =>
        \A c \in Tables[f][r.list].required : r.cols[c] # None

Storable(f, rows) == OneRowPerKey(rows) /\ NoNulls(f, rows)

(* A row has the columns of its table, and ends in its key. *)
FillsTable(f, r) ==
    r.list \in DOMAIN Tables[f] =>
        LET t == Tables[f][r.list]
        IN  /\ DOMAIN r.cols = t.required \cup t.nullable
            /\ Len(r.key) >= Len(t.key)

-----------------------------------------------------------------------------
(* The GET handlers: which columns of a row are served always, when set,   *)
(* and when truthy.                                                        *)

Shape(always, notNone, truthy) == [always |-> always, notNone |-> notNone, truthy |-> truthy]

Serve(rows, shapes) ==
    {[list |-> r.list, key |-> r.key,
      leaves |-> [c \in {c \in DOMAIN r.cols : LET s == shapes[r.list]
                                               IN  \/ c \in s.always
                                                   \/ c \in s.notNone /\ r.cols[c] # None
                                                   \/ c \in s.truthy /\ ~Empty(r.cols[c])} |-> r.cols[c]]]
     : r \in ToSet(rows)}

GetVlanDatabase(rows) == Serve(rows, [vlan |-> Shape({"name"}, {}, {})])

GetSvi(rows) == Serve(rows, [interface |-> Shape({"vlan_id", "type", "vrf"}, {}, {})])

GetSubinterface(rows) ==
    Serve(rows, [interface |-> Shape({"parent_interface", "dot1q_vlan", "type", "vrf"}, {}, {})])

GetInterfaceMtu(rows) == Serve(rows, [interface |-> Shape({"mtu", "ip_mtu", "mpls_mtu", "bound_port"}, {}, {})])

GetLagConfig(rows) ==
    {[e EXCEPT !.leaves = [c \in {c \in DOMAIN @ : c = "vpc_sensitive" => @[c] = "true"} |-> @[c]]]
     : e \in Serve(rows, [lag |-> Shape({"name", "vpc_sensitive"},
                                        {"min_links", "system_priority", "system_id", "timer", "admin_key"}, {}),
                          member |-> Shape({}, {"mode", "port_priority"}, {})])}

GetLagTopology(rows) == Serve(rows, [lag |-> Shape({"lag_id"}, {}, {}), member |-> Shape({"mode"}, {}, {})])

GetBfdInterfaces(rows) ==
    Serve(rows, [interface |-> Shape({"micro_bfd", "enabled"}, {"bound_port", "min_tx", "min_rx", "multiplier"}, {})])

(* The rows of a service, grouped under the columns of its first one. *)
GetL2Services(rows) ==
    Serve(rows, [saps |-> Shape({"port", "outer_tag", "inner_tag"}, {}, {})])
    \cup {[list |-> "service", key |-> <<r.key[1]>>, leaves |-> Copied(r.cols, {"service_type", "service_id"})]
          : r \in ToSet(rows)}

GetLoggingConfig(rows) ==
    Serve(rows, [host |-> Shape({}, {"port", "severity", "facility", "transport", "vrf", "source"}, {}),
                 local_levels |-> Shape({}, Scalars(LoggingLevelsEntry), {})])

GetSnmpConfig(rows) ==
    Serve(rows, [community |-> Shape({"access", "acl"}, {}, {}),
                 v3_user |-> Shape({"has_auth_secret", "has_priv_secret"}, {}, {}),
                 host |-> Shape({"version", "notify_type", "port", "user"}, {}, {}),
                 system |-> Shape({"location", "contact"}, {}, {})])

GetStaticRoutes(rows) ==
    Serve(rows, [route |-> Shape({}, {"interface_next_hop", "next_hop_vrf", "metric", "permanent", "tag", "name"}, {})])

(* Addresses grouped by interface, with the port of its first address. *)
GetInterfaceIps(rows) ==
    LET first(name) == rows[CHOOSE i \in 1 .. Len(rows) : /\ rows[i].key[1] = name
                                                          /\ \A j \in 1 .. i - 1 : rows[j].key[1] # name]
    IN  Serve(rows, [address |-> Shape({"family", "secondary"}, {}, {})])
        \cup {[list |-> "interface", key |-> <<r.key[1]>>, leaves |-> [bound_port |-> first(r.key[1]).cols.bound_port]]
              : r \in ToSet(rows)}

(* What the peers, groups and scopes are served with. *)
BgpShapes ==
    [router |-> Shape({"router_id"}, {}, {}), scope |-> Shape({}, {}, {}),
     address_family |-> Shape({}, {}, {}),
     peer |-> Shape({"enabled"}, {"peer_group", "remote_as", "local_as", "ttl", "password", "source",
                                  "bfd_enabled"}, {}),
     peer_address_family |-> Shape({"enabled"}, {}, Policies),
     peer_group |-> Shape({}, {"remote_as", "source"}, {}),
     peer_group_address_family |-> Shape({}, {}, Policies)]

GetBgpConfig(rows) == Serve(rows, BgpShapes)

IsisOptionalFields == Scalars(IsisProcessEntry) \cup Scalars(IsisInterfaceEntry)

GetIsisInterfaces(rows) ==
    LET whole(class) == Shape(Scalars(class), {}, {})
    IN  Serve(rows, [process |-> Shape({}, IsisOptionalFields, {}),
                     interface |-> Shape({"process_tag", "passive"}, IsisOptionalFields, {}),
                     setting |-> whole(IsisSettingEntry), level |-> whole(IsisLevelEntry),
                     flex_algo |-> whole(IsisFlexAlgoEntry), srv6_locator |-> whole(IsisLocatorEntry),
                     segment_routing |-> whole(IsisSegmentRoutingEntry), prefix_sid |-> whole(IsisPrefixSidEntry)])

GetOspf(rows) ==
    Serve(rows, [instance |-> Shape({}, {"router_id", "enabled"}, {}), area |-> Shape({"area_type"}, {}, {}),
                 interface |-> Shape({"passive", "auth_present"},
                                     {"area_id", "priority", "cost", "network_type", "auth_type"}, {})])

GetRedistribution(rows) == Serve(rows, [redistribute |-> Shape({}, {"route_map", "metric", "metric_type"}, {})])

RoutePolicyShapes ==
    [prefix_list |-> Shape({"family"}, {}, {}), community_list |-> Shape({"invert_match"}, {}, {}),
     as_path |-> Shape({}, {}, {}), route_map |-> Shape({}, {}, {}),
     prefix_list_entry |-> Shape({"action", "prefix"}, {"ge", "le"}, {}),
     community_list_entry |-> Shape({"action", "community"}, {}, {}),
     as_path_entry |-> Shape({"action", "pattern"}, {}, {}),
     route_map_entry |-> Shape(Scalars(PolicyRouteMapEntry), {}, {})]

GetRoutePolicy(rows) == Serve(rows, RoutePolicyShapes)

=============================================================================
