--------------------------- MODULE IntentFamilies ---------------------------
(***************************************************************************)
(* The intent PUT handlers (api/*.py) with the encoders that turn their    *)
(* rows into the device document and the collateral guard that decides     *)
(* whether the document may be sent.                                       *)
(*                                                                         *)
(* A handler replaces its stream's rows by the body, and compares the two  *)
(* to find the rows it deleted and the scalars it cleared.  Only such a    *)
(* loss makes it queue a removal, the one write that promotes the stream   *)
(* even when auto-apply is off; an undetected loss stays on the device.    *)
(* A removal carries the keys it may drop, and the guard blocks a document *)
(* that would drop any other.  What a document holds is what the encoder   *)
(* emits, so "lost" has two readings, the handler's (columns) and the      *)
(* encoder's (leaves), and this module is about their agreement.           *)
(*                                                                         *)
(* One section is explored at a time, with its rows restricted to the      *)
(* columns of `focus`; the other columns of the section stay unset.  The   *)
(* guard compares the whole device document, but a push changes its own    *)
(* section alone, so no other section can lose a key.  Store-only pushes,  *)
(* which queue nothing, and the record of a clear that an un-own deferred  *)
(* are the business of Projection.                                         *)
(***************************************************************************)
EXTENDS IntentEncoders, Integers, TLC, Folds

CONSTANTS Sections,        \* the sections explored
          Unrepresentable  \* community members the device's dialect cannot hold

VARIABLES section, focus,
          rows,      \* the stored intent rows, by table
          auth,      \* the rows the last promotion of each stream authorised
          sent,      \* the document NSO holds, as encoder entries
          jobs,      \* the queued generations
          found,     \* the authorised rows the push in progress found (history)
          halt       \* what stopped the head job: nothing, the guard or the encoder

vars == <<section, focus, rows, auth, sent, jobs, found, halt>>

-----------------------------------------------------------------------------
(* The registry: tables of a section, tables of a stream, guarded lists.   *)

StreamTables ==
    [vlan |-> {"vlan_intent"}, svi |-> {"svi_intent"}, subinterface |-> {"subinterface_intent"},
     bfd |-> {"bfd_intent"}, interface_mtu |-> {"interface_mtu_intent"}, l2_sap |-> {"l2_sap_intent"},
     logging |-> {"logging_host_intent", "logging_levels_intent"},
     snmp |-> {"snmp_community_intent", "snmp_v3_user_intent", "snmp_host_intent", "snmp_system_info_intent"},
     isis |-> {"isis_interface_intent", "isis_process_intent", "isis_level_intent", "redistribution_intent"},
     isis_flex_algo |-> {"isis_flex_algo_intent"},
     ospf |-> {"ospf_instance_intent", "ospf_interface_intent", "redistribution_intent"},
     bgp |-> {"bgp_router_intent", "bgp_scope_intent", "bgp_af_intent", "bgp_peer_intent",
              "bgp_peer_af_intent", "redistribution_intent"},
     route_policy |-> {"route_policy_object_intent"},
     interface_config |-> {"interface_intent"}, ip |-> {"interface_ip_intent"}]

StreamSection(s) == CASE s = "isis_flex_algo" -> "isis" [] s = "ip" -> "interface_config" [] OTHER -> s

SectionTables(sec) == UNION {StreamTables[s] : s \in {s \in DOMAIN StreamTables : StreamSection(s) = sec}}

GuardLists ==
    [vlan |-> {"vlan"}, svi |-> {"interface"}, subinterface |-> {"interface"}, bfd |-> {"interface"},
     interface_mtu |-> {"interface"}, l2_sap |-> {"sap"}, logging |-> {"host"},
     snmp |-> {"community", "v3-user", "host"},
     isis |-> {"interface-config", "process-config"}, ospf |-> {"interface-config", "process-config"},
     bgp |-> {"router", "peer"}, route_policy |-> {"route_map", "community_list"},
     interface_config |-> {"interface", "ipv4-address", "description", "enabled"}]

Encode(sec, t) ==
    CASE sec = "vlan"             -> EncodeVlan(t)
      [] sec = "svi"              -> EncodeSvi(t)
      [] sec = "subinterface"     -> EncodeSubinterface(t)
      [] sec = "bfd"              -> EncodeBfd(t)
      [] sec = "interface_mtu"    -> EncodeInterfaceMtu(t)
      [] sec = "l2_sap"           -> EncodeL2Sap(t)
      [] sec = "logging"          -> EncodeLogging(t)
      [] sec = "snmp"             -> EncodeSnmp(t)
      [] sec = "isis"             -> EncodeIsis(t)
      [] sec = "ospf"             -> EncodeOspf(t)
      [] sec = "bgp"              -> EncodeBgp(t)
      [] sec = "route_policy"     -> EncodeRoutePolicy(t, Unrepresentable)
      [] sec = "interface_config" -> EncodeInterfaceConfig(t)

(* The guarded keys of a document.  BGP peers are flattened device-wide. *)
LeafKeys(sec, doc) ==
    {<<e.list, IF sec = "bgp" /\ e.list = "peer" THEN <<e.key[3]>> ELSE e.key>>
        : e \in {e \in doc : e.list \in GuardLists[sec]}}

-----------------------------------------------------------------------------
(* Detection of losses.                                                    *)

(* The tri-state columns whose False is emitted, so that False -> None clears. *)
ExplicitFalse == {<<"isis_interface_intent", "bfd_enabled">>, <<"isis_interface_intent", "frr_enabled">>,
                  <<"isis_process_intent", "overload_bit">>, <<"isis_process_intent", "microloop_avoidance">>,
                  <<"isis_level_intent", "wide_metrics_only">>, <<"isis_level_intent", "disabled">>}

(* Mutant: only None counts as unset. *)
IsClearedToNone(before, after, explicitFalse) ==
    before \notin {None, "", "False"} /\ after = None

IsCleared(before, after, explicitFalse) ==
    CASE before \in {None, ""} -> FALSE
      [] before = "False"      -> after = None /\ explicitFalse
      [] OTHER                 -> after \in {None, ""}

(* A policy entry is gone, or survived with its leaf blanked. *)
LostContent(before, after) ==
    \E e \in before : \/ \A a \in after : a[1] # e[1]
                      \/ \E a \in after : a[1] = e[1] /\ IsCleared(e[2], a[2], FALSE)

Kept(old, new) == DOMAIN old \cap DOMAIN new
Gone(old, new) == DOMAIN old \ DOMAIN new

(* A kept row of table t lost one of the watched state fields. *)
Cleared(t, old, new, fields) ==
    \E k \in Kept(old, new) : \E f \in fields \cap DOMAIN old[k] :
        IsCleared(old[k][f], new[k][f], <<t, f>> \in ExplicitFalse)

(* `item.vrf or None`: the store's one spelling of an unset string. *)
OrNone(table, cols) ==
    [k \in DOMAIN table |-> [c \in DOMAIN table[k] |->
        IF c \in cols /\ ~Truthy(table[k][c]) THEN None ELSE table[k][c]]]

(* The outcome of a handler. *)
Outcome(new, deleted, cleared, removed, count) ==
    [rows |-> new, deleted |-> deleted, cleared |-> cleared, removed |-> removed, count |-> count]

Label(list, keys) == {<<list, k>> : k \in keys}

(* One table, one list, one key: the shape of most handlers. *)
ReplaceTable(t, list, new, fields, b) ==
    Outcome([b EXCEPT ![t] = new], Gone(rows[t], new) # {}, Cleared(t, rows[t], new, fields),
            Label(list, Gone(rows[t], new)), Cardinality(DOMAIN new))

-----------------------------------------------------------------------------
(* The handlers, as functions of the stored rows and the body.             *)

PutVlan(b) == ReplaceTable("vlan_intent", "vlan", OrNone(b.vlan_intent, {"name"}), {"name"}, b)

PutSvi(b) == ReplaceTable("svi_intent", "interface", OrNone(b.svi_intent, {"vrf"}), {"vrf"}, b)

PutSubinterface(b) ==
    ReplaceTable("subinterface_intent", "interface",
                 OrNone(b.subinterface_intent, {"parent_interface", "vrf"}), {"vrf"}, b)

PutBfd(b) == ReplaceTable("bfd_intent", "interface", b.bfd_intent, {"min_tx", "min_rx", "multiplier"}, b)

PutInterfaceMtu(b) ==
    ReplaceTable("interface_mtu_intent", "interface", b.interface_mtu_intent, {"mtu", "ip_mtu", "mpls_mtu"}, b)

(* Port and tags are informational: the planner reads them from the SAP id. *)
PutL2Sap(b) == ReplaceTable("l2_sap_intent", "sap", b.l2_sap_intent, {}, b)

(* The levels singleton: an entry with every severity unset deletes the row. *)
LevelFields == {"console_severity", "monitor_severity", "module_severity"}

SyncLocalLevels(old, entry) ==
    LET blank == \A k \in DOMAIN entry : \A f \in DOMAIN entry[k] : ~Truthy(entry[k][f])
        new   == IF blank THEN [k \in {} |-> {}] ELSE entry
    IN  [new |-> new,
         cleared |-> \E k \in DOMAIN old : \E f \in LevelFields \cap DOMAIN old[k] :
                         IsCleared(old[k][f], IF k \in DOMAIN entry THEN entry[k][f] ELSE None, FALSE)]

(* An omitted local_levels field preserves the stored row. *)
PutLogging(b, levelsSent) ==
    LET hosts  == b.logging_host_intent
        old    == rows.logging_host_intent
        levels == IF levelsSent THEN SyncLocalLevels(rows.logging_levels_intent, b.logging_levels_intent)
                  ELSE [new |-> rows.logging_levels_intent, cleared |-> FALSE]
        wrote  == IF levelsSent THEN Cardinality(DOMAIN levels.new) ELSE 0
    IN  Outcome([b EXCEPT !.logging_levels_intent = levels.new],
                Gone(old, hosts) # {},
                \/ Cleared("logging_host_intent", old, hosts,
                           {"port", "severity", "facility", "transport", "vrf", "source"})
                \/ levels.cleared,
                Label("host", Gone(old, hosts)), Cardinality(DOMAIN hosts) + wrote)

(* SNMP compares keys alone: no column of a kept row is watched. *)
PutSnmp(b) ==
    LET gone(t) == Gone(rows[t], b[t])
    IN  Outcome(b, \E t \in StreamTables.snmp : gone(t) # {}, FALSE,
                Label("community", gone("snmp_community_intent"))
                \cup Label("v3-user", gone("snmp_v3_user_intent"))
                \cup Label("host", gone("snmp_host_intent")),
                Cardinality(UNION {{<<t, k>> : k \in DOMAIN b[t]} : t \in StreamTables.snmp}))

(* Kept redistribution rows of IS-IS and OSPF are compared with None alone. *)
RedistributionCleared(old, new) ==
    \E k \in Kept(old, new) : \E f \in DOMAIN old[k] : old[k][f] # None /\ new[k][f] = None

PutIsisInterface(b) ==
    LET gone(t) == Gone(rows[t], b[t])
        cleared(t, fields) == Cleared(t, rows[t], b[t], fields)
    IN  Outcome(b, \E t \in StreamTables.isis : gone(t) # {},
                \/ cleared("isis_interface_intent", {"circuit_type", "network_type", "metric",
                                                     "bfd_enabled", "frr_enabled", "frr_protection"})
                \/ cleared("isis_process_intent", {"net", "is_type", "metric_style", "overload_bit",
                                                   "area_auth_type", "area_auth_key",
                                                   "domain_auth_type", "domain_auth_key",
                                                   "fast_reroute", "microloop_avoidance"})
                \/ cleared("isis_level_intent", {"wide_metrics_only", "labeled_preference", "disabled"})
                \/ RedistributionCleared(rows.redistribution_intent, b.redistribution_intent),
                Label("interface-config", gone("isis_interface_intent"))
                \cup Label("process-config", gone("isis_process_intent")),
                Cardinality(DOMAIN b.isis_interface_intent) + Cardinality(DOMAIN b.isis_process_intent))

(* A dropped flex-algo is reported to the guard as no key at all. *)
PutIsisFlexAlgo(b) ==
    LET old == rows.isis_flex_algo_intent
        new == b.isis_flex_algo_intent
    IN  Outcome(b, Gone(old, new) # {},
                Cleared("isis_flex_algo_intent", old, new,
                        {"metric_type", "priority", "admin_group_exclude",
                         "admin_group_include_any", "admin_group_include_all"}),
                {}, Cardinality(DOMAIN new))

PutOspf(b) ==
    LET gone(t) == Gone(rows[t], b[t])
        cleared(t, fields) == Cleared(t, rows[t], b[t], fields)
    IN  Outcome(b, \E t \in StreamTables.ospf : gone(t) # {},
                \/ cleared("ospf_instance_intent", {"router_id", "enabled", "vrf"})
                \/ cleared("ospf_interface_intent", {"priority", "cost", "network_type", "auth_type", "auth_key"})
                \/ RedistributionCleared(rows.redistribution_intent, b.redistribution_intent),
                Label("interface-config", gone("ospf_interface_intent"))
                \cup Label("process-config", gone("ospf_instance_intent")),
                Cardinality(DOMAIN b.ospf_instance_intent) + Cardinality(DOMAIN b.ospf_interface_intent))

-----------------------------------------------------------------------------
(* BGP rebuilds its whole tree, so the pre-images are captured first: the  *)
(* router values by ASN, the peer values by address and the peer-AF values *)
(* by address and family.  Two peers with one address share an image, the  *)
(* one the query returned last.                                            *)

BgpPeerAddresses(t) == {<<k[3]>> : k \in DOMAIN t.bgp_peer_intent}

BgpImages ==
    LET peer == rows.bgp_peer_intent
        af   == rows.bgp_peer_af_intent
    IN  [peer : {f \in [BgpPeerAddresses(rows) -> {peer[k] : k \in DOMAIN peer}] :
                    \A a \in DOMAIN f : \E k \in DOMAIN peer : k[3] = a[1] /\ peer[k] = f[a]},
         af   : {f \in [{<<k[3], k[4]>> : k \in DOMAIN af} -> {af[k] : k \in DOMAIN af}] :
                    \A a \in DOMAIN f : \E k \in DOMAIN af : <<k[3], k[4]>> = a /\ af[k] = f[a]}]

BgpCleared(image, b) ==
    \/ Cleared("bgp_router_intent", rows.bgp_router_intent, b.bgp_router_intent, {"router_id"})
    \/ \E k \in DOMAIN b.bgp_peer_intent :
        LET a == <<k[3]>>
            new == b.bgp_peer_intent[k]
        IN  \/ /\ a \in DOMAIN image.peer
               /\ \E f \in DOMAIN new \ {"enabled"} : IsCleared(image.peer[a][f], new[f], FALSE)
            \/ \E i \in DOMAIN image.af : i[1] = k[3] /\ (k \o <<i[2]>>) \notin DOMAIN b.bgp_peer_af_intent
    \/ \E k \in DOMAIN b.bgp_peer_af_intent :
        LET i == <<k[3], k[4]>>
            new == b.bgp_peer_af_intent[k]
        IN  /\ i \in DOMAIN image.af
            /\ \E f \in DOMAIN new \ {"enabled"} : IsCleared(image.af[i][f], new[f], FALSE)

BgpRemoved(b) ==
    Label("router", Gone(rows.bgp_router_intent, b.bgp_router_intent))
    \cup Label("peer", BgpPeerAddresses(rows) \ BgpPeerAddresses(b))

PutBgp(b, image) ==
    LET old == rows.redistribution_intent
        new == b.redistribution_intent
    IN  Outcome(b, BgpRemoved(b) # {} \/ Gone(old, new) # {},
                BgpCleared(image, b) \/ Cleared("redistribution_intent", old, new, {"route_map", "metric"}),
                BgpRemoved(b), Cardinality(DOMAIN b.bgp_router_intent))

-----------------------------------------------------------------------------
(* A policy object that lost an entry, or a leaf of one, counts as cleared. *)
PutRoutePolicy(b) ==
    LET old == rows.route_policy_object_intent
        new == b.route_policy_object_intent
    IN  Outcome(b, Gone(old, new) # {},
                \E k \in Kept(old, new) : /\ "entries" \in DOMAIN old[k]
                                          /\ LostContent(old[k].entries, new[k].entries),
                {<<k[1], <<k[2]>>>> : k \in Gone(old, new)}, Cardinality(DOMAIN new))

(* The keys an interface removal authorises: the dropped addresses, and    *)
(* the interfaces the body leaves without any.                             *)
InterfaceRemovalKeys(emptied, addresses, attributes) ==
    Label("interface", emptied)
    \cup Label("ipv4-address", {SubSeq(k, 1, 2) : k \in addresses})
    \cup {<<k[2], <<k[1]>>>> : k \in attributes}

(* An address row that exists already keeps its secondary flag. *)
PutIp(b) ==
    LET old  == rows.interface_ip_intent
        new  == b.interface_ip_intent
        gone == Gone(old, new)
        ifs(keys) == {<<k[1]>> : k \in keys}
    IN  Outcome([b EXCEPT !.interface_ip_intent =
                    [k \in DOMAIN new |-> IF k \in DOMAIN old THEN old[k] ELSE new[k]]],
                gone # {}, FALSE,
                InterfaceRemovalKeys(ifs(gone) \ ifs(DOMAIN new), gone, {}), Cardinality(DOMAIN new))

(* Attributes: what is lost is read off the authorised rows, not the store. *)
PutIntent(b) ==
    LET gone == Gone(auth.interface_intent, b.interface_intent)
    IN  Outcome(b, gone # {}, FALSE,
                InterfaceRemovalKeys({<<k[1]>> : k \in gone}, {}, gone),
                Cardinality(DOMAIN b.interface_intent))

PutStream(s, b, levelsSent, image) ==
    CASE s = "vlan"             -> PutVlan(b)
      [] s = "svi"              -> PutSvi(b)
      [] s = "subinterface"     -> PutSubinterface(b)
      [] s = "bfd"              -> PutBfd(b)
      [] s = "interface_mtu"    -> PutInterfaceMtu(b)
      [] s = "l2_sap"           -> PutL2Sap(b)
      [] s = "logging"          -> PutLogging(b, levelsSent)
      [] s = "snmp"             -> PutSnmp(b)
      [] s = "isis"             -> PutIsisInterface(b)
      [] s = "isis_flex_algo"   -> PutIsisFlexAlgo(b)
      [] s = "ospf"             -> PutOspf(b)
      [] s = "bgp"              -> PutBgp(b, image)
      [] s = "route_policy"     -> PutRoutePolicy(b)
      [] s = "interface_config" -> PutIntent(b)
      [] s = "ip"               -> PutIp(b)

-----------------------------------------------------------------------------
(* The requests explored: small key sets, the focus table's columns, and   *)
(* at most one companion table.                                            *)

EntryModels ==
    [vlan_intent |-> VlanEntry, svi_intent |-> SviEntry, subinterface_intent |-> SubinterfaceEntry,
     bfd_intent |-> BfdEntry, interface_mtu_intent |-> InterfaceMtuEntry, l2_sap_intent |-> L2SapEntry,
     logging_host_intent |-> LoggingHostEntry, logging_levels_intent |-> LocalLevelsEntry,
     snmp_community_intent |-> SnmpCommunityEntry, snmp_v3_user_intent |-> SnmpV3UserEntry,
     snmp_host_intent |-> SnmpHostEntry, snmp_system_info_intent |-> SnmpSystemInfoEntry,
     isis_interface_intent |-> IsisInterfaceEntry, isis_process_intent |-> IsisProcessEntry,
     isis_level_intent |-> IsisLevelEntry, isis_flex_algo_intent |-> IsisFlexAlgoEntry,
     redistribution_intent |-> RedistributionEntry,
     ospf_instance_intent |-> OspfInstanceEntry, ospf_interface_intent |-> OspfInterfaceEntry,
     bgp_router_intent |-> BgpRouterModel, bgp_scope_intent |-> KeyOnly, bgp_af_intent |-> KeyOnly,
     bgp_peer_intent |-> BgpPeerModel, bgp_peer_af_intent |-> BgpPeerAfModel,
     route_policy_object_intent |-> RoutePolicyObjectIntent,
     interface_intent |-> IntentAttribute, interface_ip_intent |-> IpAddressEntry]

(* What the columns may hold once stored. *)
StoredModels ==
    [EntryModels EXCEPT !.vlan_intent = VlanIntent, !.svi_intent = SviIntent,
                        !.subinterface_intent = SubinterfaceIntent,
                        !.logging_levels_intent = LoggingLevelsIntent,
                        !.snmp_v3_user_intent = SnmpV3UserIntent, !.snmp_host_intent = SnmpHostIntent,
                        !.bgp_peer_intent = BgpPeerIntent]

TwoKeys == {<<"a">>, <<"b">>}

(* One address may peer in two VRFs. *)
BgpVrfs == IF focus.table = "bgp_peer_intent" /\ focus.with = {} THEN {"v1", "v2"} ELSE {"v1"}

SampleKeys ==
    [vlan_intent |-> TwoKeys, svi_intent |-> TwoKeys, subinterface_intent |-> TwoKeys, bfd_intent |-> TwoKeys,
     interface_mtu_intent |-> TwoKeys, l2_sap_intent |-> {<<"s", "a">>, <<"s", "b">>},
     logging_host_intent |-> TwoKeys, logging_levels_intent |-> {<<"levels">>},
     snmp_community_intent |-> TwoKeys, snmp_v3_user_intent |-> TwoKeys, snmp_host_intent |-> TwoKeys,
     snmp_system_info_intent |-> {<<"system">>},
     isis_interface_intent |-> {<<"a", "ipv4">>, <<"b", "ipv4">>}, isis_process_intent |-> TwoKeys,
     isis_level_intent |-> {<<"a", "1">>, <<"a", "2">>}, isis_flex_algo_intent |-> {<<"a", "128">>, <<"a", "129">>},
     redistribution_intent |-> IF section = "bgp" THEN {<<"1", v, "af", "static">> : v \in BgpVrfs}
                               ELSE {<<"a", "static">>, <<"a", "connected">>},
     ospf_instance_intent |-> TwoKeys, ospf_interface_intent |-> TwoKeys,
     bgp_router_intent |-> {<<"1">>, <<"2">>}, bgp_scope_intent |-> {<<"1", v>> : v \in BgpVrfs},
     bgp_af_intent |-> {<<"1", v, "af">> : v \in BgpVrfs},
     bgp_peer_intent |-> {<<"1", v, "p">> : v \in BgpVrfs},
     bgp_peer_af_intent |-> {<<"1", v, "p", "af">> : v \in BgpVrfs},
     route_policy_object_intent |-> {<<"route_map", "a">>, <<"community_list", "a">>},
     interface_intent |-> {<<"a", "description">>, <<"b", "description">>, <<"a", "enabled">>},
     interface_ip_intent |-> {<<"a", "1", "">>, <<"a", "1", "v">>, <<"b", "2", "">>}]

(* Losses of rows are explored with two keys a table, losses of columns    *)
(* with one.                                                               *)
Second == {"b", "2", "129", "connected"}

KeysOf(t) ==
    IF focus.cols = {} THEN SampleKeys[t]
    ELSE {k \in SampleKeys[t] : \A n \in 1 .. Len(k) : k[n] \notin Second}

(* Columns whose losses depend on each other are explored together. *)
ColumnPairs == {{"area_auth_type", "area_auth_key"}, {"domain_auth_type", "domain_auth_key"},
                {"auth_type", "auth_key"}, {"console_severity", "monitor_severity"}, {"mtu", "ip_mtu"}}

Focuses(sec) ==
    LET Tables == SectionTables(sec)
        ColumnSets(t) == {{}} \cup {{c} : c \in DOMAIN EntryModels[t]}
                         \cup {p \in ColumnPairs : p \subseteq DOMAIN EntryModels[t]}
    IN  UNION {[table : {t}, cols : ColumnSets(t), with : {w \in SUBSET (Tables \ {t}) : Cardinality(w) <= 1}]
                  : t \in Tables}

(* BGP rows hang from their parents in the request itself. *)
Parents(t) ==
    CASE t = "bgp_peer_af_intent"    -> {"bgp_router_intent", "bgp_scope_intent", "bgp_peer_intent"}
      [] t = "redistribution_intent" -> {"bgp_router_intent", "bgp_scope_intent", "bgp_af_intent"}
      [] OTHER                       -> {"bgp_router_intent", "bgp_scope_intent"}

Explored(f) ==
    LET asked == {f.table} \cup f.with
    IN  asked \cup (IF section = "bgp" THEN UNION {Parents(t) : t \in asked} ELSE {})

RowsOf(t) ==
    LET cols == IF t = focus.table THEN focus.cols ELSE {}
        values == UNION {EntryModels[t][c] : c \in cols}
    IN  {r \in [cols -> values] : \A c \in cols : r[c] \in EntryModels[t][c]}

TablesOf(t) ==
    IF t \in Explored(focus) THEN UNION {[K -> RowsOf(t)] : K \in SUBSET KeysOf(t)} ELSE {<<>>}

Prefixes(table, n) == {SubSeq(k, 1, n) : k \in DOMAIN table}

(* The request models nest: a level or a redistribution stands in its      *)
(* process, and BGP is one tree.  A flex-algo names any process it likes.  *)
Nested(s, b) ==
    /\ s = "isis" => Prefixes(b.isis_level_intent, 1) \cup Prefixes(b.redistribution_intent, 1)
                        \subseteq DOMAIN b.isis_process_intent
    /\ s = "ospf" => Prefixes(b.redistribution_intent, 1) \subseteq DOMAIN b.ospf_instance_intent
    /\ s = "bgp" =>
          /\ Prefixes(b.bgp_scope_intent, 1) \subseteq DOMAIN b.bgp_router_intent
          /\ Prefixes(b.bgp_af_intent, 2) \cup Prefixes(b.bgp_peer_intent, 2) \subseteq DOMAIN b.bgp_scope_intent
          /\ Prefixes(b.bgp_peer_af_intent, 3) \subseteq DOMAIN b.bgp_peer_intent
          /\ Prefixes(b.redistribution_intent, 3) \subseteq DOMAIN b.bgp_af_intent
          /\ \A k \in DOMAIN b.redistribution_intent : "metric_type" \notin DOMAIN b.redistribution_intent[k]

PushBodies(s) ==
    {b \in MapThenFoldSet(LAMBDA acc, part : {f @@ g : f \in acc, g \in part}, {<<>>},
                          LAMBDA t : {t :> x : x \in TablesOf(t)},
                          LAMBDA ts : CHOOSE t \in ts : TRUE, StreamTables[s])
        : Nested(s, b)}

SectionStreams == {s \in DOMAIN StreamTables : StreamSection(s) = section}

-----------------------------------------------------------------------------
Init ==
    /\ section \in Sections
    /\ focus \in Focuses(section)
    /\ rows = [t \in SectionTables(section) |-> <<>>]
    /\ auth = rows
    /\ sent = {}
    /\ jobs = <<>>
    /\ found = auth
    /\ halt = "no"

(* An interface whose addresses name two VRFs has no body. *)
Encodable(sec, t) ==
    sec = "interface_config" =>
        \A j, k \in DOMAIN t.interface_ip_intent : j[1] = k[1] => j[3] = k[3]

(* A promotion authorises the stream's rows; the document is every         *)
(* stream's authorised rows.                                               *)
Promoted(new) == new @@ auth

Document(t) == [entries |-> Encode(section, t), encodable |-> Encodable(section, t)]

(* A generation: its document, and the keys it may drop. *)
Job(doc, networked, allowed) == [doc |-> doc, networked |-> networked, allowed |-> allowed]

(* Only an un-own is detached: rows dropped by a push that the plugin did  *)
(* not mark as a deletion.  A clear that rides with it is deferred.        *)
Networked(out, deleteOrigin) == deleteOrigin \/ ~out.deleted

(* Mutant: the removal carries no keys. *)
PushJobsUnauthorised(out, doc, deleteOrigin, auto) ==
    (IF out.deleted \/ out.cleared THEN <<Job(doc, Networked(out, deleteOrigin), {})>> ELSE <<>>)
    \o (IF auto /\ out.count > 0 THEN <<Job(doc, TRUE, {})>> ELSE <<>>)

(* The generations a push queues: a removal if it lost something, and with *)
(* auto-apply an apply of the same rows.                                   *)
PushJobs(out, doc, deleteOrigin, auto) ==
    (IF out.deleted \/ out.cleared THEN <<Job(doc, Networked(out, deleteOrigin), out.removed)>> ELSE <<>>)
    \o (IF auto /\ out.count > 0 THEN <<Job(doc, TRUE, {})>> ELSE <<>>)

(* The attribute stream promotes under auto-apply alone.  An un-own is     *)
(* applied first with the removed rows retained, then detached.            *)
AttributeJobs(out, doc, deleteOrigin, auto) ==
    LET retained == [Promoted(out.rows) EXCEPT !.interface_intent = @ @@ auth.interface_intent]
    IN  CASE ~auto \/ (out.count = 0 /\ ~out.deleted) -> <<>>
          [] out.count > 0 /\ ~out.deleted            -> <<Job(doc, TRUE, {})>>
          [] out.deleted /\ deleteOrigin              -> <<Job(doc, TRUE, out.removed)>>
          [] OTHER -> <<Job(Document(retained), TRUE, {}), Job(doc, FALSE, {})>>

Put(s, out, doc, deleteOrigin, auto) ==
    LET queued == IF s = "interface_config" THEN AttributeJobs(out, doc, deleteOrigin, auto)
                  ELSE PushJobs(out, doc, deleteOrigin, auto)
    IN  /\ rows' = out.rows @@ rows
        /\ jobs' = queued
        /\ auth' = IF queued = <<>> THEN auth ELSE Promoted(out.rows)
        /\ found' = IF queued = <<>> THEN found ELSE auth

(* A push: one request, its rows and its queued work in one transaction.   *)
(* The device's auto_apply setting is an input.                            *)
Push ==
    /\ jobs = <<>>
    /\ \E s \in SectionStreams : \E b \in PushBodies(s) :
          \E levelsSent \in IF s = "logging" THEN BOOLEAN ELSE {TRUE} :
          \E image \in IF s = "bgp" THEN BgpImages ELSE {<<>>} :
              LET out == PutStream(s, b, levelsSent, image)
                  doc == Document(Promoted(out.rows))
              IN  \E deleteOrigin, auto \in BOOLEAN : Put(s, out, doc, deleteOrigin, auto)
    /\ UNCHANGED <<section, focus, sent, halt>>

(* The collateral guard: the guarded keys of the live instance that a      *)
(* networked document drops without an allowance.                          *)
Orphans(job) ==
    IF job.networked THEN LeafKeys(section, sent) \ (LeafKeys(section, job.doc.entries) \cup job.allowed) ELSE {}

(* The head job sends its document, or fails and holds the rest. *)
Deploy ==
    /\ jobs # <<>> /\ halt = "no"
    /\ LET job == Head(jobs)
       IN  /\ halt' = IF ~job.doc.encodable THEN "encoder" ELSE IF Orphans(job) # {} THEN "guard" ELSE "no"
           /\ IF halt' = "no" THEN sent' = job.doc.entries /\ jobs' = Tail(jobs) ELSE UNCHANGED <<sent, jobs>>
    /\ found' = IF jobs' = <<>> THEN auth ELSE found
    /\ UNCHANGED <<section, focus, rows, auth>>

Next == Push \/ Deploy

Spec == Init /\ [][Next]_vars

-----------------------------------------------------------------------------
(* Columns hold what the schema allows, and only the stream's tables.      *)
TypeOK ==
    /\ section \in Sections
    /\ DOMAIN rows = SectionTables(section) /\ DOMAIN auth = DOMAIN rows
    /\ \A t \in DOMAIN rows : \A k \in DOMAIN rows[t] :
          /\ k \in SampleKeys[t]
          /\ \A c \in DOMAIN rows[t][k] : rows[t][k][c] \in StoredModels[t][c]
    /\ Len(jobs) \in 0 .. 2
    /\ halt \in {"no", "guard", "encoder"}

Settled == jobs = <<>>

(* What the document still emits of an entry NSO holds: the entry, and each*)
(* leaf of it that has a value.                                            *)
Emitted(e, Leaf(_, _)) ==
    \E n \in Encode(section, rows) :
        /\ n.list = e.list /\ n.key = e.key
        /\ \A l \in e.leaves : l[2] \in {None, ""} \/ (\E m \in n.leaves : m[1] = l[1]) \/ Leaf(e, l[1])

(* L2 SAP content is documented as informational, and the attribute stream *)
(* never promotes without auto-apply.                                      *)
Informational(e) ==
    \/ section = "l2_sap" /\ e.list = "sap"
    \/ section = "interface_config" /\ e.list \in {"interface", "description", "enabled"}

(* BGP compares routers, redistributions and, by address alone, peers: no  *)
(* scope and no address family, and one image for an address in two VRFs.  *)
SharesAddress(e) ==
    \E k \in {o.key : o \in {o \in sent : o.list = "peer"}} \cup DOMAIN rows.bgp_peer_intent :
        k[3] = e.key[3] /\ k # SubSeq(e.key, 1, 3)

NotCompared(e) ==
    /\ section = "bgp"
    /\ \/ e.list \in {"scope", "address-family"}
       \/ e.list \in {"peer", "peer-address-family"} /\ SharesAddress(e)

(* SNMP compares no column, and IS-IS and OSPF redistribution takes a blank*)
(* for a value.                                                            *)
LeafNotCompared(e, c) ==
    \/ section = "snmp"
    \/ section \in {"isis", "ospf"} /\ e.list = "redistribute" /\ rows.redistribution_intent[e.key][c] = ""

(* Once a push's work is done, NSO's document holds no list entry and no
   effective leaf that the stored intent no longer emits: every loss the
   encoders can see was noticed by the handler that caused it, with auto-apply
   on or off, save the comparisons the handlers do not make. *)
NothingDroppedStays ==
    Settled => \A e \in sent : Informational(e) \/ NotCompared(e) \/ Emitted(e, LeafNotCompared)

(* The whole promise: "The same rule applies to a device-effective scalar that
   changes from emitted state to omitted state", for every entry and leaf. *)
ClearedScalarGoes ==
    Settled => \A e \in sent : Informational(e) \/ Emitted(e, LAMBDA x, c : FALSE)

(* A push is refused by the collateral guard for no key that the rows it
   replaced had named: what it dropped it reported.  What the guard may refuse
   is an IS-IS process that only the encoder had made up, for a flex-algo. *)
RefusedOnlyForMadeUp ==
    halt = "guard" =>
        \A k \in Orphans(Head(jobs)) :
            section = "isis" /\ k[1] = "process-config" /\ k[2] \notin DOMAIN found.isis_process_intent

(* What put_isis_flex_algo_intent says of its removal: it "removes no key at
   the guard's grain and needs no orphan allowance". *)
ShrinkNeedsNoAllowance == halt # "guard"

=============================================================================
