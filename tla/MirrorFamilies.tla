---------------------------- MODULE MirrorFamilies ----------------------------
(***************************************************************************)
(* A family's mirror against the observation published with it.  Both are  *)
(* made from one section by run_family_refresh: the observation from the   *)
(* projection, the tables by the family's materializer in a savepoint, and *)
(* the GET answer from the tables.  The module refreshes each family with  *)
(* sections in which one leaf of one entry class takes every kind of value *)
(* the wire can carry, and says that the two agree.                        *)
(***************************************************************************)
EXTENDS MirrorTables

CONSTANTS Families    \* the families a run refreshes

VARIABLES
    family,     \* the family
    focus,      \* the list whose rows vary, by its path, and the leaf that varies
    section,    \* the section of the last read
    mirror,     \* the rows of the family's tables
    published,  \* the projection the current observation holds
    refused     \* the last refresh rolled back

vars == <<family, focus, section, mirror, published, refused>>

-----------------------------------------------------------------------------
(* The families, and what each does with a section.                        *)

Project(f, s) ==
    CASE f = "vlan" -> ProjectVlans(s)
      [] f = "svi" -> ProjectSvis(s)
      [] f = "subinterface" -> ProjectSubinterfaces(s)
      [] f = "interface_mtu" -> ProjectInterfaceMtu(s)
      [] f = "lag_config" -> ProjectLagConfig(s)
      [] f = "lag" -> ProjectLagTopology(s)
      [] f = "bfd" -> ProjectBfd(s)
      [] f = "l2_service" -> ProjectL2Services(s)
      [] f = "logging" -> ProjectLogging(s)
      [] f = "snmp" -> ProjectSnmp(s)
      [] f = "static_route" -> ProjectStaticRoutes(s)
      [] f = "interface_ip" -> ProjectInterfaceIps(s)
      [] f = "bgp" -> ProjectBgp(s)
      [] f = "isis" -> ProjectIsis(s)
      [] f = "ospf" -> ProjectOspf(s)
      [] f = "redistribution" -> ProjectRedistribution(s)
      [] f = "route_policy" -> ProjectRoutePolicy(s)

Materialize(f, s) ==
    CASE f = "vlan" -> UpsertVlans(s)
      [] f = "svi" -> UpsertSvi(s)
      [] f = "subinterface" -> UpsertSubinterface(s)
      [] f = "interface_mtu" -> UpsertInterfaceMtu(s)
      [] f = "lag_config" -> UpsertLagConfigs(s)
      [] f = "lag" -> UpsertLags(s)
      [] f = "bfd" -> UpsertBfdData(s)
      [] f = "l2_service" -> UpsertL2Saps(s)
      [] f = "logging" -> UpsertLoggingConfig(s)
      [] f = "snmp" -> UpsertSnmpConfig(s)
      [] f = "static_route" -> UpsertStaticRoutes(s)
      [] f = "interface_ip" -> UpsertIpAddresses(s)
      [] f = "bgp" -> UpsertBgpData(s)
      [] f = "isis" -> UpsertIsisData(s)
      [] f = "ospf" -> UpsertOspfData(s)
      [] f = "redistribution" -> UpsertRedistribution(s)
      [] f = "route_policy" -> UpsertRoutePolicyData(s)

Get(f, rows) ==
    CASE f = "vlan" -> GetVlanDatabase(rows)
      [] f = "svi" -> GetSvi(rows)
      [] f = "subinterface" -> GetSubinterface(rows)
      [] f = "interface_mtu" -> GetInterfaceMtu(rows)
      [] f = "lag_config" -> GetLagConfig(rows)
      [] f = "lag" -> GetLagTopology(rows)
      [] f = "bfd" -> GetBfdInterfaces(rows)
      [] f = "l2_service" -> GetL2Services(rows)
      [] f = "logging" -> GetLoggingConfig(rows)
      [] f = "snmp" -> GetSnmpConfig(rows)
      [] f = "static_route" -> GetStaticRoutes(rows)
      [] f = "interface_ip" -> GetInterfaceIps(rows)
      [] f = "bgp" -> GetBgpConfig(rows)
      [] f = "isis" -> GetIsisInterfaces(rows)
      [] f = "ospf" -> GetOspf(rows)
      [] f = "redistribution" -> GetRedistribution(rows)
      [] f = "route_policy" -> GetRoutePolicy(rows)

Classes(f) ==
    CASE f = "vlan" -> [vlan |-> VlanEntry]
      [] f = "svi" -> [interface |-> SviEntry]
      [] f = "subinterface" -> [interface |-> SubinterfaceEntry]
      [] f = "interface_mtu" -> [interface |-> InterfaceMtuEntry]
      [] f = "lag_config" -> [lag |-> LagConfigEntry]
      [] f = "lag" -> [lag |-> LagTopologyEntry]
      [] f = "bfd" -> [interface |-> BfdEntry]
      [] f = "l2_service" -> [service |-> L2ServiceEntry]
      [] f = "logging" -> [host |-> LoggingHostEntry, local_levels |-> LoggingLevelsEntry]
      [] f = "snmp" -> [community |-> SnmpCommunityEntry, v3_user |-> SnmpUserEntry,
                        host |-> SnmpHostEntry, system |-> SnmpSystemEntry]
      [] f = "static_route" -> [route |-> StaticRouteEntry]
      [] f = "interface_ip" -> [interface |-> InterfaceIpEntry]
      [] f = "bgp" -> [router |-> BgpRouterEntry]
      [] f = "isis" -> [process |-> IsisProcessEntry, interface |-> IsisInterfaceEntry]
      [] f = "ospf" -> [instance |-> OspfInstanceEntry, interface |-> OspfInterfaceEntry]
      [] f = "redistribution" -> [instance |-> OspfDestination, process |-> IsisDestination,
                                  router |-> BgpDestination]
      [] f = "route_policy" -> [prefix_list |-> PolicyPrefixList, community_list |-> PolicyCommunityList,
                                as_path |-> PolicyAsPath, route_map |-> PolicyRouteMap]

-----------------------------------------------------------------------------
(* Sections: one list of one class varies, its ancestors are plain.        *)

Booleans == {"vpc_sensitive", "micro_bfd", "enabled", "has_auth_secret", "has_priv_secret", "passive",
             "auth_present", "invert_match", "secondary"}

(* Two values the leaf can have: any two, or two that are spelled apart. *)
LeafValues(n) ==
    IF n \in Booleans THEN {"true", "false"}
    ELSE IF n \in {"is_type", "circuit_type"} THEN {"level-1", "level-2"}
    ELSE IF n = "community" THEN {"native", "a"}
    ELSE {"a", "b"}

RECURSIVE Plain(_, _)

(* A whole row with the given key and one plain row in each nested list. *)
Plain(class, k) ==
    [n \in ToSet(class.identity) \cup class.required |-> k]
    @@ [n \in DOMAIN class.lists |-> <<Plain(class.lists[n], "1")>>]
    @@ (IF "user" \in class.optional THEN [version |-> "3"] ELSE <<>>)

Without(item, n) == [m \in DOMAIN item \ {n} |-> item[m]]

Set(item, n, v) == (n :> v) @@ item

(* One row of each kind the projection tells apart. *)
Samples(class, leaf) ==
    LET one == Plain(class, "1")
    IN  {Set(one, leaf, v) : v \in LeafValues(leaf) \cup {None, "", Bad, Clash}}
        \cup {Without(one, n) : n \in {leaf} \cup ToSet(class.identity)}
        \cup {Set(one, n, "") : n \in ToSet(class.identity)}
        \cup {Set(one, "unmodelled", "a"), NotObject}
        \cup {[m \in DOMAIN one |-> IF m \in DOMAIN class.lists THEN <<>> ELSE one[m]]}
        \cup (IF "redistribute" \in class.excluded
              THEN {Set(one, "redistribute", <<[source_ref |-> v]>>) : v \in {Bad, "a"}} ELSE {})

(* Beside it nothing, a row of the same identity, a row of another, or one
   that differs in the last field of a compound identity alone. *)
SampleLists(class, leaf) ==
    LET v == CHOOSE v \in LeafValues(leaf) : TRUE
        beside == {Set(Plain(class, k), leaf, v) : k \in {"1", "2"}}
                  \cup (IF Len(class.identity) > 1
                        THEN {Set(Set(Plain(class, "1"), Last(class.identity), "2"), leaf, v)} ELSE {})
    IN  {<<>>} \cup {<<s>> : s \in Samples(class, leaf)}
        \cup {<<s, b>> : s \in Samples(class, leaf), b \in beside}

RECURSIVE PathsBelow(_, _)

PathsBelow(path, classes) ==
    UNION {{[path |-> Append(path, n), leaf |-> l] : l \in Scalars(classes[n]) \ ToSet(classes[n].identity)}
           \cup (IF Scalars(classes[n]) \subseteq ToSet(classes[n].identity)
                 THEN {[path |-> Append(path, n), leaf |-> "unmodelled"]} ELSE {})
           \cup PathsBelow(Append(path, n), classes[n].lists) : n \in DOMAIN classes}

Focuses(f) == PathsBelow(<<>>, Classes(f))

RECURSIVE Within(_, _, _)

(* The values of a list on the path: the varied rows at its end, and above
   it one plain row that holds them. *)
Within(path, class, leaf) ==
    IF Len(path) = 1 THEN SampleLists(class, leaf)
    ELSE {<<Set(Plain(class, "1"), path[2], items)>>
          : items \in Within(Tail(path), class.lists[path[2]], leaf)}

Sections(f, foc) ==
    LET classes == Classes(f)
        n == foc.path[1]
        plain == [m \in DOMAIN classes |-> <<>>]
        values == Within(foc.path, classes[n], foc.leaf)
    IN  {[plain EXCEPT ![n] = items] : items \in values}
        \cup (IF f = "vlan" THEN {[vlan |-> a, vlans |-> b] : a, b \in {v \in values : Len(v) = 1}} ELSE {})

(* The plain section of a family: one whole row in every list. *)
PlainSection(f) == [n \in DOMAIN Classes(f) |-> <<Plain(Classes(f)[n], "1")>>]

Start == [n \in DOMAIN Classes(family) |-> <<>>]

-----------------------------------------------------------------------------
Init ==
    /\ family \in Families
    /\ focus \in Focuses(family)
    /\ section = Start
    /\ mirror = <<>>
    /\ published = section
    /\ refused = FALSE

(* The savepoint around the materializer: its work commits as a whole, or  *)
(* the exception, its own or a constraint's, rolls it back.                *)
Settle(out) ==
    LET whole == out.ok /\ Storable(family, out.rows)
    IN  /\ mirror' = IF whole THEN out.rows ELSE mirror
        /\ refused' = ~whole

Refresh(s) ==
    /\ section' = s
    /\ \E out \in {Materialize(family, s)} : Settle(out)
    /\ published' = IF refused' THEN published ELSE Project(family, s).lists
    /\ UNCHANGED <<family, focus>>

(* Any section is read over an empty or a plain one; after it the device is
   plain again.  A refresh depends on what came before only through what a
   refusal keeps, so longer histories repeat these. *)
Next ==
    \E s \in {PlainSection(family)}
              \cup (IF section \in {Start, PlainSection(family)} THEN Sections(family, focus) ELSE {}) :
        Refresh(s)

Spec == Init /\ [][Next]_vars

-----------------------------------------------------------------------------
(* The observation and the answer, as flat entries.                        *)

(* A neighbour's mirror row stands for all its groups, and a redistribution
   row for its protocol and for all VRFs of an OSPF process. *)
MirrorKey(list, e, class) ==
    CASE list = "peer" -> <<e.peer_address>>
      [] family = "redistribution" /\ list = "instance" -> <<"ospf", e.process_id>>
      [] family = "redistribution" /\ list = "process" -> <<"isis", e.process_tag>>
      [] family = "redistribution" /\ list = "router" -> <<"bgp", e.asn>>
      [] OTHER -> EntryKey(e, class)

RECURSIVE Flat(_, _, _, _)

Flat(list, key, e, class) ==
    LET below == key \o MirrorKey(list, e, class)
    IN  {[list |-> list, key |-> below,
          leaves |-> [n \in Scalars(class) \ (ToSet(class.identity) \cup class.credentials) |-> e[n]],
          kids |-> {n \in DOMAIN class.lists : e[n] # <<>>}]}
        \cup UNION {UNION {Flat(n, below, e[n][i], class.lists[n]) : i \in 1 .. Len(e[n])} : n \in DOMAIN class.lists}

Observed(lists) ==
    LET classes == Classes(family)
    IN  UNION {UNION {Flat(n, <<>>, ObservationPayload(lists[n][i], classes[n]), classes[n])
                      : i \in 1 .. Len(lists[n])} : n \in DOMAIN lists}

Same(a, b) == a.list = b.list /\ a.key = b.key

Credentials == {"password", "area_auth_key", "domain_auth_key", "auth_key", "hello_auth_key"}

(* Leaves the mirror has no column for. *)
Unmirrored(list, n) ==
    \/ n \in {"description", "has_secret"}
    \/ family = "ospf" /\ list = "interface" /\ n = "bfd_enabled"
    \/ list = "peer_group_address_family" /\ n = "enabled"

(* What a column holds when the wire said nothing. *)
Defaults == {None, "", "false", "true", "svi", "subinterface", "unknown", "RO", "4"}

(* Entries the mirror has no row for: a destination of redistribution, a
   service without a SAP, an interface without an address, a system that says
   nothing, and levels that were sent without a level. *)
RowlessEntry(o) ==
    \/ family = "redistribution" /\ o.list # "redistribute"
    \/ o.list \in {"service", "interface"} /\ family \in {"l2_service", "interface_ip"} /\ o.kids = {}
    \/ o.list \in {"system", "local_levels"} /\ \A n \in DOMAIN o.leaves : Empty(o.leaves[n])

(* The stored rows fill their tables, and the published observation has the
   lists its family declares. *)
TypeOK ==
    /\ family \in Families /\ focus \in Focuses(family)
    /\ refused \in BOOLEAN
    /\ Storable(family, mirror) /\ \A r \in ToSet(mirror) : FillsTable(family, r)
    /\ DOMAIN published = DOMAIN Classes(family)

(* What a GET serves was said by the observation published with it: every
   row is one of its entries, and every leaf is the entry's, or the column's
   default where the entry says nothing. *)
NothingInvented ==
    LET seen == Observed(published)
    IN  \A s \in Get(family, mirror) :
            /\ \E o \in seen : Same(o, s)
            /\ \A n \in DOMAIN s.leaves \ Credentials :
                  \E o \in seen :
                      /\ Same(o, s)
                      /\ \/ n \notin DOMAIN o.leaves
                         \/ o.leaves[n] = s.leaves[n]
                         \/ Empty(o.leaves[n]) /\ s.leaves[n] \in Defaults

(* What the observation says is served: every entry has its row and every
   value the mirror has a column for is in it.  Of several entries that
   share a row only the row is asked for. *)
NothingLost ==
    LET seen == Observed(published)
        answer == Get(family, mirror)
    IN  \A o \in seen : ~RowlessEntry(o) =>
            \E s \in answer :
                /\ Same(o, s)
                /\ \/ \E p \in seen : p # o /\ Same(p, o)
                   \/ \A n \in DOMAIN o.leaves :
                         \/ Empty(o.leaves[n]) \/ Unmirrored(o.list, n)
                         \/ n = "vpc_sensitive" /\ o.leaves[n] = "false"
                         \/ n \in DOMAIN s.leaves /\ s.leaves[n] = o.leaves[n]

=============================================================================
