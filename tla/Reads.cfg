SPECIFICATION ReadsSpec
CONSTANTS
  Families = {"attrs", "bgp"}
  Attrs = "attrs"
  LockOrder <- Order
  Readers = {r1, r2}
  Plans <- PollsAndSyncs
  Served <- ServedByRead
  Bodies = {{x}, {y}}
  MaxRuns = 2
  MaxEpoch = 2
  MaxFaults = 1
  CompositeServed = {"present", "malformed", "read_error", "export_down", "not_authoritative", "unsupported", "uncovered"}
  Mirrored = {"vlan", "svi", "subinterface", "interface_mtu", "lag_config", "lag", "bfd", "l2_service", "logging", "snmp", "static_route", "interface_ip", "bgp", "isis", "ospf", "redistribution", "route_policy"}
SYMMETRY MirrorSymmetry
INVARIANTS
  PublicationIsWhole
  NewestEndShown
  SucceededIsClean
  PartitionIsLastAuthoritative
  ObservationIsShown
  NothingInvented
  NothingLost
PROPERTIES
  ServesLaterReads
  NeverAnOlderRead
CHECK_DEADLOCK FALSE
