SPECIFICATION PushesSpec
CONSTANTS
  Streams = {"vlan", "interface"}
  ChainStreams = {"interface"}
  Keys = {"k1", "k2"}
  Bodies <- AllBodies
  Section <- OwnSections
  NoFragment = NoFragment
  MaxPushes = 3
  MaxGens = 3
  Sections = {"vlan", "svi", "subinterface", "bfd", "interface_mtu", "l2_sap", "logging", "snmp", "route_policy", "interface_config", "isis", "ospf", "bgp"}
  Unrepresentable = {"20"}
INVARIANTS
  AdmittedOnce
  AppliedMeansCrossed
  SettledIsDeployed
  AuthorityIsComplete
  ClearsAreRecorded
  NothingDroppedStays
  RefusedOnlyForMadeUp
PROPERTIES
  OnlyDeletionsLeaveDevice
CHECK_DEADLOCK FALSE
