SPECIFICATION Spec
CONSTANTS
  Sections = {"ospf"}
  Unrepresentable = {"20"}
INVARIANTS
  ClearedScalarGoes
CHECK_DEADLOCK FALSE
