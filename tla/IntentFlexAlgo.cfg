SPECIFICATION Spec
CONSTANTS
  Sections = {"isis"}
  Unrepresentable = {"20"}
INVARIANTS
  ShrinkNeedsNoAllowance
CHECK_DEADLOCK FALSE
