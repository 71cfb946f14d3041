SPECIFICATION ConnsSpec
CONSTANTS
  Handlers = {1, 2, 3}
  Kinds = {"host"}
  Limits <- MCLimits
  MaxEdits = 0
  MaxFaults = 0
INVARIANTS LimitKept
CHECK_DEADLOCK FALSE
