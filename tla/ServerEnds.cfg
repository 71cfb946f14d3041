SPECIFICATION EndsSpec
CONSTANTS
  Handlers = {1, 2, 3}
  Kinds = {"host"}
  Limits <- MCLimits
  MaxEdits = 0
  MaxFaults = 0
INVARIANTS UdpSound
PROPERTIES ShutdownEnds
CHECK_DEADLOCK FALSE
