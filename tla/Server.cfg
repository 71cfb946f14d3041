SPECIFICATION ServerSpec
CONSTANTS
  Handlers = {1, 2, 3}
  Kinds = {"tcp", "connect", "socks5", "secret", "https", "host", "websocket"}
  Limits <- MCLimits
  MaxEdits = 1
  MaxFaults = 1
INVARIANTS SlotsReturn NothingLeftOpen  OwnersSound FreshUsesCurrent PaceKept
CHECK_DEADLOCK FALSE
