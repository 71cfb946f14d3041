SPECIFICATION QueueSpec
CONSTANTS
  MSS = 2
  Initial = 2
  AckThreshold = 3
  MaxConn = 4
  SessionLimit = 4
  OtherQueued = {0, 4}
  MaxWrite = 2
  MaxBytes = 3
INVARIANTS QueueSound 
PROPERTIES CloseCompletes ReadToTheEnd
CHECK_DEADLOCK FALSE
