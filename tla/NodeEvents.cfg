SPECIFICATION MCSpec
CONSTANTS
  Requests = {1, 2, 3}
  Plans <- MCPlans
INVARIANTS OneExecution ReplayIsReal  
CHECK_DEADLOCK FALSE
