SPECIFICATION MCSpec
CONSTANTS
  Sessions = {"one", "two"}
  Workloads <- OneOrTwo
INVARIANTS SessionSound NotStranded NodesExact 
CHECK_DEADLOCK FALSE
