SPECIFICATION ClientSpec
CONSTANTS
  Families = {"v4"}
  Paths = {1, 2}
  Sprays = {"visitor"}
  Losses = TRUE
  Timeouts = {"visitor", "provider"}
  MaxEpoch = 2
INVARIANTS PeersAgree VisitorSound ProviderSound  
CHECK_DEADLOCK FALSE
