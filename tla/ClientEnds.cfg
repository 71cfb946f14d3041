SPECIFICATION EndsSpec
CONSTANTS
  Families = {"v4"}
  Paths = {1}
  Sprays = {"visitor"}
  Losses = FALSE
  Timeouts = {}
  MaxEpoch = 2
PROPERTIES LossRecovers 
CHECK_DEADLOCK FALSE
