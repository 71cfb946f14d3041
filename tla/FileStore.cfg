SPECIFICATION MCSpec
CONSTANTS
  Names = {"a", "b"}
  Platforms = {"p"}
  Keys = {"k", "l"}
  Passwords = {"p", "q"}
  HostNames = {"x"}
  Snapshots <- SomeSnapshots
  Starts <- SomeStarts
  MaxId = 2
  MaxSteps = 4
  Goroutines = {"g1", "g2"}
  Records = {1, 2}
  MaxChanges = 3
INVARIANTS RecordsExact ChangesDurable SelectionIsBest
PROPERTIES StoreRefinesTables
