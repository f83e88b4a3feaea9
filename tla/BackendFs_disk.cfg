SPECIFICATION Spec
CONSTANTS
  Names = {"a", "b"}
  Depth = 3
  Mounted = {"b"}
  Trees <- SmallTrees
  Numbered <- MCNumbered
  MaxEntries = 1
  MaxForeign = 0
  MaxFaults = 1
CHECK_DEADLOCK FALSE
INVARIANTS MoveSurvivesFullDisk
