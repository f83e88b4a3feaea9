SPECIFICATION FairSpec
CONSTANTS
  Names = {"a", "b"}
  Depth = 3
  Mounted = {"b"}
  Trees <- SmallTrees
  Numbered <- MCNumbered
  MaxEntries = 4
  MaxForeign = 1
  MaxFaults = 1
CHECK_DEADLOCK FALSE
INVARIANTS TypeOK EffectAsPromised NewDirectoryIsNew LinkIsHonest DeleteIsHonest CopyIsComplete MoveKeepsFiles MoveIsComplete Underway
PROPERTIES CommandEnds
