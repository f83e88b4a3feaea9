SPECIFICATION Spec
CONSTANTS
  Names <- MCNames
  Depth = 1
  Spell <- MCSpell
  TextMax = 5
  Trees <- SmallTrees
  Start <- None
  Cwd <- None
  TypedTexts <- MCTexts
  TypedNames = {"f", "x$y"}
  NewFolder = "new"
  Numbered <- MCNumbered
  MaxCommands = 2
  MaxRefresh = 1
CHECK_DEADLOCK FALSE
INVARIANTS TypeOK DialogKeepsTarget ReadAsMeant
PROPERTIES ListSetToEntry ClearedListReturns FavoritesCatchUp
