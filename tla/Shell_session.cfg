SPECIFICATION Spec
CONSTANTS
  Names = {"test", "test2", "b"}
  Depth = 3
  Shells = {1, 2}
  Base <- MCBase
  Alike = {"test", "test2"}
  Inodes = {1, 2, 3}
  Hollow = {2}
  Formats <- MCFormats
  Trees <- SmallTrees
  Operands <- MCOperands
  MaxFollow = 3
  MaxCommands = 2
CHECK_DEADLOCK FALSE
INVARIANTS TypeOK FailureHasCause CatOpensWhatItChecked
PROPERTIES StaysInside CopyIsWhole ChmodChangesNamedBits PromptReturns
