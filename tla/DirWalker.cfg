CONSTANTS
  Dirs <- MCDirs
  Files <- MCFiles
  Trees <- MCTrees
  Limits = {0, 1, 2, 3, 4, 5}
SPECIFICATION Spec
INVARIANTS WInv BudgetIsForTheTree
PROPERTIES WalkSpec ErrorStays WalkEnds
CHECK_DEADLOCK FALSE
