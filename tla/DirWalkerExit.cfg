CONSTANTS
  Dirs <- MCDirs
  Files <- MCFiles
  Trees <- MCTrees
  Limits = {0, 1, 2, 3, 4, 5}
SPECIFICATION Spec
PROPERTIES ExitsOnFirstError
CHECK_DEADLOCK FALSE
