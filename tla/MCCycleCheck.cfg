CONSTANTS
  Nodes = 4
  MaxRefs = 4
  Node <- MCNode
  Graphs <- MCGraphs
SPECIFICATION Spec
INVARIANT DetectsCycles
PROPERTY EveryCheckEnds
CHECK_DEADLOCK FALSE
