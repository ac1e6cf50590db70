CONSTANTS
  NoOcc = NoOcc
  Trees <- MCTrees
SPECIFICATION Spec
INVARIANT RoutingAgrees
CHECK_DEADLOCK FALSE
