SPECIFICATION Spec
CONSTANTS
  Revisions <- Some
  Services <- TwoServices
  Files <- TwoFiles
  Flags <- NoFlag
  Elsewhere = Elsewhere
CHECK_DEADLOCK FALSE
INVARIANTS RoutedPortBound ProbesReach LoopbackTold LeftoversReported
