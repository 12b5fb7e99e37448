SPECIFICATION Spec
CONSTANTS
  Procs = {p1}
  Apps = {a1}
  Domains = {d1}
  Ports = {8000, 8001}
  Exclusive = TRUE
  Scenes <- StackScenes
CHECK_DEADLOCK FALSE
INVARIANTS RoutesToBoundPort
