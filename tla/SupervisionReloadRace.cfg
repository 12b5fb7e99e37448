SPECIFICATION Spec
CONSTANTS
  Procs = {p1, p2}
  Apps = {a1, a2}
  Types = {container, compose, static}
  Compose = compose
  Exclusive = TRUE
  Scenes <- ChangeScenes
CHECK_DEADLOCK FALSE
INVARIANTS Supervised
