SPECIFICATION Spec
CONSTANTS
  Procs = {p1}
  Keys = {1}
  v1 = v1
  v2 = v2
  Values = {v1}
  Clean <- MCClean
  Open = {}
  None = None
  Gone = Gone
  NoFile = NoFile
  Broken = Broken
  Down = Down
  Types = {"container"}
  Shipped <- MCShippedBroken
  Events = {}
CHECK_DEADLOCK FALSE
INVARIANTS VariableKept
