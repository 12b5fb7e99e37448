SPECIFICATION Spec
CONSTANTS
  Procs = {p1}
  Keys = {1, 2}
  v1 = v1
  v2 = v2
  Values = {v1, v2}
  Clean <- MCClean
  Open = {}
  None = None
  Gone = Gone
  NoFile = NoFile
  Broken = Broken
  Down = Down
  Types = {"container", "static"}
  Shipped <- MCShipped
  Events = {"retype", "fail", "write", "start", "kill"}
CHECK_DEADLOCK FALSE
INVARIANTS VariableKept VariableRuns ShippedRuns
