SPECIFICATION Spec
CONSTANTS
  Procs = {p1, p2}
  Apps = {a1, a2}
  Domains = {d1, d2}
  Ports = {8000, 8001, 8002}
  Exclusive = TRUE
  Scenes <- SoloAndPair
CHECK_DEADLOCK FALSE
INVARIANTS Withdrawn AddedDomainServed DomainsDistinct PortsDistinct DeployServes
SYMMETRY ProcAndDomSymmetry
