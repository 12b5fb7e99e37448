SPECIFICATION Spec
CONSTANTS
  Calls = {c1, c2, c3}
  Original = Original
SYMMETRY CallSymmetry
CHECK_DEADLOCK FALSE
INVARIANTS NeverTorn AcknowledgedSurvives
PROPERTIES NoLitter ImplementsRegister
