\* A child without consent in front of the gate.
SPECIFICATION Spec
CONSTANTS
  Calls = {c1, c2}
  Modules = 2
  Devices = {d}
  None = None
  MaxConsents = 2
  MaxCalls = 3
SYMMETRY Symmetry
INVARIANT
  GateFollowsConsent
CHECK_DEADLOCK FALSE
