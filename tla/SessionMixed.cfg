\* A commutative action among others, clients that rebase, an outsider.
SPECIFICATION Spec
CONSTANTS
  annTab = annTab
  bobTab = bobTab
  eveTab = eveTab
  Clients = {annTab, bobTab, eveTab}
  Actor <- MCActor
  Order <- MCOrder
  Ops = {o1, o2}
  Commutes = {o2}
  Rebases = TRUE
  MaxFaults = 1
  None = None
PROPERTY ExclusiveAppends
CHECK_DEADLOCK FALSE
