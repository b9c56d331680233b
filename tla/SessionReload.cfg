\* Two participants who reload after a conflict; two faults.
SPECIFICATION FairSpec
CONSTANTS
  annTab = annTab
  bobTab = bobTab
  eveTab = eveTab
  Clients = {annTab, bobTab}
  Actor <- MCActor
  Order <- MCOrder
  Ops = {o1, o2}
  Commutes = {}
  Rebases = FALSE
  MaxFaults = 2
  None = None
INVARIANTS
  RecordedWasCommitted
  OneMovePerTurn
PROPERTIES
  
  CommittedIsRecorded
CHECK_DEADLOCK FALSE
