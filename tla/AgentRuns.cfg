\* Two runs of an agent whose budget covers one step and a half.
SPECIFICATION Spec
CONSTANTS
  first = first
  second = second
  Runs = {r1, r2}
  Callers = {r1, r2}
  Trajectories = {first, second}
  NoTrajectory = NoTrajectory
  Effectful = {1}
  Effects <- MCEffects
  Askable <- MCAskable
  NoEffect = NoEffect
  MaxFaults = 1
  Costs = {2}
  DailyCap = 3
  StepCap = 2
  GovernedCaps = {1, 9}
  GovernedSteps = {0}
  MaxDay = 1
  MaxResumes = 2
SYMMETRY Symmetry
INVARIANTS
  FiresAtMostOnce
  ConfirmedHappened
  OvershootIsBounded
  SpendIsCounted
  
CHECK_DEADLOCK FALSE
