\* Every step gated, two concurrent calls: who claims, who runs and who records.
SPECIFICATION Spec
CONSTANTS
  agent = agent
  agent2 = agent2
  intruder = intruder
  annS1 = annS1
  annS2 = annS2
  bob = bob
  platform = platform
  NoUser = NoUser
  NoSession = NoSession
  None = None
  NumSteps = 2
  Gated = {0, 1}
  Versions = {v1}
  Inputs = {none}
  NoInput = none
  Agents = {agent}
  Approvers = {annS2}
  Id <- MCId
  Admins = {}
  ApproverKind = "user"
  Revisers = {}
  Calls = {c1, c2}
  Deciders = {d1}
  ProposalIds = {p1, p2}
  MaxCrashes = 1
SYMMETRY Symmetry
INVARIANTS
  AtMostOneRun
  RecordedMeansRan
  StepsInOrder
PROPERTY ImplementsLifecycle
CHECK_DEADLOCK FALSE
