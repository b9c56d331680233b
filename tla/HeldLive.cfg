\* Progress: a resumed approval is used, although a request may die half-way.
SPECIFICATION FairSpec
CONSTANTS
  agent = agent
  agent2 = agent2
  intruder = intruder
  annS1 = annS1
  annS2 = annS2
  bob = bob
  platform = platform
  NoUser = NoUser
  NoSession = NoSession
  None = None
  NumSteps = 2
  Gated = {0, 1}
  Versions = {v1}
  Inputs = {none}
  NoInput = none
  Agents = {agent}
  Approvers = {annS1, annS2, agent2}
  Id <- MCId
  Admins = {}
  ApproverKind = "user"
  Revisers = {}
  Calls = {c1}
  Deciders = {d1}
  ProposalIds = {p1, p2}
  MaxCrashes = 1
PROPERTY ApprovalIsUsed
CHECK_DEADLOCK FALSE
