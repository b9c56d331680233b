\* A gated step before an ungated one, one call at a time: versions, inputs,
\* revisions, administrators and an intruder.
SPECIFICATION Spec
CONSTANTS
  agent = agent
  agent2 = agent2
  intruder = intruder
  annS1 = annS1
  annS2 = annS2
  bob = bob
  platform = platform
  NoUser = NoUser
  NoSession = NoSession
  None = None
  NumSteps = 2
  Gated = {0}
  Versions = {v1, v2}
  Inputs = {none, text}
  NoInput = none
  Agents = {agent, intruder}
  Approvers = {annS1, annS2, bob}
  Id <- MCId
  Admins = {bob}
  ApproverKind = "user"
  Revisers = {agent}
  Calls = {c1}
  Deciders = {d1}
  ProposalIds = {p1, p2}
  MaxCrashes = 0
SYMMETRY Symmetry
INVARIANTS
  RunsWhatWasApproved
  OnlyTheOwnerProposes
CHECK_DEADLOCK FALSE
