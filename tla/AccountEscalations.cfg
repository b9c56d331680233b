\* One escalation, two moderators at work, one of them the owner of the account,
\* and the reaper.
SPECIFICATION FairSpec
CONSTANTS
  NoOne = NoOne
  Owner = owner
  Blocks = {}
  Escalations = {e1}
  Reviewers = {r1, r2, owner}
  Requests = {q1, q2}
  WarnAt = 1
  SuspendAt = 2
  BanAt = 2
  Remedials = {"block", "escalate_higher"}
  Faults = {"crash", "audit", "expire"}
  MaxCalls = 3
PROPERTY EscalationEnds
CHECK_DEADLOCK FALSE
