\* Two blocks handled at once, requests that interleave, failing stores.
SPECIFICATION Spec
CONSTANTS
  NoOne = NoOne
  Owner = owner
  Blocks = {b1, b2}
  Escalations = {}
  Reviewers = {r1, owner}
  Requests = {q1}
  WarnAt = 1
  SuspendAt = 2
  BanAt = 2
  Remedials = {"block", "escalate_higher"}
  Faults = {"crash", "audit", "users", "strikes", "queue"}
  MaxCalls = 2
SYMMETRY Symmetry
INVARIANTS
  EveryStrikeIsWeighed
  StatusIsOnRecord
  BannedIsReviewed
  OverturnIsFinal
CHECK_DEADLOCK FALSE
