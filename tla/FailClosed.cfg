\* A classifier that fails: what the guardian does with its verdict.
SPECIFICATION Spec
CONSTANTS
  a = a
  x = x
  y = y
  Requests = {q1, q2}
  Users = {u}
  Guests = {g}
  None = None
  Kinds = {"process", "stream", "name"}
  Stores = {"atomic", "redis"}
  Cap <- MCCap
  Span <- MCSpan
  Allowances = {1, 2}
  Threshold = 1
  Recovery = 1
  Probes = 1
  Window = 2
  Overlap = 1
  Tokens = {a, x, y}
  Scripts <- MCScripts
  Answers <- MCAnswers
  Phrase <- MCPhrase
  Verdicts <- MCVerdicts
  Alarms <- MCAlarms
  Matches = {{}, {0, 3}}
  MaxTime = 1
SYMMETRY Symmetry
INVARIANT
  FailedScreeningWithholds
CHECK_DEADLOCK FALSE
