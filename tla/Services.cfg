\* One small instance of each service.  ConfigApproval: two requests at once on
\* one server, two administrators, everything fails but an answer.
SPECIFICATION Services
CONSTANTS
  Calls = {c1, c2}
  Keys = {flag, key}
  Flag = flag
  Safety = {flag, key}
  Dual = {flag}
  Values = {off, on}
  Off = off
  Accepts <- Fits
  Admins = {a1, a2}
  Tiers <- AllTiers
  Servers = {s1}
  Requests = {c1, c2}
  None = None
  Faults = {"crash", "read", "audit", "write", "reopen"}
  MaxCalls = 3
  MaxRows = 2
  ForAccess <- AccessConstants
  ForPaid <- PaidConstants
  ForSigningIn <- SigningInConstants
  ForGroup <- GroupConstants
  ForPersonal <- PersonalConstants
  ForSpeech <- SpeechConstants
  ForDesk <- DeskConstants
  ForGate <- GateConstants
  ForConsole <- ConsoleConstants
  ForUnwind <- UnwindConstants
  ForStale <- StaleConstants
  ForPassword <- PasswordConstants
  ForRealtime <- RealtimeConstants
  ForServing <- ServingConstants
SYMMETRY Symmetry
INVARIANTS
  IndependentlyApproved
  OutOfForce
  ApprovedIsApplied
  PermissionsAgeOut
  
  SessionIsItsOwners
  ConsentIsUsedOnce
  ErasureIsKept
  
  
  
  OnlyConfirmedRuns
  UnwindIsReverse
  
  PolicyIsKept
  StreamsAreKept
  ServerIsSound
PROPERTY RowsChangeLawfully
CHECK_DEADLOCK FALSE
