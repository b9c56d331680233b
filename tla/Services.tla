------------------------------ MODULE Services ------------------------------
(***************************************************************************)
(* Every service that shares no state with the others: the change of       *)
(* settings (ConfigApproval, whose module this one extends) and fourteen   *)
(* more.  A behaviour is one of one service, chosen at its start:          *)
(* "running" names it and v1, v2, ... are its variables, in the order its  *)
(* module declares them.  The states are the sum of those of the services, *)
(* not their product, and a property speaks of its own service.            *)
(***************************************************************************)
EXTENDS ConfigApproval

CONSTANTS
  Calls,  \* what is at work at once: requests, tabs, walks, deciders
  \* The other constants of each service, a record of them by their names:
  ForAccess, ForPaid, ForSigningIn, ForGroup, ForPersonal, ForSpeech,
  ForDesk, ForGate, ForConsole, ForUnwind, ForStale, ForPassword,
  ForRealtime, ForServing

VARIABLES running, v1, v2, v3, v4, v5, v6, v7, v8, v9, v10, v11

slots == <<v1, v2, v3, v4, v5, v6, v7, v8, v9, v10, v11>>

-----------------------------------------------------------------------------
(* The services *)

Access == INSTANCE AdminAccess WITH
    Users <- ForAccess.Users, Roles <- ForAccess.Roles, Perms <- ForAccess.Perms,
    Groups <- ForAccess.Groups, Servers <- ForAccess.Servers, Requests <- Calls,
    Protected <- ForAccess.Protected, Free <- ForAccess.Free, Manage <- ForAccess.Manage,
    Inherits <- ForAccess.Inherits, GroupPerms <- ForAccess.GroupPerms,
    RoleOf <- ForAccess.RoleOf, PermsOf <- ForAccess.PermsOf, Absent <- ForAccess.Absent,
    Holders <- ForAccess.Holders, Asks <- ForAccess.Asks, TTL <- ForAccess.TTL,
    Banned <- ForAccess.Banned, Faults <- ForAccess.Faults, MaxTime <- ForAccess.MaxTime,
    MaxCalls <- ForAccess.MaxCalls,
    now <- v1, user <- v2, roles <- v3, group <- v4, cache <- v5, req <- v6, gone <- v7,
    calls <- v8

Paid == INSTANCE PaidRequests WITH
    Requests <- Calls, Users <- ForPaid.Users, Guests <- ForPaid.Guests,
    Kinds <- ForPaid.Kinds, Stores <- ForPaid.Stores, Cap <- ForPaid.Cap,
    Span <- ForPaid.Span, Allowances <- ForPaid.Allowances, Threshold <- ForPaid.Threshold,
    Recovery <- ForPaid.Recovery, Probes <- ForPaid.Probes, Window <- ForPaid.Window,
    Overlap <- ForPaid.Overlap, Tokens <- ForPaid.Tokens, Scripts <- ForPaid.Scripts,
    Answers <- ForPaid.Answers, Phrase <- ForPaid.Phrase,
    Verdicts <- ForPaid.Verdicts, Alarms <- ForPaid.Alarms, Matches <- ForPaid.Matches,
    MaxTime <- ForPaid.MaxTime,
    now <- v1, store <- v2, entries <- v3, used <- v4, allowance <- v5, breaker <- v6,
    req <- v7

SigningIn == INSTANCE SignIn WITH
    Tabs <- Calls, Emails <- ForSigningIn.Emails, WithTotp <- ForSigningIn.WithTotp,
    Temporary <- ForSigningIn.Temporary, Known <- ForSigningIn.Known,
    MaxTime <- ForSigningIn.MaxTime, MaxCalls <- ForSigningIn.MaxCalls,
    MaxAttempts <- ForSigningIn.MaxAttempts,
    pool <- v1, browser <- v2, tab <- v3, sso <- v4, calls <- v5, time <- v6

Group == INSTANCE Groups WITH
    Calls <- Calls, GroupIds <- ForGroup.GroupIds, People <- ForGroup.People,
    MaxInvites <- ForGroup.MaxInvites, MaxRows <- ForGroup.MaxRows,
    MaxCalls <- ForGroup.MaxCalls,
    group <- v1, member <- v2, invite <- v3, call <- v4, made <- v5

Personal == INSTANCE UserData WITH
    Calls <- Calls, Modules <- ForPersonal.Modules, Devices <- ForPersonal.Devices,
    MaxConsents <- ForPersonal.MaxConsents, MaxCalls <- ForPersonal.MaxCalls,
    user <- v1, terms <- v2, devices <- v3, data <- v4, log <- v5, call <- v6,
    answered <- v7, made <- v8

Speech == INSTANCE Voice WITH
    ByteLimit <- ForSpeech.ByteLimit, Requests <- Calls, Said <- ForSpeech.Said,
    Unsafe <- ForSpeech.Unsafe, Targets <- ForSpeech.Targets, Scripts <- ForSpeech.Scripts,
    MaxRetries <- ForSpeech.MaxRetries, MinClip <- ForSpeech.MinClip,
    MaxClip <- ForSpeech.MaxClip, Clips <- ForSpeech.Clips,
    MaxRequests <- ForSpeech.MaxRequests,
    request <- v1, cache <- v2, answer <- v3, made <- v4

Desk == INSTANCE ReviewDesk WITH
    Items <- ForDesk.Items, Filters <- ForDesk.Filters, Decisions <- ForDesk.Decisions,
    Me <- ForDesk.Me, Colleague <- ForDesk.Colleague, MaxReads <- ForDesk.MaxReads,
    MaxCalls <- ForDesk.MaxCalls,
    row <- v1, page <- v2, draft <- v3, busy <- v4, assist <- v5, reads <- v6, calls <- v7,
    submitted <- v8, sent <- v9

Gate == INSTANCE AccountGate WITH
    Checks <- ForGate.Checks, Registered <- ForGate.Registered, TTL <- ForGate.TTL,
    MaxTime <- ForGate.MaxTime, MaxChanges <- ForGate.MaxChanges,
    now <- v1, account <- v2, blocked <- v3, lists <- v4, cache <- v5, desk <- v6,
    check <- v7, held <- v8, changes <- v9

Console == INSTANCE AdminConsole WITH
    Holds <- ForConsole.Holds, NoHold <- None, Revocable <- ForConsole.Revocable,
    MaxPlan <- ForConsole.MaxPlan, MaxPrompts <- ForConsole.MaxPrompts,
    MaxConfirms <- ForConsole.MaxConfirms, MaxMoves <- ForConsole.MaxMoves,
    MaxClicks <- ForConsole.MaxClicks, MaxReads <- ForConsole.MaxReads,
    moves <- v1, page <- v2, panel <- v3, prompt <- v4, runs <- v5, clicks <- v6,
    reads <- v7, server <- v8, log <- v9

Unwind == INSTANCE Compensation WITH
    Walks <- Calls, Kinds <- ForUnwind.Kinds, Length <- ForUnwind.Length,
    MaxLate <- ForUnwind.MaxLate, MaxFaults <- ForUnwind.MaxFaults,
    steps <- v1, walk <- v2, done <- v3, faults <- v4

Stale == INSTANCE StaleApproval WITH
    Deciders <- Calls, Runners <- Calls, Commutes <- ForStale.Commutes,
    Expects <- ForStale.Expects, MaxVersion <- ForStale.MaxVersion,
    MaxProposals <- ForStale.MaxProposals,
    version <- v1, proposals <- v2, trajectory <- v3, decider <- v4, runner <- v5,
    since <- v6, log <- v7

Password == INSTANCE PasswordPolicy WITH
    Requests <- Calls, Admins <- ForPassword.Admins, Lengths <- ForPassword.Lengths,
    Limits <- ForPassword.Limits, Default <- ForPassword.Default,
    Stored <- ForPassword.Stored, MaxCalls <- ForPassword.MaxCalls,
    row <- v1, log <- v2, req <- v3, calls <- v4, accepted <- v5

Realtime == INSTANCE RealtimeChannels WITH
    Names <- ForRealtime.Names, Handlers <- ForRealtime.Handlers,
    MaxLinks <- ForRealtime.MaxLinks, MaxWriters <- ForRealtime.MaxWriters,
    MaxSent <- ForRealtime.MaxSent, MaxCalls <- ForRealtime.MaxCalls,
    state <- v1, channels <- v2, clients <- v3, links <- v4, writers <- v5, removals <- v6,
    leaving <- v7, heard <- v8, calls <- v9, sent <- v10, orphaned <- v11

Serving == INSTANCE Startup WITH
    Environments <- ForServing.Environments, Checks <- Calls, TTL <- ForServing.TTL,
    MaxTime <- ForServing.MaxTime,
    env <- v1, phase <- v2, initialized <- v3, slots <- v4, ready <- v5, now <- v6,
    probe <- v7, check <- v8, calls <- v9

ASSUME ServicesAssumption ==
  /\ Access!AccessAssumption /\ Paid!RequestsAssumption /\ Gate!GateAssumption
  /\ SigningIn!SignInAssumption /\ Group!GroupsAssumption /\ Desk!DeskAssumption
  /\ Personal!UserDataAssumption /\ Unwind!UnwindAssumption /\ Stale!StaleAssumption
  /\ Password!PasswordAssumption /\ Serving!StartupAssumption
  /\ Realtime!ChannelsAssumption /\ Console!ConsoleAssumption /\ Speech!VoiceAssumption

-----------------------------------------------------------------------------
(* One service at a time *)

\* What a service leaves unused: Unused(n) from n + 1 on.
Unused9 == v10 = 0 /\ v11 = 0
Unused8 == v9 = 0 /\ Unused9
Unused7 == v8 = 0 /\ Unused8
Unused6 == v7 = 0 /\ Unused7
Unused5 == v6 = 0 /\ Unused6
Unused4 == v5 = 0 /\ Unused5
Unused0 == v1 = 0 /\ v2 = 0 /\ v3 = 0 /\ v4 = 0 /\ Unused4

\* While another service runs, no request for a setting is made.
Quiet == Init /\ value = [k \in Keys |-> CHOOSE v \in Accepts[k] : TRUE]

ServicesInit ==
  \/ running = "config" /\ Init /\ Unused0
  \/ running = "access" /\ Quiet /\ Access!Init /\ Unused8
  \/ running = "paid" /\ Quiet /\ Paid!Init /\ Unused7
  \/ running = "signin" /\ Quiet /\ SigningIn!Init /\ Unused6
  \/ running = "groups" /\ Quiet /\ Group!Init /\ Unused5
  \/ running = "userdata" /\ Quiet /\ Personal!Init /\ Unused8
  \/ running = "voice" /\ Quiet /\ Speech!Init /\ Unused4
  \/ running = "desk" /\ Quiet /\ Desk!Init /\ Unused9
  \/ running = "gate" /\ Quiet /\ Gate!Init /\ Unused9
  \/ running = "console" /\ Quiet /\ Console!Init /\ Unused9
  \/ running = "unwind" /\ Quiet /\ Unwind!Init /\ Unused4
  \/ running = "stale" /\ Quiet /\ Stale!Init /\ Unused7
  \/ running = "password" /\ Quiet /\ Password!Init /\ Unused5
  \/ running = "realtime" /\ Quiet /\ Realtime!Init
  \/ running = "startup" /\ Quiet /\ Serving!Init /\ Unused9

In(service, step) == running = service /\ step /\ UNCHANGED <<running, vars>>

ServicesNext ==
  \/ running = "config" /\ Next /\ UNCHANGED <<running, slots>>
  \/ In("access", Access!Next /\ UNCHANGED <<v9, v10, v11>>)
  \/ In("paid", Paid!Next /\ UNCHANGED <<v8, v9, v10, v11>>)
  \/ In("signin", SigningIn!Next /\ UNCHANGED <<v7, v8, v9, v10, v11>>)
  \/ In("groups", Group!Next /\ UNCHANGED <<v6, v7, v8, v9, v10, v11>>)
  \/ In("userdata", Personal!Next /\ UNCHANGED <<v9, v10, v11>>)
  \/ In("voice", Speech!Next /\ UNCHANGED <<v5, v6, v7, v8, v9, v10, v11>>)
  \/ In("desk", Desk!Next /\ UNCHANGED <<v10, v11>>)
  \/ In("gate", Gate!Next /\ UNCHANGED <<v10, v11>>)
  \/ In("console", Console!Next /\ UNCHANGED <<v10, v11>>)
  \/ In("unwind", Unwind!Next /\ UNCHANGED <<v5, v6, v7, v8, v9, v10, v11>>)
  \/ In("stale", Stale!Next /\ UNCHANGED <<v8, v9, v10, v11>>)
  \/ In("password", Password!Next /\ UNCHANGED <<v6, v7, v8, v9, v10, v11>>)
  \/ In("realtime", Realtime!Next)
  \/ In("startup", Serving!Next /\ UNCHANGED <<v10, v11>>)

Services == ServicesInit /\ [][ServicesNext]_<<running, vars, slots>>

-----------------------------------------------------------------------------
(* Properties: each component's module says what they mean. *)

\* A permission that is used was founded at most one cache lifetime ago, and nobody
\* comes to hold one that nobody held (AdminAccess: Confined, PermissionsAgeOut).
PermissionsAgeOut ==
  running = "access" => Access!IInv /\ Access!Confined /\ Access!PermissionsAgeOut

\* Administrators write in good standing, and a row that exists keeps its role but
\* for an assignment or a decision (AdminAccess: WritesInGoodStanding, RowIsKept).
RowsChangeLawfully ==
  [][running = "access" => Access!WritesInGoodStanding /\ Access!RowIsKept]_slots

\* Nothing is paid for that was not counted, and nothing of an unsafe answer is shown
\* that the screens had not passed (PaidRequests: CountedBeforePaid, OnlyScreenedIsShown).
PaidAndScreened ==
  running = "paid" => Paid!TypeOK /\ Paid!CountedBeforePaid /\ Paid!OnlyScreenedIsShown

\* The session a browser holds is of whoever signed in with it (SignIn).
SessionIsItsOwners == running = "signin" => SigningIn!TypeOK /\ SigningIn!SessionIsItsOwners

\* One accepted invitation, one membership (Groups).
ConsentIsUsedOnce == running = "groups" => Group!TypeOK /\ Group!ConsentIsUsedOnce

\* Erasure is kept, however the calls about a person interleave and fail (UserData).
ErasureIsKept == running = "userdata" => Personal!TypeOK /\ Personal!ErasureIsKept

\* What is said was passed by the screens and is in its own words (Voice).
OnlyPassedIsSaid == running = "voice" => Speech!TypeOK /\ Speech!OnlyPassedIsSaid

\* The desk shows its newest read, and a case is decided as submitted (ReviewDesk).
DeskIsCoherent == running = "desk" => Desk!TypeOK /\ Desk!DeskIsCoherent

\* No feature is allowed against a bar that held all along (AccountGate).
NoBarIsPassed == running = "gate" => Gate!TypeOK /\ Gate!NoBarIsPassed

\* An administrative plan runs what was ticked, in order (AdminConsole).
OnlyConfirmedRuns == running = "console" => Console!TypeOK /\ Console!OnlyConfirmedRuns

\* One walk cancels what was done, last first, each step once (Compensation).
UnwindIsReverse == running = "unwind" => Unwind!TypeOK /\ Unwind!UnwindIsReverse

\* What is approved is approved as it was seen (StaleApproval).
ApprovedAsSeen ==
  running = "stale" => Stale!TypeOK /\ Stale!ApprovedAsSeen /\ Stale!NeverAppliedToNewer

\* No password below the floor, no policy without a record (PasswordPolicy).
PolicyIsKept == running = "password" => Password!TypeOK /\ Password!PolicyIsKept

\* Channels are known while open, streams end at their error (RealtimeChannels).
StreamsAreKept == running = "realtime" => Realtime!TypeOK /\ Realtime!StreamsAreKept

\* A production process serves on shared stores and real sign-in, and its billed
\* health probe is called once per interval (Startup).
ServerIsSound == running = "startup" => Serving!TypeOK /\ Serving!ServerIsSound
=============================================================================
