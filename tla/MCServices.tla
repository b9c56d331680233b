----------------------------- MODULE MCServices -----------------------------
(***************************************************************************)
(* A small instance of every one of the Services.  The constants of        *)
(* ConfigApproval are in the .cfg.                                         *)
(***************************************************************************)
EXTENDS Services, TLC

\* Everybody may change the settings of both tiers; the flag takes both values,
\* the other setting one of them.
AllTiers == [a \in Admins |-> {"standard", "safety"}]
Fits == [k \in Keys |-> IF k = Flag THEN Values ELSE Values \ {Off}]

\* No action tells one call from another, nor one administrator of the settings.
Symmetry == Permutations(Calls) \cup Permutations(Admins)

-----------------------------------------------------------------------------
(* Accounts and permissions *)

\* What the first administrator, the second one and the user may ask for.
AccessAsks ==
  ({"a"} \X {[kind |-> "assign", user |-> "b", role |-> "beta"],
             [kind |-> "remove", role |-> "editor", perm |-> "manage"],
             [kind |-> "duplicate", role |-> "beta", new |-> "gamma"],
             [kind |-> "delete", role |-> "beta"],
             [kind |-> "toggle", group |-> "grp", on |-> FALSE]})
  \cup ({"b"} \X {[kind |-> "create", role |-> "gamma", perms |-> {"manage"}],
                  [kind |-> "add", role |-> "free", perm |-> "x"],
                  [kind |-> "use", perm |-> "manage"],
                  [kind |-> "revoke", group |-> "grp", user |-> "b"]})
  \cup ({"c"} \X {[kind |-> "first"]})

RoleNames == {"admin", "editor", "free", "super", "beta", "gamma"}

AccessConstants ==
  [Users |-> {"a", "b", "c"}, Roles |-> RoleNames, Perms |-> {"manage", "p", "x"},
   Groups |-> {"grp"}, Servers |-> {"s1"}, Protected |-> {"super"}, Free |-> "free",
   Manage |-> "manage",
   Inherits |-> [r \in RoleNames |-> IF r = "admin" THEN {"editor"} ELSE {}],
   GroupPerms |-> "grp" :> {"p"}, Holders |-> "grp" :> {"b"},
   RoleOf |-> "a" :> "admin" @@ "b" :> "editor" @@ "c" :> None,
   PermsOf |-> [r \in RoleNames |->
                  CASE r \in {"admin", "beta"} -> {"p"} [] r = "editor" -> {"manage"}
                    [] r = "super" -> {"x"} [] OTHER -> {}],
   Absent |-> {"gamma"}, Asks |-> AccessAsks, TTL |-> 1, Banned |-> {"a", "c"},
   Faults |-> {"read", "audit", "restart"}, MaxTime |-> 2, MaxCalls |-> 2]

SigningInConstants ==
  [Emails |-> {"ann", "new"}, WithTotp |-> {"ann"}, Temporary |-> {"ann"}, Known |-> {"ann"},
   MaxTime |-> 1, MaxCalls |-> 4, MaxAttempts |-> 2]

GateConstants ==
  [Checks |-> {"check"}, Registered |-> "unset", TTL |-> 1, MaxTime |-> 3, MaxChanges |-> 2]

PasswordConstants ==
  [Admins |-> {"a"}, Lengths |-> 0..2, Limits |-> 1..2,
   Default |-> [minLength |-> 2, requireNumber |-> TRUE],
   Stored |-> {None, [minLength |-> 1, requireNumber |-> FALSE]}, MaxCalls |-> 3]

GroupConstants ==
  [GroupIds |-> {"g"}, People |-> {"p1", "p2", "p3"}, MaxInvites |-> 3, MaxRows |-> 2,
   MaxCalls |-> 5]

PersonalConstants == [Modules |-> 2, Devices |-> {"d"}, MaxConsents |-> 2, MaxCalls |-> 3]

-----------------------------------------------------------------------------
(* What models say *)

\* What a model streams, in chunks; <<"x", "y">> is the phrase that is blocked.
Streams == {<< <<"a">>, <<"x">>, <<"y">> >>, << <<"x">>, <<"y", "a">> >>}
ScreenAlarms == {[safe |-> FALSE, severity |-> 3, confidence |-> 90]}
ScreenVerdicts == ScreenAlarms \cup {[safe |-> TRUE, severity |-> 0, confidence |-> 90],
                                    [safe |-> FALSE, severity |-> 0, confidence |-> 90]}

PaidConstants ==
  [Users |-> {"u"}, Guests |-> {"g"}, Kinds |-> {"process", "stream", "name"},
   Stores |-> {"atomic", "redis"}, Cap |-> <<1, 1>>, Span |-> <<1, 2>>,
   Allowances |-> {1, 2}, Threshold |-> 1, Recovery |-> 1, Probes |-> 1, Window |-> 2,
   Overlap |-> 1, Tokens |-> {"a", "x", "y"}, Scripts |-> Streams,
   Answers |-> {<<"a", "x", "y">>, <<"x", "a">>}, Phrase |-> <<"x", "y">>, Verdicts |-> ScreenVerdicts,
   Alarms |-> ScreenAlarms, Matches |-> {{}, {0, 3}}, MaxTime |-> 1]

Translated == {<<"a">>, <<"a", ".", " ", "a", ",", " ", "High", "Low", "a">>}

SpeechConstants ==
  [ByteLimit |-> 4, Said |-> {"hello", "insult"}, Unsafe |-> {"insult"}, Targets |-> {"es"},
   Scripts |-> Translated, MaxRetries |-> 1, MinClip |-> 1, MaxClip |-> 2, Clips |-> {0, 3},
   MaxRequests |-> 2]

\* What the theorem of the voice pipeline supposes of the chunker, for these scripts.
ASSUME ScriptsAreSaid ==
  \A t \in ForSpeech.Scripts :
    Speech!ChunkText(t) \in Speech!Chunks /\ Speech!ChunksSayTheText(t)

-----------------------------------------------------------------------------
(* Screens, trajectories, channels *)

DeskConstants ==
  [Items |-> {"i1"}, Filters |-> {"all", "pending"}, Decisions |-> {"uphold"}, Me |-> "me",
   Colleague |-> "colleague", MaxReads |-> 2, MaxCalls |-> 2]

ConsoleConstants ==
  [Holds |-> {"h1"}, Revocable |-> {"manage"}, MaxPlan |-> 2, MaxPrompts |-> 2,
   MaxConfirms |-> 2, MaxMoves |-> 4, MaxClicks |-> 1, MaxReads |-> 2]

UnwindConstants ==
  [Kinds |-> {"commit", "note", "final"}, Length |-> 2, MaxLate |-> 1, MaxFaults |-> 1]

StaleConstants ==
  [Commutes |-> FALSE, Expects |-> "observed", MaxVersion |-> 3, MaxProposals |-> 2]

RealtimeConstants ==
  [Names |-> {"s1"}, Handlers |-> {"h1"}, MaxLinks |-> 2, MaxWriters |-> 1, MaxSent |-> 2,
   MaxCalls |-> 3]

-----------------------------------------------------------------------------
(* The environments a server starts in *)

\* The settings of a process: of a deployment, of a harness that runs the production
\* build, and of those with one value that is missing, wrong or another one (of a
\* deployment's doubtful settings, two).
StoreSettings ==
  {"MODERATION_STORE", "STRIKE_STORE", "REVIEW_QUEUE_STORE", "APP_STATE_STORE",
   "TRAJECTORY_STORE", "BUDGET_STORE", "PROPOSAL_STORE", "APPROVAL_POLICY_STORE",
   "GUEST_USAGE_STORE", "EFFECT_LEDGER", "SOCIAL_STORE"}
Switches == {"E2E_IN_MEMORY_STORES", "E2E_TEST_DOUBLE_AUTH", "ADMIN_DEV_BYPASS"}
DeclaredSettings ==
  {"AUTH_PROVIDER", "COGNITO_IDS", "SUPABASE_URL", "SUPABASE_SERVICE_ROLE_KEY",
   "GUEST_TOKEN_SECRET", "RATE_LIMIT_STORE", "DEPLOYMENT_HOST"}
SettingNames ==
  StoreSettings \cup Switches \cup DeclaredSettings
    \cup {"SONG_ID_PROVIDER", "UPSTASH_REDIS", "ACRCLOUD"}

Deployed ==
  [n \in SettingNames |->
     CASE n \in StoreSettings \cup {"RATE_LIMIT_STORE"} -> "supabase"
       [] n = "AUTH_PROVIDER" -> "cognito" [] n = "COGNITO_IDS" -> "ids"
       [] n = "SUPABASE_URL" -> "url" [] n = "SUPABASE_SERVICE_ROLE_KEY" -> "key"
       [] n = "GUEST_TOKEN_SECRET" -> "secret" [] n = "DEPLOYMENT_HOST" -> "cloud"
       [] OTHER -> None]

InHarness ==
  [n \in SettingNames |->
     CASE n = "DEPLOYMENT_HOST" -> "ci" [] n \in Switches \ {"ADMIN_DEV_BYPASS"} -> "true"
       [] OTHER -> None]

OtherValues(n) ==
  {None, "typo"} \cup
  CASE n = "AUTH_PROVIDER" -> {"mock"} [] n = "RATE_LIMIT_STORE" -> {"upstash", "memory"}
    [] n = "DEPLOYMENT_HOST" -> {"local"} [] n \in Switches -> {"true"}
    [] n = "SONG_ID_PROVIDER" -> {"acrcloud"} [] OTHER -> {}

Odd(sets, names) ==
  sets \cup UNION {{[s EXCEPT ![n] = v] : v \in OtherValues(n)} : s \in sets, n \in names}

Doubtful == {"DEPLOYMENT_HOST", "STRIKE_STORE", "AUTH_PROVIDER"} \cup Switches
NoAlias == [n \in DeclaredSettings |-> None]
Aliased == [NoAlias EXCEPT !["AUTH_PROVIDER"] = "cognito"]

EnvironmentsAtFirst ==
  [production : {TRUE}, alias : {NoAlias},
   set : Odd({Deployed, InHarness}, SettingNames) \cup Odd(Odd({Deployed}, Doubtful), Doubtful)]
  \cup [production : {FALSE}, alias : {NoAlias},
         set : Odd({Deployed}, {"SUPABASE_URL", "APP_STATE_STORE", "RATE_LIMIT_STORE"})]
  \cup [production : BOOLEAN, alias : {Aliased}, set : Odd({Deployed}, {"AUTH_PROVIDER"})]

ServingConstants == [Environments |-> EnvironmentsAtFirst, TTL |-> 2, MaxTime |-> 3]
=============================================================================
