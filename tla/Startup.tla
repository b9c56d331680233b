------------------------------- MODULE Startup -------------------------------
(***************************************************************************)
(* One server process: how it gets from its environment to the stores and  *)
(* providers it works with, and what its health endpoint says afterwards   *)
(* (instrumentation.ts; platform/providers/environment-contract, registry; *)
(* platform/rate-limit/factory; platform/observability; app/api/health).   *)
(*                                                                         *)
(* The start is one synchronous call; a request may come before it, and in *)
(* development the process goes on when it fails.  Afterwards health       *)
(* requests overlap, the probe's provider answers late, and the clock runs.*)
(***************************************************************************)
EXTENDS Integers, Sequences

CONSTANTS
  Environments, \* [production, set, alias]: a value or None for each setting's name
  Checks,       \* health requests at once
  None,
  TTL,          \* of a probe's result: 15 minutes
  MaxTime       \* BOUND: the clock

\* What the constants are to satisfy (Services assumes it).
StartupAssumption ==
  /\ TTL \in Nat \ {0} /\ MaxTime \in Nat
  /\ None \notin {"cognito", "mock", "acrcloud", "supabase", "upstash", "memory"}
  /\ None \notin [healthy : BOOLEAN, at : 0..MaxTime]

VARIABLES
  env,
  phase,        \* starting, serving, aborted
  initialized,  \* the registry's flag
  slots,        \* what each slot holds, None where its default is made on first use
  ready,        \* observability is initialized, the health probe registered
  now,
  probe,        \* the cached probe: its last result and whether a call is out
  check,
  calls         \* of the probe's provider, which bills them (history variable)

vars == <<env, phase, initialized, slots, ready, now, probe, check, calls>>

\* The slots whose choice decides anything, in the order in which they are filled.
Order == <<"AUTH_PROVIDER", "SONG_ID_PROVIDER", "MODERATION_STORE", "STRIKE_STORE",
           "REVIEW_QUEUE_STORE", "APP_STATE_STORE", "TRAJECTORY_STORE", "BUDGET_STORE",
           "PROPOSAL_STORE", "APPROVAL_POLICY_STORE", "GUEST_USAGE_STORE",
           "RATE_LIMIT_STORE", "EFFECT_LEDGER", "SOCIAL_STORE">>

Slots == {Order[i] : i \in DOMAIN Order}
Stores == Slots \ {"AUTH_PROVIDER", "SONG_ID_PROVIDER", "RATE_LIMIT_STORE"}
Limiters == {"supabase", "upstash", "memory"}
Fresh == [at |-> "idle", asked |-> 0, healthy |-> FALSE, measured |-> 0]

TypeOK ==
  /\ env \in Environments
  /\ phase \in {"starting", "serving", "aborted"}
  /\ {initialized, ready} \subseteq BOOLEAN
  /\ slots \in [Slots -> {None, "cognito", "mock", "acrcloud"} \cup Limiters]
  /\ now \in 0..MaxTime
  /\ probe \in [last : [healthy : BOOLEAN, at : 0..MaxTime] \cup {None}, out : BOOLEAN]
  /\ check \in [Checks -> [at : {"idle", "waiting", "answered"}, asked : 0..MaxTime,
                           healthy : BOOLEAN, measured : 0..MaxTime]]
  /\ calls \in Nat

Init ==
  /\ env \in Environments
  /\ phase = "starting" /\ initialized = FALSE /\ ready = FALSE
  /\ slots = [s \in Slots |-> None]
  /\ now = 0 /\ calls = 0
  /\ probe = [last |-> None, out |-> FALSE]
  /\ check = [c \in Checks |-> Fresh]

-----------------------------------------------------------------------------
(* The environment contract *)

\* A declared setting and its accepted shape; the pool's and the client's ids are one
\* setting here, and those that only have a shape (region, proxy hops) are left out.
Shape ==
  [AUTH_PROVIDER |-> {"cognito", "mock"}, COGNITO_IDS |-> {"ids"}, SUPABASE_URL |-> {"url"},
   SUPABASE_SERVICE_ROLE_KEY |-> {"key"}, GUEST_TOKEN_SECRET |-> {"secret"},
   RATE_LIMIT_STORE |-> Limiters, DEPLOYMENT_HOST |-> {"ci", "local", "cloud"}]

HarnessOnly == {"E2E_IN_MEMORY_STORES", "E2E_TEST_DOUBLE_AUTH", "ADMIN_DEV_BYPASS"}

IsSet(e, n) == e.set[n] # None

\* The canonical name's value, else its alias's.
Resolve(e, n) == IF n \in DOMAIN Shape /\ ~IsSet(e, n) THEN e.alias[n] ELSE e.set[n]

HarnessAllowed(e) == e.set["DEPLOYMENT_HOST"] \in {"local", "ci"}

\* A test double unless the setting says otherwise: the default is the mock.
DoublesAuth(e) == Resolve(e, "AUTH_PROVIDER") \in {None, "mock"}

OneSource(e) ==
  \A n \in DOMAIN Shape : e.alias[n] # None => e.alias[n] = e.set[n]

WellShaped(e) ==
  \A n \in DOMAIN Shape : Resolve(e, n) \in Shape[n] \cup {None}

\* checkEnvironmentContract finds nothing.
ContractHolds(e) ==
  /\ HarnessAllowed(e) \/ \A n \in HarnessOnly : ~IsSet(e, n)
  /\ OneSource(e) /\ WellShaped(e)
  /\ DoublesAuth(e) => e.set["E2E_TEST_DOUBLE_AUTH"] = "true" /\ HarnessAllowed(e)
  /\ ~DoublesAuth(e) => Resolve(e, "GUEST_TOKEN_SECRET") # None
  /\ Resolve(e, "AUTH_PROVIDER") = "cognito" => Resolve(e, "COGNITO_IDS") # None
  /\ Resolve(e, "RATE_LIMIT_STORE") = "upstash" => IsSet(e, "UPSTASH_REDIS")
  /\ (\E s \in Stores \cup {"RATE_LIMIT_STORE"} : e.set[s] = "supabase") =>
       Resolve(e, "SUPABASE_URL") # None /\ IsSet(e, "SUPABASE_SERVICE_ROLE_KEY")

-----------------------------------------------------------------------------
(* The slots.  Each is what it is to hold, given what it holds, or Refused. *)

Refused == "refused"

HasSupabase(e) ==
  Resolve(e, "SUPABASE_URL") # None /\ IsSet(e, "SUPABASE_SERVICE_ROLE_KEY")

\* Mutant: a store left in memory is logged, and that is all.
MemoryIsLogged(e) == TRUE

\* requireDurableStoreInProduction does not throw.
MemoryIsAllowed(e) ==
  e.production => e.set["E2E_IN_MEMORY_STORES"] = "true" /\ HarnessAllowed(e)

AuthSlot(e, held) ==
  IF held # None THEN held
  ELSE IF Resolve(e, "AUTH_PROVIDER") = "cognito" /\ Resolve(e, "COGNITO_IDS") # None
       THEN "cognito" ELSE "mock"

SongIdSlot(e) ==
  IF e.set["SONG_ID_PROVIDER"] = "acrcloud" /\ IsSet(e, "ACRCLOUD") THEN "acrcloud" ELSE "mock"

\* A store that was asked for and cannot be had is refused everywhere, but for the
\* sessions' one, which may fall back where memory is allowed at all.
FromSupabase(e, s, held) ==
  IF HasSupabase(e) THEN "supabase"
  ELSE IF s = "APP_STATE_STORE" /\ MemoryIsAllowed(e) THEN held ELSE Refused

\* In memory: the groups' store is made at once, the others on first use.
Remembered(s, held) == IF s = "SOCIAL_STORE" THEN "memory" ELSE held

StoreSlot(e, s, held) ==
  IF e.set[s] = "supabase" THEN FromSupabase(e, s, held)
  ELSE IF MemoryIsAllowed(e) THEN Remembered(s, held) ELSE Refused

CreateLimiter(e, type) ==
  CASE type = "supabase" /\ HasSupabase(e) -> type
    [] type = "upstash" /\ IsSet(e, "UPSTASH_REDIS") -> type
    [] type = "memory" -> type
    [] OTHER -> Refused

LimiterType(e) ==
  LET type == Resolve(e, "RATE_LIMIT_STORE") IN IF type = None THEN "memory" ELSE type

\* A limiter of the selected kind that a request made keeps its counts; of a kind that
\* does not exist, none at all passes for it.
LimiterSlot(e, held) ==
  LET type == LimiterType(e)
  IN  IF type = "memory" /\ ~MemoryIsAllowed(e) THEN Refused
      ELSE IF held = (IF type \in Limiters THEN type ELSE None) THEN held
      ELSE CreateLimiter(e, type)

Filled(e, s, held) ==
  CASE s = "AUTH_PROVIDER" -> AuthSlot(e, held)
    [] s = "SONG_ID_PROVIDER" -> SongIdSlot(e)
    [] s = "RATE_LIMIT_STORE" -> LimiterSlot(e, held)
    [] OTHER -> StoreSlot(e, s, held)

-----------------------------------------------------------------------------
(* The start *)

\* initProviders of a process that is not initialized: slots are filled one after the
\* other up to the first that is refused.
InitProviders(e, held) ==
  LET new == [s \in Slots |-> Filled(e, s, held[s])]
      Reached(i) == /\ e.production => ContractHolds(e)
                    /\ \A j \in 1..i : new[Order[j]] # Refused
  IN  [slots |-> [s \in Slots |-> IF \E i \in DOMAIN Order : Order[i] = s /\ Reached(i)
                                  THEN new[s] ELSE held[s]],
       refused |-> ~Reached(Len(Order))]

\* initAuth, in front of the auth routes: an error fails the request, not the process.
InitAuth ==
  /\ phase # "aborted" /\ ~initialized
  /\ LET r == InitProviders(env, slots)
     IN  slots' = r.slots /\ initialized' = ~r.refused
  /\ UNCHANGED <<env, phase, ready, now, probe, check, calls>>

\* getRateLimiter, by a request: the limiter of the same setting, or an error.
FirstLimited ==
  /\ phase # "aborted" /\ slots["RATE_LIMIT_STORE"] = None
  /\ LET limiter == CreateLimiter(env, LimiterType(env))
     IN  limiter # Refused /\ slots' = [slots EXCEPT !["RATE_LIMIT_STORE"] = limiter]
  /\ UNCHANGED <<env, phase, initialized, ready, now, probe, check, calls>>

\* register: in production an error ends the process.
Register ==
  /\ phase = "starting"
  /\ LET r == IF initialized THEN [slots |-> slots, refused |-> FALSE]
              ELSE InitProviders(env, slots)
     IN  /\ slots' = r.slots
         /\ initialized' = ~r.refused
         /\ ready' = ~r.refused
         /\ phase' = IF r.refused /\ env.production THEN "aborted" ELSE "serving"
  /\ UNCHANGED <<env, now, probe, check, calls>>

-----------------------------------------------------------------------------
(* Health *)

IsFresh == probe.last # None /\ now - probe.last.at < TTL

Answered(c, healthy, measured) ==
  [check[c] EXCEPT !.at = "answered", !.healthy = healthy, !.measured = measured]

\* GET /api/health: without observability nothing is known, and that is not healthy;
\* a result that is fresh answers at once; otherwise the call that is out is waited for,
\* or a new one.
Ask(c) ==
  /\ phase = "serving" /\ check[c].at # "waiting"
  /\ check' = [check EXCEPT ![c] =
       CASE ~ready -> [Fresh EXCEPT !.at = "answered", !.asked = now]
         [] ready /\ IsFresh -> [at |-> "answered", asked |-> now,
                                 healthy |-> probe.last.healthy, measured |-> probe.last.at]
         [] OTHER -> [Fresh EXCEPT !.at = "waiting", !.asked = now]]
  /\ LET begins == ready /\ ~IsFresh /\ ~probe.out
     IN  /\ probe' = [probe EXCEPT !.out = @ \/ begins]
         /\ calls' = IF begins THEN calls + 1 ELSE calls
  /\ UNCHANGED <<env, phase, initialized, slots, ready, now>>

\* The provider answers, or cannot be reached; whoever still waits is told.
Answer ==
  /\ probe.out
  /\ \E healthy \in BOOLEAN :
       /\ probe' = [last |-> [healthy |-> healthy, at |-> now], out |-> FALSE]
       /\ check' = [c \in Checks |-> IF check[c].at = "waiting" THEN Answered(c, healthy, now)
                                     ELSE check[c]]
  /\ UNCHANGED <<env, phase, initialized, slots, ready, now, calls>>

\* runProbe: five seconds are over; the call stays out.
TimeOut(c) ==
  /\ check[c].at = "waiting"
  /\ check' = [check EXCEPT ![c] = Answered(c, FALSE, now)]
  /\ UNCHANGED <<env, phase, initialized, slots, ready, now, probe, calls>>

Tick ==
  /\ phase = "serving" /\ ready /\ now < MaxTime /\ now' = now + 1
  /\ UNCHANGED <<env, phase, initialized, slots, ready, probe, check, calls>>

Next ==
  \/ InitAuth \/ FirstLimited \/ Register \/ Answer \/ Tick
  \/ \E c \in Checks : Ask(c) \/ TimeOut(c)

Spec == Init /\ [][Next]_vars

-----------------------------------------------------------------------------
(* Properties *)

IsHarness(switch) ==
  env.set[switch] = "true" /\ env.set["DEPLOYMENT_HOST"] \in {"ci", "local"}

\* A production process that serves has every store and the limiter where all processes
\* share them and no test double for its sign-in, or is a harness that said so and is
\* known not to be a deployment (ADR-048 D3, ADR-050 D1, ADR-052 D3, ADR-055 D2): no
\* combination of settings, no early request and no fallback leads past that.
ServesDurably ==
  phase = "serving" /\ env.production =>
    /\ initialized /\ ready
    /\ \A s \in Stores \cup {"RATE_LIMIT_STORE"} :
         slots[s] \in {"supabase", "upstash"} \/ IsHarness("E2E_IN_MEMORY_STORES")
    /\ slots["AUTH_PROVIDER"] = "cognito" \/ IsHarness("E2E_TEST_DOUBLE_AUTH")

\* The billed call happens at most once per interval, however many requests there are
\* and however late its answers (CachedHealthProbe).
CallsAreSpaced == calls <= 1 + now \div TTL

\* Healthy is only said of what was measured less than an interval before the request.
HealthIsMeasured ==
  \A c \in Checks : check[c].at = "answered" /\ check[c].healthy =>
    ready /\ check[c].asked - check[c].measured < TTL

ServerIsSound == ServesDurably /\ CallsAreSpaced /\ HealthIsMeasured

\* The slots of a production process are filled under the contract, before and after it
\* serves, and it serves only when all of them are.
SlotsAreDurable ==
  env.production =>
    /\ slots["AUTH_PROVIDER"] \in {None, "cognito"} \/ IsHarness("E2E_TEST_DOUBLE_AUTH")
    /\ initialized =>
         /\ slots["AUTH_PROVIDER"] # None
         /\ \A s \in Stores \cup {"RATE_LIMIT_STORE"} :
              slots[s] \in {"supabase", "upstash"} \/ IsHarness("E2E_IN_MEMORY_STORES")
    /\ phase = "serving" => initialized /\ ready

\* A call begins no earlier than an interval after the answer of the one before.
ProbesAreSpaced ==
  /\ probe.last = None => calls = IF probe.out THEN 1 ELSE 0
  /\ probe.last # None =>
       probe.last.at <= now /\ (calls - 1) * TTL <= IF probe.out THEN now ELSE probe.last.at

\* Nobody asks the future, and before observability nobody waits or is told healthy.
ChecksAreReady ==
  /\ phase = "starting" => ~ready
  /\ \A c \in Checks : check[c].asked <= now /\ (check[c].at = "waiting" => ready)

IInv == TypeOK /\ SlotsAreDurable /\ ProbesAreSpaced /\ ChecksAreReady /\ HealthIsMeasured
=============================================================================
