---------------------------- MODULE AccountGate ----------------------------
(***************************************************************************)
(* The account-status gate every governed route passes                     *)
(* (platform/auth/account-status-guard.ts, actor-guard.ts): may this       *)
(* account use this feature now?  It reads the governed set of features,   *)
(* the blocks placed on the account, the account's row and the list of     *)
(* features its standing takes away, one after the other, while moderators *)
(* change the row, administrators place and lift blocks                    *)
(* (app/api/admin/ai/handlers/restrictions.ts) and change the lists, the   *)
(* clock runs and reads fail.  Lists are read through the 60 s cache of    *)
(* platform/auth/platform-config.ts.                                       *)
(*                                                                         *)
(* One account and one feature, which the built-in lists name.             *)
(***************************************************************************)
EXTENDS Naturals, FiniteSets

CONSTANTS
  Checks,
  Registered,  \* what the registered fallback says of the feature: ListValues
  TTL, MaxTime, MaxChanges   \* bounds: the cache's life, the clock, the changes

ListValues == {"unset", "lists", "omits"}
ListNames == {"known", "restricted", "suspended"}
Statuses == {"none", "active", "restricted", "suspended", "banned"}
Bars == {"unknown", "blocked", "restricted", "suspended", "banned"}

\* What the constants are to satisfy (Services assumes it).
GateAssumption ==
  Registered \in ListValues /\ TTL \in Nat /\ MaxTime \in Nat \ {0} /\ MaxChanges \in Nat

VARIABLES
  now,
  account,  \* the users row: its status and when that ends (0: no end)
  blocked,  \* is there a user_feature_restrictions row
  lists,    \* platform_config: what each list says, and since when
  cache,    \* the process's copy of the lists
  desk,     \* the administrator's block or unblock under way
  check,    \* check -> where it is, what it has read, what it answered
  held,     \* ghost: check -> the bars in force ever since it began
  changes   \* changes made so far

vars == <<now, account, blocked, lists, cache, desk, check, held, changes>>
world == <<now, account, blocked, lists, desk, changes>>

Idle == [pc |-> "idle", status |-> "none", answer |-> "none"]
NoEntry == [value |-> "unset", until |-> 0]
NoOp == [op |-> "none", pc |-> "idle"]

TypeOK ==
  /\ now \in 1..MaxTime
  /\ account \in [status : Statuses, until : 0..MaxTime]
  /\ blocked \in BOOLEAN
  /\ lists \in [ListNames -> [value : ListValues, since : 0..MaxTime]]
  /\ cache \in [ListNames -> [value : ListValues, until : 0..(MaxTime + TTL)]]
  /\ desk \in [op : {"none", "block", "unblock"}, pc : {"idle", "record", "write"}]
  /\ check \in [Checks ->
        [pc : {"idle", "known", "blocks", "actual", "account", "provision", "reread",
               "list", "done"},
         status : Statuses, answer : {"none", "allowed", "denied", "notProvisioned"}]]
  /\ held \in [Checks -> SUBSET Bars]
  /\ changes \in 0..MaxChanges

\* A new account has no row yet; the lists as the migrations seed them.
Init ==
  /\ now = 1
  /\ account \in {[status |-> s, until |-> 0] : s \in {"none", "active", "suspended"}}
  /\ blocked = FALSE
  /\ lists = [k \in ListNames |-> [value |-> IF k = "known" THEN "unset" ELSE "lists", since |-> 0]]
  /\ cache = [k \in ListNames |-> NoEntry]
  /\ desk = NoOp
  /\ check = [c \in Checks |-> Idle]
  /\ held = [c \in Checks |-> {}]
  /\ changes = 0

At(c, pc) == check[c].pc = pc
Goto(c, pc) == check' = [check EXCEPT ![c].pc = pc]
Answer(c, a) == check' = [check EXCEPT ![c].pc = "done", ![c].answer = a]

isExpired(until) == until # 0 /\ until < now

\* What the tables say now of each bar.  An unset list stands for the built-in one.
InForce(b) ==
  CASE b = "unknown" -> lists["known"].value = "omits"
    [] b = "blocked" -> blocked
    [] b = "banned"  -> account.status = "banned"
    [] OTHER -> /\ account.status = b /\ ~isExpired(account.until)
                /\ lists[b].value # "omits"

\* A list is known to every process once a cached copy of the one before is gone.
Settled(b) ==
  LET k == IF b = "unknown" THEN "known" ELSE b
  IN k \in ListNames => lists[k].since = 0 \/ lists[k].since + TTL < now

Watch == held' = [c \in Checks |-> {b \in held[c] : InForce(b)'}]

(***************************************************************************)
(* A check, one read per step                                              *)
(***************************************************************************)
Begin(c) ==
  /\ At(c, "idle")
  /\ Goto(c, "known")
  /\ held' = [held EXCEPT ![c] = {b \in Bars : InForce(b) /\ Settled(b)}]
  /\ UNCHANGED <<world, cache>>

\* getConfig: a fresh copy answers; otherwise the table is read, and a value that is
\* there is kept.  A failed read gives the caller's default: "unset".
getConfig(k) ==
  IF cache[k].until >= now THEN {[value |-> cache[k].value, kept |-> cache[k]]}
  ELSE {[value |-> lists[k].value,
         kept |-> IF lists[k].value = "unset" THEN cache[k]
                  ELSE [value |-> lists[k].value, until |-> now + TTL]],
        [value |-> "unset", kept |-> cache[k]]}

\* The list if there is one, else what the consumer registered, else no set at all,
\* and then every feature passes.
Known(value) == (IF value = "unset" THEN Registered ELSE value) # "omits"

\* When the list could not be read, nobody can say that the feature was unknown.
LoadKnown(c) ==
  /\ At(c, "known")
  /\ \E got \in getConfig("known") :
       /\ IF Known(got.value) THEN Goto(c, "blocks") ELSE Answer(c, "denied")
       /\ cache' = [cache EXCEPT !["known"] = got.kept]
       /\ held' = IF got.value = "unset" THEN [held EXCEPT ![c] = @ \ {"unknown"}] ELSE held
  /\ UNCHANGED world

\* Mutant: a block list that cannot be read counts as no blocks.
BlocksAllow(read) == read # "blocked"

\* The block list was read, and does not name the feature.
BlocksPass(read) == read = "clear"

\* A blocked feature is refused whatever the standing, which is read for the answer.
LoadBlocks(c) ==
  /\ At(c, "blocks")
  /\ \E read \in {IF blocked THEN "blocked" ELSE "clear", "failed"} :
       IF BlocksPass(read) THEN Goto(c, "account")
       ELSE IF read = "failed" THEN Answer(c, "denied") ELSE Goto(c, "actual")
  /\ UNCHANGED <<world, cache, held>>

LoadActual(c) ==
  /\ At(c, "actual")
  /\ Answer(c, "denied")
  /\ UNCHANGED <<world, cache, held>>

\* What the standing read decides at once; restricted and suspended accounts whose
\* time has run out pass, the others go on to their list.
Decide(c, status) ==
  CASE status = "active" -> Answer(c, "allowed")
    [] status = "banned" -> Answer(c, "denied")
    [] OTHER -> IF isExpired(account.until) THEN Answer(c, "allowed")
                ELSE check' = [check EXCEPT ![c].pc = "list", ![c].status = status]

\* An account that cannot be read is taken to be banned.
LoadAccount(c) ==
  /\ At(c, "account")
  /\ \/ account.status = "none" /\ Goto(c, "provision")
     \/ account.status # "none" /\ Decide(c, account.status)
     \/ Answer(c, "denied")
  /\ UNCHANGED <<world, cache, held>>

\* A first use creates the row; a row that is there by now is left alone.
Provision(c) ==
  /\ At(c, "provision")
  /\ \/ /\ Goto(c, "reread")
        /\ account' = IF account.status = "none" THEN [status |-> "active", until |-> 0] ELSE account
     \/ Answer(c, "notProvisioned") /\ UNCHANGED account
  /\ UNCHANGED <<now, blocked, lists, cache, desk, changes>>
  /\ Watch

Reread(c) ==
  /\ At(c, "reread")
  /\ Decide(c, account.status) \/ Answer(c, "notProvisioned")
  /\ UNCHANGED <<world, cache, held>>

\* The built-in lists, used when there is none, name the feature.
LoadList(c) ==
  /\ At(c, "list")
  /\ \E got \in getConfig(check[c].status) :
       /\ Answer(c, IF got.value = "omits" THEN "allowed" ELSE "denied")
       /\ cache' = [cache EXCEPT ![check[c].status] = got.kept]
  /\ UNCHANGED <<world, held>>

\* The request goes on, or is answered; the next one is another check.
Return(c) ==
  /\ At(c, "done")
  /\ check' = [check EXCEPT ![c] = Idle]
  /\ held' = [held EXCEPT ![c] = {}]
  /\ UNCHANGED <<world, cache>>

(***************************************************************************)
(* The administrator's blocks                                              *)
(***************************************************************************)
AskBlock(op) ==
  /\ desk.pc = "idle" /\ changes < MaxChanges
  /\ desk' = [op |-> op, pc |-> "record"]
  /\ changes' = changes + 1
  /\ UNCHANGED <<now, account, blocked, lists, cache, check, held>>

\* Without an audit entry the block is not placed.
RecordBlock ==
  /\ desk.pc = "record"
  /\ desk' \in {[desk EXCEPT !.pc = "write"], NoOp}
  /\ UNCHANGED <<now, account, blocked, lists, cache, check, held, changes>>

handleBlockUserFeature ==
  /\ desk = [op |-> "block", pc |-> "write"]
  /\ blocked' \in {TRUE, blocked} /\ desk' = NoOp
  /\ UNCHANGED <<now, account, lists, cache, check, changes>>
  /\ Watch

handleUnblockUserFeature ==
  /\ desk = [op |-> "unblock", pc |-> "write"]
  /\ blocked' \in {FALSE, blocked} /\ desk' = NoOp
  /\ UNCHANGED <<now, account, lists, cache, check, changes>>
  /\ Watch

(***************************************************************************)
(* The world around                                                        *)
(***************************************************************************)
\* A moderation decision, the Sentinel or a granted appeal writes the row.
SetStatus(s, until) ==
  /\ account.status # "none" /\ changes < MaxChanges
  /\ account' = [status |-> s, until |-> until]
  /\ changes' = changes + 1
  /\ UNCHANGED <<now, blocked, lists, cache, desk, check>>
  /\ Watch

\* A governed config write, on this server (its copy is dropped) or another.
SetList(k, v) ==
  /\ changes < MaxChanges /\ lists[k].value # v
  /\ lists' = [lists EXCEPT ![k] = [value |-> v, since |-> now]]
  /\ cache' \in {cache, [cache EXCEPT ![k] = NoEntry]}
  /\ changes' = changes + 1
  /\ UNCHANGED <<now, account, blocked, desk, check>>
  /\ Watch

Tick ==
  /\ now < MaxTime /\ now' = now + 1
  /\ UNCHANGED <<account, blocked, lists, cache, desk, check, changes>>
  /\ Watch

Next ==
  \/ \E c \in Checks :
       \/ Begin(c) \/ LoadKnown(c) \/ LoadBlocks(c) \/ LoadActual(c) \/ LoadAccount(c)
       \/ Provision(c) \/ Reread(c) \/ LoadList(c) \/ Return(c)
  \/ \E op \in {"block", "unblock"} : AskBlock(op)
  \/ RecordBlock \/ handleBlockUserFeature \/ handleUnblockUserFeature
  \/ \E s \in Statuses \ {"none"}, until \in {0, now} : SetStatus(s, until)
  \/ \E k \in ListNames, v \in {"lists", "omits"} : SetList(k, v)
  \/ Tick

Spec == Init /\ [][Next]_vars

\* A check allows the feature only if no bar was in force all the while: not an
\* unknown feature (when the set could be read), a block on the account, a ban, nor
\* a restriction or suspension that has not run out and whose list names the
\* feature, whatever reads fail, whatever changes in between and however old the
\* copies of the lists are.
NoBarIsPassed == \A c \in Checks : check[c].answer = "allowed" => held[c] = {}

(***************************************************************************)
(* The inductive invariant                                                 *)
(***************************************************************************)
\* A bar held all along is in force, and every process that has a copy of its list has
\* one that says so.
HeldInForce == \A c \in Checks : \A b \in held[c] : InForce(b) /\ Settled(b)

\* A copy is of the list as it is, or as it was until one lifetime ago at most.
CopiesAge ==
  \A k \in ListNames : cache[k].value # "unset" =>
    /\ cache[k].until \in (TTL + 1)..(now + TTL)
    /\ cache[k].value = lists[k].value \/ cache[k].until <= lists[k].since + TTL

SeededListsStay == \A k \in {"restricted", "suspended"} : lists[k].value # "unset"

\* What each read has ruled out.
RuledOut ==
  \A c \in Checks :
    /\ check[c].pc \in {"blocks", "account", "provision", "reread", "list"} => "unknown" \notin held[c]
    /\ check[c].pc \in {"account", "provision", "reread", "list"} => "blocked" \notin held[c]
    /\ At(c, "reread") => account.status # "none"
    /\ At(c, "list") => check[c].status \in {"restricted", "suspended"} /\ held[c] \subseteq {check[c].status}
    /\ check[c].answer # "none" => At(c, "done")

IInv == TypeOK /\ HeldInForce /\ CopiesAge /\ SeededListsStay /\ RuledOut /\ NoBarIsPassed

=============================================================================
