# Verification of the platform foundation

TLA+ modules for the parts of the platform that hold state between requests,
TLC configurations that check them on small instances, and TLAPS proofs for
every value of their constants. Paths below are relative to the repository's
root; module names are files of this directory.

    tlc -workers 2 -config HeldGated.cfg MCHeldActions      # check one run
    tlapm HeldActionsProofs.tla                             # check one proof module

## 1. The system

The platform is a TypeScript library behind a Next.js application. It runs in
any number of server processes that share nothing but Supabase (Postgres), and
optionally Redis. There is no transaction across two accesses to a store. Almost
every interesting behaviour has this shape: *read a row, decide, write another
row*, with other requests, background tasks and crashes between the steps.

| Component | State it keeps | Operations | Hard behaviour |
|---|---|---|---|
| **Held actions** `platform/agents/workflow-loop.ts`, `platform/action-pipeline`, `gating.ts`, proposal and trajectory stores, `app/api/*/approvals` | trajectory row (status, scope, append-only steps), proposal rows | run or advance a workflow, hold a risky step, approve, reject, revise, resume | concurrent resumes, stale reads between gate and run, crashes between claim, run and record, unconditional status writes |
| **Activity sessions** `platform/app-framework`, state stores, the pipeline's commit path | versioned state row, metadata column, trajectory | create, load and repair, dispatch, save the turn | optimistic concurrency, retries under one operation id, late commits, repair of an interrupted record |
| **Compensation, reconciliation** `action-pipeline/index.ts` | trajectory, proposals, state version | undo a trajectory, approve a change of a state that moved on | walks over a stale read, a commit against a version read late |
| **Account consequences** `platform/moderation/{sentinel,strikes,review-service,review-store}.ts`, `auth/audit.ts` | account status, strike rows, audit records, review queue | strike, escalate a status, appeal, claim, resolve, restore, reap | fire-and-forget runs, stale statuses, audit and account written apart, reaper against moderators |
| **Account gate** `auth/account-status-guard.ts` | cached lists of features | may this account use this feature | five reads, any of which may be stale or fail |
| **Review dashboard** `components/ReviewDashboard`, `app/api/admin/review` | the page: filter, reads, draft; the queue's rows | read, claim, release, decide | overlapping reads and calls, lost answers, colleagues |
| **Agent runtime** `agents/runtime.ts`, `external-effect.ts`, effect ledger, budget tracker | trajectory status, budget usage, effect entries | run, resume, charge a budget, begin and resolve an effect | check-then-consume, ambiguous outcomes of external calls |
| **Dual control of configuration** `admin/config-approval.ts`, `config-handlers.ts`, `auth/platform-config.ts` | change requests, values, history, a cache per process | update, request, approve, reject, expire, apply | an expiry or another decider racing a review, a crash between approve and apply |
| **Admin console** `app/admin`, `components/admin`, `app/api/admin/ai` | plan, selection, panel, results | prompt, plan, confirm, execute, decide a held action | answers that arrive for a page that has moved on |
| **Permissions and roles** `auth/permissions*.ts`, `role-governance.ts`, `entitlements.ts`, admin routes | roles, grants, groups, a cache per process | resolve, invalidate, every administration of roles | a resolution in flight across a change, rules checked on earlier reads |
| **Paid requests** `app/api/{process,stream}`, `rate-limit`, `guest-allowance.ts`, `guardian.ts`, `ai/{orchestrator,screened-stream}.ts` | counters and windows, circuit breaker, stream buffer | limit, count, screen, complete, stream | counters at their limit, stores that fail, late answers, a text that is harmful only across two windows |
| **Voice** `platform/voice`, `platform/translation`, `app/api/process` | translation cache | transcribe, screen, translate, cut, speak, identify | retries, a cache that requests share |
| **Sign-in** `components/auth`, `app/api/auth`, `cognito-provider.ts`, `sso.ts` | per tab: view, remembered address; per browser: session, SSO attempt; the pool | sign in and up, challenges, reset, SSO, sign out | tabs that share storage, late replies, lost requests |
| **Password policy** `auth/password-policy.ts` and its routes | one policy row, its log | read, change, check a password | read-change-write of a whole row, defaults for an unreadable one |
| **Personal data** `auth/{profile,coppa*,gdpr*,consent}.ts`, `gdpr/*` | user row, consents, devices, module data, audit | update, verify age, consent, export, soft and hard delete | an update landing after a deletion, a purge that dies or times out |
| **Social** `social/*` | groups, memberships, invites | create, archive, invite, accept, decline, leave | an invite accepted twice, answers lost |
| **Realtime** `realtime/supabase-realtime.ts` | two maps by name, channel objects | open, remove, disconnect, stream | calls made while a removal waits |
| **Server start and health** `instrumentation.ts`, `providers/{environment-contract,registry}.ts`, `api/health` | registry slots, cached probe | check the environment, fill the slots, answer health | a request before the start, a start that fails half-way, overlapping probes |
| RAG, embeddings, AI adapters, prompts, review assist | none that outlives a call | retrieve, complete | external services; their answers are inputs of the others |
| Effects, content, adaptive, features, analytics, metrics, kernel types, route policy, games, migrations | static tables, policies, logs | | nothing decides on them |

How they interact. A route authenticates the caller and hands an *actor* to the
workflow loop; the loop and `dispatch` both go through
`executeActionPipeline`, which gates, claims, performs or commits, and appends
to a trajectory. The Guardian screens a message in the request and fires the
Sentinel (`processBlock`) in the background; the Sentinel writes strikes and
statuses through `audited`, and submits ban reviews to the queue that moderators
and the reaper work on. An overturned item writes back to the account and to the
strikes. Budgets, effects and permissions answer yes or no to the others.

What makes each correct:

* *Held actions*: a gated tool runs at most once, only with the approval of an
  independent party, on exactly what was approved; the record never runs ahead
  of the world; an approval gets used.
* *Sessions*: an operation takes effect once, overwrites nothing, and ends up in
  the trajectory; players move in turn.
* *Account consequences*: concurrent blocks cannot avoid the ladder together; no
  status without a record; no ban without a review; an overturn leaves nothing
  behind; no escalation is left lying.
* *Agent runtime*: an effect is called for at most once and never said to have
  happened when it did not; budgets overshoot by at most what is in flight and
  count what is spent; a run that reports completed leaves nothing in doubt.
* *Configuration*: what a request puts in force somebody else approved; a pending
  or rejected one is not in force; an approved one is not left lying.
* *Permissions*: no interleaving of administrators creates a permission nobody
  had; a change is in force on every server within the life of a cache entry.
* *Paid requests, voice*: nothing is paid for uncounted, nothing shown or said
  unscreened.
* *Gates and desks*: no bar is passed that stood all the while; a page shows its
  newest read, and what is carried out is what was confirmed.
* *Sign-in, personal data, social*: a session shows its own account; an erasure is
  complete and stays; nobody is in a group without consent of his own.
* *Start*: a production process serves from shared stores only, or not at all.

`PROJECT.json` lists every hazard with its line and the properties that cover it.

## 2. Modules

| Module | What it is |
|---|---|
| `HeldActions` | one workflow and its held actions, every store access an action |
| `ApprovalLifecycle` | what that machinery promises: the abstract life of proposals |
| `HeldActionsProofs` | theorems about `HeldActions` |
| `ActivitySession` | one activity session, every store access an action |
| `SessionJournal` | what a session promises: a journal of operations, each once |
| `ActivitySessionProofs` | theorems about `ActivitySession` |
| `AccountConsequences` | one account, its Sentinel runs, moderators and the reaper |
| `AccountConsequencesProofs` | theorems about `AccountConsequences` |
| `ExternalEffects` | callers of the outside world through the effect ledger |
| `AgentRuns` | the runs of one agent in one scope, their budget and their effects |
| `AgentRunsProofs` | theorems about `AgentRuns` and the `ExternalEffects` it extends |
| `ConfigApproval` | a setting changed directly or by a request, a review and its application |
| `AdminAccess` | roles, grants and groups, their resolution, cache, guard and governance |
| `AdminProofs` | theorems about `ConfigApproval`, `AdminAccess` |
| `ContentScreening` | how a verdict is made of blocklist, classifier and thresholds |
| `PaidRequests` | the requests that cost money, from the limits to the text shown |
| `SignIn` | browser tabs, auth routes and the user pool |
| `PasswordPolicy` | the global policy, its changes and the sign-ups |
| `UserData` | one person's profile, consents, devices, export and erasure |
| `Groups` | groups, memberships and invites |
| `Chunker`, `Voice` | how a text is cut; the voice pipeline |
| `ReviewDesk` | the review dashboard and its routes |
| `AccountGate` | may this account use this feature now |
| `AdminConsole` | prompt, plan, confirmation, execution, held actions |
| `Compensation`, `StaleApproval` | undoing a trajectory; approving what has moved on |
| `RealtimeChannels` | channels by name and the streams over them |
| `Startup` | environment contract, registry, health |
| `Services` | the services from `ConfigApproval` to `Startup` as one specification, for any constants |
| `ServicesProofs` | theorems about `StaleApproval`, `PasswordPolicy`, `AccountGate`, `Compensation`, `ReviewDesk`, `Groups`, `UserData` |
| `PeopleProofs` | theorems about `SignIn`, `PaidRequests` |
| `ClientsProofs` | theorems about `AdminConsole`, `RealtimeChannels`, `Startup`, `Voice` |
| `MC...` | identities, orders and symmetry of the small instances |
| `MCServices` | one small instance of each service of `Services` |

### Held actions

`trajectory` state is `status`, `scope`, `steps`; `proposals` are the rows;
`call[c]` is a request inside the loop with what it has read (`prop`, `payload`,
`version`), `dec[d]` a decision inside its handler. The control point `pc` names
the store access that comes next; the code between two awaits is one action.
`Start`, `Continue` are `runGoal` and `advanceGoal`; `ResumeRead`,
`ResumeCheck`, `ResumeOpen` are the three reads of `resumeApprovedAction`;
`FindApproval`, `Invoke`, `Consume`, `Perform`, `AppendStep` are a step of
`runSteps` through `executeActionPipeline`; `CheckSteps`, `CheckUsed`,
`ProposeOnce`, `CreateProposal`, `RecordProposal`, `PauseProposal` are
`proposeOnce` and `proposeAction`; `Review` to `FailRejected` are the owner's and
the administrator's decisions. Identity rules (`OwnerMayDecide`,
`AdminMayDecide`) are those of `gating.ts` and of the administrator's route.
Payloads and tool ids are only compared for equality, so they are constants; a
call's budget covers a step or it does not (`OverBudget`).

`ApprovalLifecycle` has no trajectory, call or decider: an operation has at most
one live proposal, which is decided once, claimed once, run once.

### Activity sessions

`store` is the state row with its version and the operation that produced it,
`meta` the metadata column, `steps` the trajectory. A client holds a session
object, a snapshot (`version`, `state`, `turn`), and everything it dispatches is
computed from it. `late` holds conditional writes whose caller gave up. The
state is the sequence of operations applied to it: what `applyAction` computes
does not matter, only on what it was computed. `history` is auxiliary.

`SessionJournal` promises that the state is a journal in which each operation
occurs once, and that an operation is added only when all before it are in the
audit record.

### Account consequences

One account; `run[d]` is the `processBlock` of decision `d`, `req[q]` a request
to the appeals or review routes, `sweep` the reaper. `log` holds the
`sentinel_status_change` records, `setBy` (history) whose consequence the
present status is. A run records its strike, counts, reads the status, records
the change, writes it, and concludes, in that order and with no condition on
what changed in between. The runtime concludes a run that it stopped, so a ban
review may be filed for a ban that was never applied (`StopRun`, `Conclude`).
The queue is the Supabase one: `update` sends no undefined field, so `claimed_by`
outlives an unclaim; the claim timeout clears it. No code sets `restricted`;
it is in the severity order as in the source. `Faults` names the accesses that
may fail: `crash` ends a run, a request or a sweep, the others fail and the code
goes on in the way it does.

### Agent runs

`ExternalEffects` is `performExternalEffect` over the Supabase ledger, an access
at a time: look, begin (a read, then an insert or an update), ask on a retry,
call, resolve. `sent` and `landed` are what happened outside; a call whose answer
never came has landed, lands later (`flying`) or is lost. `AgentRuns` extends it:
its callers are the runs, and a step of the workflow in `Effectful` performs the
effect `<<trajectory, step>>`, as the guard of ADR-029 D10 expects (it looks for
entries whose operation is the trajectory). `run[r]` is a request inside
`executeAgent` or `resumeAgent` with what it has read: the step count and the
step ceiling. Whatever an effect came to, the workflow may go on.

Abstractions: money is counted in units and `Costs` are the costs of a step; a
governed ceiling is any of its values whenever it is read, and an unset one is 0;
the day of a check or of a charge is the one on which it reaches the store;
`casUpdate` takes effect at its last, successful attempt. A refused call is one
that did not happen. Not modelled: a ledger or budget write that lands after its
caller gave it up. `generateGoverned` (image generation) and the tools' declared
effects are further callers of the same protocol; a tool invoked without an
operation id mints one, so the completion guard of a run never finds its entries.

### Configuration

`ConfigApproval`: `value`, `history` and `log` are the tables, `rows` the change
requests, `cache[s]` server s's copy of the two-person switch, `req[q]` a request
(update, preview, proposal, approval, rejection) at the access `at`. `Faults` says
which accesses may fail; `forgotten` (history) are the rows whose approver died
after the approval, or failed at reopening it. The review is the conditional update
of the code, so two deciders cannot both have a row; the expiry is not conditional.

### Permissions and roles

`AdminAccess`: `user`, `roles`, `group` are the tables; `cache[s][u]` what a process
keeps for `TTL`; a request walks through `role`, `direct`, `inherited`, `grants`,
`groups` (the reads of a resolution), then the reads of its rules, the audit entry
and the write. `gone` (history) remembers when a fact of the tables ceased to hold;
`PermissionsAgeOut` compares caches and requests with it, so it covers invalidation,
failed reads and slow resolutions at once. `Authority` is what somebody may do at the
start or may come to do where no rule compares a permission: what a new account's role
gives, what an entitlement grants, what an assignable role inherits.

### Paid requests, screening, voice

`PaidRequests` follows a request through the per-actor rule and the daily quota
(one atomic step, or the four accesses of the sorted set), the guest allowance, the
screen, and the model call or the stream. Text is a sequence of words; `Phrase` is
harmful only as a whole, so that it can lie across two windows. A verdict is
`ContentScreening`'s, from what blocklist and classifier say and the thresholds of
the rating level. The breaker's calls may be answered late. `Voice` has the retries,
the shared translation cache and the chunks, which `Chunker` cuts from UTF-16 units.

### Sign-in and password policy

`SignIn`: a submit is posted, served and its reply handled, in three steps, between
which the user changes the view and other tabs act; requests and replies are lost.
`pool` is Cognito, modelled from how the provider uses it. A verifier belongs to the
attempt that made it, so an exchange shows which attempt it mixed up. `PasswordPolicy`
reads, merges, records and saves in steps of their own.

### Personal data and groups

`UserData`: one person; `call[c]` is a service call between its audit record and its
write, `data[m]` what module m still holds; a purge handler ends, fails or runs past
its time and still lands. `Groups`: one call is a chain of accesses over the two
partial unique indexes; the answer of an executed access may be lost.

### Desks and gates

`ReviewDesk` and `AdminConsole` model a page together with the routes behind it: a
read or a call is sent, served and received in steps of their own, with the values
its closure captured when it was made. An action of a plan knows its place there
(`at`), so that a plan, a choice and what is left of it are sets, and "the first of
them" is `Leads`. `AccountGate` has the five reads of the gate;
`held[c]` (history) are the bars that have stood since check c began.

### Compensation and stale approvals

`Compensation`: a walk cancels the commitments it has read, last first, and appends
a step for each. `StaleApproval`: a proposal carries the version it observed;
`Expects` says whether the caller commits against that version or the current one.

### Realtime

`RealtimeChannels`: `clients` and `channels` are the provider's two maps, `links` the
channel objects that callers keep; a handler subscribed twice is called twice, so a
channel counts its handlers. A removal and a disconnect wait between closing
and forgetting; `orphaned` (history) are the channels whose entry another call's
removal took away.

### Start and health

`Startup`: an environment is chosen once; `InitProviders` fills the slots in the
code's order up to the first refusal. A request may come first and leave a limiter.
The probe of the provider is one call shared by the requests that wait for it.

### The services as one instance

These services share no state with each other. `Services` therefore does not
multiply them: `running` names one, `v1`, `v2`, ... are its variables, and a
behaviour is one of that service alone. The states are the sum of theirs, and a
property is `running = "..." => Service!Property`. The constants of a service are the
fields of a record (`ForGroup`, ...), and `ServicesAssumption` collects what the
services assume of them; `MCServices` gives their values. Every action of every service
occurs but `ConfigApproval`'s fault `lost`, which section 4 comes back to.

## 3. Runs

| Run | Instance | Shows |
|---|---|---|
| `HeldGated` | two gated steps, two concurrent calls, one decider, one crash | `AtMostOneRun`, `RecordedMeansRan`, `StepsInOrder`, `ImplementsLifecycle` |
| `HeldMixed` | a gated and an ungated step, two versions, two inputs, an administrator, an intruder, revisions | `RunsWhatWasApproved`, `OnlyTheOwnerProposes` |
| `HeldLive` | one call, one decider, one crash, fairness | `ApprovalIsUsed` |
| `SessionReload` | two players, two operations, two faults, fairness | `RecordedWasCommitted`, `OneMovePerTurn`, `ImplementsJournal`, `CommittedIsRecorded` |
| `SessionMixed` | three clients, a commutative operation, rebasing, an outsider, one fault | `ExclusiveAppends` |
| `AccountBlocks` | two concurrent blocks, one request slot, two requests, all faults but a failing expiry | `EveryStrikeIsWeighed`, `StatusIsOnRecord`, `BannedIsReviewed`, `OverturnIsFinal` |
| `AccountEscalations` | one escalation, three moderators, two request slots, three requests, the reaper, fairness | `EscalationEnds` |
| `AgentRuns` | two concurrent runs or resumes, two trajectories with an effect each, a budget of one step and a half, two ceilings, two days, one fault | `FiresAtMostOnce`, `ConfirmedHappened`, `OvershootIsBounded`, `SpendIsCounted`, `CompletedRunsAreResolved` |
| `Services` | the services of the next table, one at a time | a property of each |
| `ResumedTwice` | two resumes, no fault | **violated**: finding 1 |
| `FailClosed` | a group's name whose classification fails | **violated**: finding 2 |
| `GateFollowsConsent` | a child without consent in front of the gate | **violated**: finding 3 |

| Service | Instance in `Services` | Property: what it says |
|---|---|---|
| `ConfigApproval` | 2 requests of 2 administrators, one server, the switch and one more setting, 2 rows, 3 calls, crashes, failing reads, records, writes and reopenings | `IndependentlyApproved`, `OutOfForce`, `ApprovedIsApplied` |
| `AdminAccess` | 3 users, 6 roles, one group, 2 requests, entries that live 1 tick of 2, failing reads and records, restarts | `PermissionsAgeOut`: a change is in force everywhere after one life of a cache entry, and nobody comes to hold what nobody held. `RowsChangeLawfully`: no write for somebody banned before the request, and a user's row keeps its role but for an assignment |
| `PaidRequests` | a user and a guest, caps of 1, a breaker that opens at 1, windows of two words, two rates of store | `PaidAndScreened`: paid calls are counted, what is shown was screened |
| `SignIn` | 2 tabs, 2 SSO attempts, 4 submits | `SessionIsItsOwners` |
| `Groups` | 3 people, one group, 3 invites, 2 rows each, 5 calls | `ConsentIsUsedOnce` |
| `UserData` | 2 calls at a time of 3, 2 modules | `ErasureIsKept` |
| `Voice` | 2 requests, 2 utterances, texts over the limit of 4 bytes | `OnlyPassedIsSaid` |
| `ReviewDesk` | one case, 2 reads, 2 actions | `DeskIsCoherent` |
| `AccountGate` | one check, 3 ticks, 2 changes | `NoBarIsPassed` |
| `AdminConsole` | plans of up to 2 actions, 2 prompts, 2 confirmations, 4 moves | `OnlyConfirmedRuns` |
| `Compensation` | 2 walks over 3 steps, 1 late commit, 1 fault | `UnwindIsReverse` |
| `StaleApproval` | 2 deciders, 2 runners, 3 versions, commits against the version observed | `ApprovedAsSeen` |
| `PasswordPolicy` | 3 requests, lengths 0 to 2 | `PolicyIsKept` |
| `RealtimeChannels` | one name, 2 channel objects, one writer, 2 messages, 3 calls | `StreamsAreKept` |
| `Startup` | a deployment's and a harness's settings, each with any one wrong, the doubtful ones in pairs; 2 health requests, results that live 2 of 3 ticks | `ServerIsSound` |

Deadlock is not checked: a workflow ends, operation ids and requests are bounded.

Bounds, and why they are enough. Two calls are enough for each race of the loop,
since every conflict is over one row between two writers; two proposal ids let an
operation be proposed, superseded or rejected and proposed again, or two steps be
held. Two steps distinguish "the next" from "an earlier" and "a later" one. Two
operations and two faults let a late write land on top of another client's, and a
crash hit its repair too. Two blocks reach the ban (`BanAt = 2`) with another run
in every position. Two requests are a claim and a resolution, three an appeal as well or an
unclaim or a second claim by a stale request. Two runs race on a trajectory, on an
effect and on the budget; one fault is a crash, a lost answer or a failing access
anywhere among them, two resumes let a paused trajectory be resumed twice at once,
and a ceiling above and one below the agent's own cap tell tightening from
replacing. The cost of two against a cap of three makes the second step overshoot.
`MaxCalls`, `MaxCrashes`,
`MaxFaults`, `MaxResumes`, `MaxDay`, `ProposalIds` and `Ops` are the only bounds on counters; they are
constants, and the theorems hold for every value of them. In `Services` two calls at
once are every race between a read and another's write; where a third is needed (a
change between the two accesses of a rule, an invite after a lost answer) calls follow
each other up to `MaxCalls`. Windows, caps, thresholds and cache lives are 1 or 2, so
that the limit and the first moment past it are both reached; a text is longer than one
window and one chunk. Where several calls with
the richest inputs would be too large (HeldMixed has one call at a time), the
same property is proved without the bound.

Fairness.

* Held actions: a handler that has begun runs on (weak fairness per call and per
  decision; a crash is allowed but bounded), and the holder of an approval
  resumes it again and again with a ceiling that covers the step, as the retry
  affordance of the held response invites. Nothing forces anybody to start,
  approve or revise.
* Sessions: a client's code runs on, and a client comes back to load the session.
* Reaper: it is a route that an external scheduler calls (ADR-041 leaves wiring
  the schedule to the deployment): sweeps begin again and again, may die at any
  point or find the audit log out, but not every time (strong fairness). Nothing
  is assumed of moderators, Sentinel runs or which remedial is configured.

## 4. Findings

Three runs show a disagreement between the code and what is said of it.

1. `ResumedTwice`: `paused` is read and `running` then written unconditionally, so
   two resumes execute and record the same steps (`runtime.ts:326`).
2. `FailClosed`: the verdict that stands for a failed classification is unsafe,
   medium, confidence 0.5; under the seeded thresholds of the level at which the
   social adapter screens, that is allowed (`classifier.ts:62`).
3. `GateFollowsConsent`: the gate reads a flag that is to follow age and consent;
   the services that record them never set it (`coppa.ts:87`).

The next ones are properties or configurations that the modules can express and no
run keeps. Each can be reproduced in a few seconds as said.

* *One version per operation* (`action-pipeline/index.ts:334`): a commit without an
  answer lands late; its caller meets a conflict, takes the state it returns and
  retries under the same operation id, which commits a second version of it.
  `SessionReload` with `Rebases = TRUE`: `ImplementsJournal` fails.
* *A status only rises* (`sentinel.ts:521` against 588): a Sentinel run writes the
  status it computed from an earlier read, and can lower what a later run has set.
  `AccountBlocks` with three blocks, no fault, `BanAt = 3`, and the action property
  that a step of a run never lowers `status`.
* *Failed means it did not happen* (`external-effect.ts:134` against 68): the update
  that confirms an effect shares a try with the call; refused, the entry of an effect
  that happened is resolved as failed. `AgentRuns`, one run, one fault, and the
  invariant that an effect whose entry says failed has not landed.
* *A lost answer* (`config-approval.ts`): the value's write lands, its answer does not,
  and the change that is in force is reopened as pending. `Services` with `"lost"`
  among the faults: `OutOfForce` fails.
* `ResetSaysSuccess` (`SignIn`): "Your password has been reset successfully" is shown
  for the address that a late reply of another reset left behind
  (`ForgotPasswordForm.tsx:48,57`, `AuthPage.tsx:195`).
* `OnlyTheFieldsSent` (`PasswordPolicy`): two administrators at once, or an unreadable
  row read as the default, change fields that were not sent
  (`api/admin/password-policy/route.ts:5`).
* `NeverAppliedToNewer` with `Expects = "current"` (`StaleApproval`): the version an
  approval observed is not compared when the action runs, so a caller that commits
  against the version it reads applies it to a newer state (`index.ts:804`).
* `NeverTwice` (`Compensation`): two walks, or one after a walk that died, cancel a
  step twice (`index.ts:637`).
* `ShowsItsFilter` (`ReviewDesk`, three reads): the reload after an action uses the
  filter of the click, and being newest it is shown under the filter chosen since
  (`ReviewDashboard.tsx:245`, 271).
* `NeverMidCharacter` (`Chunker`): a hard split cuts a surrogate pair.

Further divergences met while modelling; the modules behave as the code does.

* *Held actions, sessions, accounts.* A failed trajectory is paused again by the late
  write of a call that was holding its step (`workflow-loop.ts:386`). A resume
  compares the approved step with one read and runs the step of a later one (789).
  The pipeline gives `reduceCommit` a reducer that ignores the latest state, so of two
  commutative actions dispatched on one state the first is lost
  (`action-pipeline/index.ts:330`). Two repairs, or a repair and a dispatch, record an
  operation twice (906). `createSession` dying between its two writes leaves an id
  that can neither be loaded nor created (`session.ts:163`). Which decision set the
  status is taken from the newest audit record, so the ban of an overturned decision
  may stay in force (`review-service.ts:632`); `restoreAccountStatus` writes over a ban
  set since its reads (678); the reaper resolves again what a moderator has just
  resolved (812); two requests at once file two appeals of one decision (213). A strike
  whose expiry fails still counts after the overturn (`AccountBlocks` with `"expire"`
  among the faults: `OverturnIsFinal` fails). `resumeAgent` counts against the agent's
  own step ceiling, never the governed one (`runtime.ts:421`); a run that dies leaves
  its trajectory `running`, which `resumeAgent` refuses although its comment says that
  resume runs after a crash (424).
* *Configuration, roles.* Several requests for one key may be pending. A boolean
  setting accepts the strings `"true"` and `"false"`, and the string `"false"` of the
  two-person switch leaves it on. `delete_role` removes the role's permissions before
  the foreign key refuses to remove the role. No grant, revocation, assignment of
  permissions or deletion invalidates the permissions cache; a resolution in flight
  refills it after an invalidation (`permissions-cache.ts:54`); a read that fails is a
  partial answer that is kept for 60 seconds. "No one grants — or takes away — a
  permission they do not hold themselves" (`role-governance.ts:11`) is compared with a
  role's own permissions (`role-lookup.ts:72`), while a resolution adds those of the
  roles it inherits from: whoever holds a role's own permissions may assign all of it.
* *Paid requests.* Both calls that stand in for a stream pass the breaker without
  asking it, and their failures are not counted (`orchestrator.ts:323`, 429); nor are
  network errors and timeouts. A stream that ends without its last event is shown as
  complete. A late success while the breaker is open resets its count. The entry of a
  refused request stays in the sorted set when its removal fails.
* *Sign-in.* The MFA branch of `handleLogin` does not remember the address. Two tabs
  that begin single sign-on fail both. A failed sign-out request leaves the user signed
  in; the refresh token is never used.
* *Personal data, social.* `softDeleteUser` and `hardPurgeUser` write columns that
  `deletion_manifest` does not have. Recording age or consent does not skip deleted
  rows. The user's row goes even when a module failed; a module that throws skips the
  manifest; a purge that timed out is answered as failed while its handlers go on.
  `acceptInvite` resolves the invite before it adds the member; `createGroup` ignores a
  failed `addMember`. No route calls the consent gate or the two deletions.
* *Desks, gates, console.* The gate's comment promises to block all content features
  when its configuration cannot be read; the fallback is a list of six
  (`account-status-guard.ts:139`). A row busy in the dashboard frees another's. Only
  the first decision of a confirmed batch is executed; a plan that arrives during an
  execution is wiped; confirming again after a lost answer runs the plan again.
* *Voice, realtime.* The translation cache's key has no source language; a translated
  text is not screened. A channel opened while a removal of its name waits loses its
  entry, and no disconnect closes it; `close` tells readers nothing.
* *Start.* Outside production a start that fails leaves the earlier slots filled, and
  the process serves from memory with a health endpoint that stays at 503. An unknown
  `RATE_LIMIT_STORE` installs no limiter, and the first limited request throws (in
  production the contract refuses it first). An unhealthy song-identification answer
  is kept for its whole 15 minutes.

## 5. Proofs

All proofs are for every value of the constants that satisfies the modules' named
assumptions: any number of steps, identities, calls, clients, operations, crashes.
The `IInv` of each module below was model-checked before it was proved, and can be
again: `INVARIANT IInv` in any of that module's configurations.

**HeldActionsProofs.** `Inductive` proves `IInv`. `AtMostOneRun` is not inductive:
it depends on who may claim. `IInv` adds that an operation has one proposal that is
open, approved or used (`OneLiveProposal`; the store's unique index, and why
`executed` must be part of it); that a call between the claim and the record owns
the claim alone (`ClaimsExclusive`), that the claim matches what the call runs
(`ClaimsMatch`) and has not yet run, or has run and is not yet recorded
(`ClaimsFresh`); and that an approval was independent when it was given
(`ApprovalsIndependent`). Each action is a lemma; a call's effect on the others'
claims is stated once. From `IInv` follow `RunOnce`, `RunsApproved`, `RecordedRan`;
`Implements` maps each step to a step of `ApprovalLifecycle` or a stutter.

**ActivitySessionProofs.** `Inductive` proves `IInv`: a session object of the current
version has the current state (`Snapshots`), and so has a late write that would
still match (`LateWrites`). That carries `RecordIsTruthful` and
`NothingOverwritten`, with commutative actions, rebasing and all. Under
`ReloadOnly` (no commutative action, clients reload after a conflict) the same
invariant also carries `JournalInv`: an operation that is already committed is only
held, or still under way, at an older version (`RetriesAreStale`), and whoever may
commit has seen the latest operation recorded (`WritersSawRecorded`). From it,
`SessionRefinesJournal`. The second version of an operation and the lost commutative update of section 4 show
that both hypotheses are needed.

**AccountConsequencesProofs.** `Inductive` proves `IInv`. The properties speak of runs
that are over, or of the account, so `IInv` says what each process has left behind at
each of its store accesses: a run records its strike before it counts, computes the
new status from the one it read, and writes it only when its change is in the log
(`RunsInOrder`); what it counted contains its own strike and all before it
(`CountedInOrder`); the present status is the one the run that set it was to set
(`StatusHasItsRun`); a status about to be restored is on record, and an item about to
be marked overturned has no strike left that counts (`RequestsInOrder`).
From it follow `NobodyEscapesTogether` (of the runs whose strikes
count, take the one that recorded its strike last: it counted all the others),
`EveryStatusIsOnRecord`, `BansAreReviewed`, and `OverturnLeavesNothing`, which assumes
that expiries do not fail (`"expire" \notin Faults`), as a failed one is only logged.
There is one lemma for each part of `IInv`, with one step for each action that can
disturb it; what an action leaves alone is stated once (`QueueStep`, `LogStep`,
`StrikesStep`). The theorems hold for any number of blocks, requests, moderators and
faults, where `AccountBlocks` has two blocks and two requests.

**AgentRunsProofs.** `EffectsInv` says why an effect is called
for once: an effect without an entry was not called for (`EntriesBegun`), whoever is
at the call is the one that inserted the entry and has not called yet (`OneCaller`),
and what a caller may rely on where it is (`CallersKnow`). A step of a caller touches
its own effect only; `InOrder` collects what that effect and that caller must satisfy
after it, `InOrderAfterStep` that this is enough, and each action has a lemma that it
is so. `IInv` of `AgentRuns` adds the runs. The overshoot is proved by a potential
(`FlightIsCovered`): what is used today plus the dearest step of every run in flight
stays within the bound. A run enters the flight only below the cap
(`BudgetChecked`), leaves it when charged (`BudgetCharged`), and a new day begins
with nothing used. That a completed run is resolved rests on two facts: an entry that
was resolved never changes again, and a step ends only when its effect was told of
(`FiredAreResolved`). From `IInv` follow `FiresOnce`, `NothingInvented`,
`BoundedOvershoot` and `CompletedResolved`, for any number of runs, trajectories,
effects, days and faults. `SpendCounted` compares a sum over all days with what was
spent, and neither sum is a definition by recursion: they are running totals that exist
(`Totals` over the days; `Hand` and `Slack`, over sets of runs, what each run has in
hand and what its step falls short of the dearest). Charging, a fault and the next step
each replace one run's share (`SumMoves`), and a charge moves it to the day; what was
spent is used, in hand, or was in the hand of a run that a fault ended
(`SpendIsAccounted`).

**Further theorems about sessions and held actions.** `PlayersMoveInTurn`: the turn is
kept in a column of its own and saved after the state, so `TurnsInOrder` says how the
two may differ while a client is between them, and that whoever is about to commit is
still the one to act. It assumes `OneClientEach` (a participant with two clients can
move with both before the turn is saved) and no late write. `OwnersPropose`: a call
beyond its first access stands for the principal the trajectory belongs to
(`OwnersOnly`). `RecordedInOrder`: the recorded steps are a prefix of the workflow and a
call is at most at the step after it (`StepsInPlace`). It assumes that every step is
gated, `Gated = StepIdx`: a call appends a gated step only with a claim, and claims are
exclusive (`IInv`), while an ungated step run by two calls at once can be appended
twice. The run `HeldGated` is of this case too.

**AdminProofs: configuration.** `IInv` of `ConfigApproval` says what a request knows at each of its accesses
(`RequestsInOrder`: the row, key and value it read are those of the row, whose
requester it checked), that a row has one applier (`OneApplier`) and that whoever
writes has passed the checks (`WritesInOrder`). From it `IndependentApproval`.
`NothingUnapprovedInForce` carries along what is not yet written, and assumes that a
write that lands is answered (`"lost" \notin Faults`): the fourth of the findings above
without a run shows why. `ApprovedNotForgotten` needs no such assumption.

**AdminProofs: permissions.** `PermissionsAgeOut` is about clock and history, and is not
inductive: an entry of a cache is as old as the resolution that filled it, which began
before it was stored. `IInv` of `AdminAccess` therefore says it of the beginning
(`FoundSinceStart`: what a request has found was so at some time since it arrived, what
is cached since its life ago) in facts that only become truer: `Since` holds of a fact
that is true or is in `gone`, and each write puts there what it ends. Nobody comes to
hold what nobody held because roles are clean (`RolesAreClean`: those that users have or
may be given hold nothing beyond `Authority`, and a change under way stays within it),
and a role that is gone has neither permissions nor users (`OnlyRolesThatExist`).
`RowsChangeLawfully` needs that a request past the guard had arrived in good standing
(`StandingIsKept`): in `AdminAccess` a standing only gets worse; reinstatement is in
`AccountConsequences`.

**ServicesProofs, PeopleProofs, ClientsProofs.** The theorems are about `Services`: whatever service
runs, its invariant is kept (`StaleAlone` and its like: a step of `Services` is one of
the service that runs), for any constants that satisfy `ServicesAssumption`, which are
types, bounds in `Nat` and what the source fixes (an unset value is not a row, the
list's defaults are there).

| Theorem | What carries it |
|---|---|
| `ApprovedAsItWasSeen` | of the proposals of an operation one stands (`OneStands`), a decision approves what was current when it looked (`Deciding`), one call carries an approved action out and nobody after it was applied (`Running`). It assumes `Expects = "observed"`; with `"current"`, `NeverAppliedToNewer` of section 4 fails |
| `PasswordPolicyIsKept` | every row, and every change under way, is within the bounds (`WithinBounds`), and is announced before it is saved (`Announced`) |
| `NoBarIsEverPassed` | a copy of a list is the list or was until one lifetime ago (`CopiesAge`), so a bar held for longer is in every copy; each read rules a bar out (`RuledOut`) |
| `UnwindsInReverse` | what is left of a read are its first steps, last first (`LastFirst`), every step left behind is in one account (`Accounted`) and has its record (`Undone`) |
| `DeskStaysCoherent` | reads are numbered as they were sent (`Numbered`), what is on its way was submitted (`SubmittedFirst`) |
| `ErasureStays` | what is about to be done is on record (`RecordedFirst`), an erasure without an error has erased the modules it has been to (`ErasedSoFar`) |
| `ConsentIsNeeded` | the rows of a member and the calls about to add one are at most the accepted invites (`PaidFor`): a count, kept by each step with a lemma on cardinalities |
| `SessionsAreTheirOwners` | a token with the word "password" is for the address its call was sent with, one of single sign-on for the callback's code (`TokenFits`); a call keeps its address while the page changes. In the proof the invariant is the type of a tab (`FitTab`): every handler maps a fit tab to a fit tab |
| `OnlyWhatWasConfirmed` | what a confirmation has left to do was picked for it, and what it has done of it came earlier in the plan and succeeded (`DoneSoFar`); the actions of a plan have places of their own (`Placed`), and a confirmation not yet sent is idle, so nothing can have run for it |
| `StreamsEndAtTheirError` | an error is in an inbox behind all chunks of its stream, and its writer is closed (`ErrorsAreLast`); a delivery is heard before the next is taken, so what a handler has heard comes before all that is still in an inbox; a channel whose entry is about to go was left or is counted as orphaned (`ClosingIsLeft`) |
| `OnlyCountedAndScreened` | a request counted in a window has its entry in the store, and two have not the same one, so that the store's count bounds them (`CountedIsLogged`); a guest's paid requests are at most its used ones; what is screened with the next window is the end of all that was shown (`ScreenedSoFar`), and a phrase of at most `Overlap + 1` words that lies in shown and new text together lies in that end and the new text, wherever the windows fall; a screening that failed never comes out as "allow" for a prompt or an output |
| `ServersAreSound` | the slots filled are described one by one from the fold over the code's order (`SlotsAreFilled`), and under the contract each one filled is durable (`SlotsAreDurable`), also one an early request left behind; a call begins an interval after the last answer, so that `n` calls take `n - 1` intervals (`ProbesAreSpaced`) |
| `OnlyScreenedIsSpoken` | past the screen a request holds what the screen passed, its translation is of its own words into its own language whether it made or found it (`HoldsItsOwn`, `KeepsItsOwn`), and what was spoken and what is to come are together the chunks of that translation |

`OnlyScreenedIsSpoken` is about the pipeline, for texts that the chunker cuts as it
promises: that the pieces of each text fit and say it (`ChunksSayTheText`) is a
hypothesis of the theorem. It is about data and not about steps, and `MCServices`
assumes it of its scripts (`ScriptsAreSaid`), so TLC evaluates it on them.

Only model-checked, and why.

* Liveness under fairness: `ApprovalIsUsed`, `CommittedIsRecorded`, `EscalationEnds`.
* Induction over data: that `ChunkText` of every text fits and says the text
  (`ScriptsAreSaid` checks it for the scripts of the run). The cutting is a fold over
  the units of a text and a recursive function on what is left of it, and the library's
  induction theorems take an operator as a parameter, which the installed provers
  cannot instantiate. A fold whose order matters little (the slots of `Startup`) is
  proved about through the partial results that exist along it.

## 6. Not modelled

* In the modelled components: `removeParticipant`, the state store's `delete`
  (no caller outside tests); capability and length checks that precede the first
  access; event emission; the window of 200 audit rows that a restoration reads;
  what the end date of a suspension does; the connection guard (nothing in the
  repository calls it); the cascade of password policies (no caller); presence; region, hosted sign-in, proxy and realtime settings;
  how the blocklist normalizes a text; signatures and claims of tokens.
* Parts with no module: the agent registry and its policies, AI adapters and prompts,
  RAG and embeddings, input classification, review assist, the generic cache, the
  configuration-driven policies (features, content, adaptive, analytics,
  monetization, versioning), metrics and traces, kernel types, most pages, games,
  migrations, scripts, tests. They keep no state that outlives a call, or are
  external services whose answers are inputs of the modelled parts.

## 7. Plan

Every safety property and action property that a run checks is stated by a theorem.
Left are compositions: `AccountConsequences` with `AccountGate` (what a suspended user
may still start) and with `HeldActions` (a principal banned while its approval is open).
