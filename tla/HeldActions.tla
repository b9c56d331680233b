----------------------------- MODULE HeldActions -----------------------------
(***************************************************************************)
(* One agent workflow and its held actions.                                *)
(*                                                                         *)
(* A workflow is a sequence of tool steps run against one trajectory.  A   *)
(* step whose risk reaches the gating threshold may run only with an       *)
(* approved proposal; without one the call records a proposal and pauses.  *)
(*                                                                         *)
(*   platform/agents/workflow-loop.ts    runGoal, advanceGoal,             *)
(*                                       resumeApprovedAction, runSteps    *)
(*   platform/action-pipeline/index.ts   executeActionPipeline, proposeOnce,*)
(*                                       proposeAction, approveProposal,   *)
(*                                       rejectProposal, reviseProposal    *)
(*   platform/agents/gating.ts           heldActionRefusal, principalOf    *)
(*   platform/agents/*-store.ts          proposal and trajectory rows      *)
(*   app/api/admin/approvals/[id]        the administrator's decision      *)
(*                                                                         *)
(* Every access to a store is one step, because the code awaits it: calls  *)
(* and decisions interleave between any two of them.  Values read before   *)
(* an await live in call[c] or dec[d] and may be stale when they are used. *)
(***************************************************************************)
EXTENDS Integers, Sequences, FiniteSets

CONSTANTS
  NumSteps,      \* steps of the workflow, indexed from 0 as in the code
  Gated,         \* the indices whose tool needs an approval
  Versions,      \* deployed versions of the definition: a step's tool id
  Inputs,        \* what a caller passes, hence the payload of a proposal
  NoInput,       \* the empty input of a resume
  Agents,        \* identities that run the workflow
  Approvers,     \* identities that decide
  Id,            \* the identity of each: kind, actor, user, session
  Admins,        \* the approvers that hold the permission for the action
  ApproverKind,  \* the actor type the approval policy requires
  NoUser,        \* the principal of an identity that stands for nobody
  NoSession,     \* the session of an identity whose provider reports none
  Revisers,      \* agents whose application revises held proposals
  Calls,         \* concurrent requests to the workflow loop
  Deciders,      \* concurrent decision requests
  ProposalIds,   \* BOUND: the proposals that can be minted
  None,          \* no proposal
  MaxCrashes     \* BOUND: requests that die half-way

StepIdx == 0 .. NumSteps - 1
Kinds == {"user", "agent"}

ASSUME WorkflowAssumption ==
  /\ NumSteps \in Nat \ {0}      \* registerWorkflow refuses an empty definition
  /\ Gated \subseteq StepIdx
  /\ NoInput \in Inputs
ASSUME IdentityAssumption ==
  /\ Revisers \subseteq Agents
  /\ \A a \in Agents \cup Approvers :
       /\ Id[a].kind \in Kinds
       /\ Id[a].kind = "user" => Id[a].user = Id[a].actor
  /\ \A a \in Admins : Id[a].kind = "user"
ASSUME BoundAssumption ==
  /\ None \notin ProposalIds
  /\ MaxCrashes \in Nat

VARIABLES
  status,     \* the trajectory's status; "absent" before it is created
  scope,      \* whom the trajectory belongs to
  steps,      \* the trajectory's steps, append-only
  proposals,  \* the proposal rows
  runs,       \* how often the tool of a gated step ran on each proposal
  call,       \* the calls in progress and what each has read
  dec,        \* the decisions in progress and what each has read
  crashes     \* requests that died so far

vars == <<status, scope, steps, proposals, runs, call, dec, crashes>>
trajectory == <<status, scope, steps>>

ProposalStatus ==
  {"none", "proposed", "approved", "rejected", "superseded", "executed"}
OneLiveUnused == {"proposed", "approved"}   \* mutant: a used approval frees its operation
OneLive == {"proposed", "approved", "executed"}   \* migration 046

CallPC == {"idle", "reading", "opening", "finding", "invoking", "consuming",
           "performing", "appending", "failing", "pausing", "checkingSteps",
           "checkingUsed", "proposing", "creating", "recording",
           "pausingProposal", "pausingHold", "superseding", "assembling"}
DeciderPC == {"idle", "deciding", "loading", "releasing", "recording", "failing"}

IdleCall == [pc |-> "idle", actor |-> None, input |-> NoInput, version |-> None,
             at |-> 0, upto |-> 0, prop |-> None, payload |-> NoInput, via |-> None]
IdleDecider == [pc |-> "idle", prop |-> None, verdict |-> "approved", by |-> None]
NoProposal == [status |-> "none", op |-> 0, label |-> None, payload |-> NoInput,
               actor |-> None, by |-> None]

-----------------------------------------------------------------------------
(* Identities and ownership *)

\* The user an actor stands for, as its identity gives it.
PrincipalOf(a) == Id[a].user

\* Where a trajectory created by a is scoped.
ScopeOf(a) == IF PrincipalOf(a) # NoUser THEN <<"user", PrincipalOf(a)>>
                                         ELSE <<"platform", Id[a].actor>>

\* Mutants: anybody's continuation; only of a trajectory that is running.
MayContinueAnyone(a) == status # "failed"
MayContinueRunning(a) == status = "running" /\ scope = ScopeOf(a)

\* A continuation is the owner's, and never of a failed trajectory.
MayContinue(a) == status # "failed" /\ scope = ScopeOf(a)

\* The party that proposed cannot be told apart from the party that decides.
SameAgent(a, b) ==
  Id[a].kind # "user" /\ Id[b].kind = Id[a].kind /\ Id[b].actor = Id[a].actor
SessionsDiffer(a, b) ==
  NoSession \notin {Id[a].session, Id[b].session} /\ Id[a].session # Id[b].session

\* Mutant: the owner approves through the session that proposed.
OwnerMayDecideAnySession(p, by, verdict) ==
  LET proposer == proposals[p].actor IN
  /\ PrincipalOf(proposer) # NoUser
  /\ PrincipalOf(by) = PrincipalOf(proposer)
  /\ proposals[p].status = "proposed"
  /\ verdict = "approved" => ~SameAgent(proposer, by) /\ Id[by].kind = ApproverKind

\* The owner's own decision: heldActionRefusal returns null.
OwnerMayDecide(p, by, verdict) ==
  LET proposer == proposals[p].actor IN
  /\ PrincipalOf(proposer) # NoUser
  /\ PrincipalOf(by) = PrincipalOf(proposer)
  /\ proposals[p].status = "proposed"
  /\ verdict = "approved" => /\ ~SameAgent(proposer, by)
                             /\ SessionsDiffer(proposer, by)
                             /\ Id[by].kind = ApproverKind

\* The administrator's decision: permitted, and never by any identity the
\* proposer could stand for.
AdminMayDecide(p, by, verdict) ==
  LET proposer == proposals[p].actor IN
  /\ by \in Admins
  /\ verdict = "approved" => Id[by].actor \notin {Id[proposer].actor, PrincipalOf(proposer)}

-----------------------------------------------------------------------------
(* What the stores answer *)

Commitments == {k \in DOMAIN steps : steps[k].boundary = "commitment"}
StepCount == Len(steps)   \* mutant: every recorded step counts
CommitmentCount == Cardinality(Commitments)

\* The proposals of step i's operation with one of the given statuses.
OfOperation(i, statuses) ==
  {p \in ProposalIds : proposals[p].op = i /\ proposals[p].status \in statuses}

\* Unconditional on the current status, as updateStatus is.
UpdateStatus(s) == status' = s /\ UNCHANGED <<scope, steps>>
AddStep(boundary, i, p) ==
  /\ steps' = Append(steps, [boundary |-> boundary, index |-> i, prop |-> p])
  /\ UNCHANGED <<status, scope>>

At(c, where) == call[c].pc = where
Goto(c, where) == call' = [call EXCEPT ![c].pc = where]
End(c) == call' = [call EXCEPT ![c] = IdleCall]

-----------------------------------------------------------------------------
Init ==
  /\ status = "absent" /\ scope = <<>> /\ steps = <<>>
  /\ proposals = [p \in ProposalIds |-> NoProposal]
  /\ runs = [p \in ProposalIds |-> 0]
  /\ call = [c \in Calls |-> IdleCall]
  /\ dec = [d \in Deciders |-> IdleDecider]
  /\ crashes = 0

(***************************************************************************)
(* Entering the loop.  A call runs steps at .. upto - 1: every remaining   *)
(* step for runGoal, the next one for advanceGoal.                         *)
(***************************************************************************)
Enter(c, a, x, v, from, whole, via) ==
  LET upto == IF whole \/ from >= NumSteps THEN NumSteps ELSE from + 1 IN
  call' = [call EXCEPT ![c] =
    [IdleCall EXCEPT !.pc = IF from < NumSteps THEN "finding" ELSE "assembling",
                     !.actor = a, !.input = x, !.version = v,
                     !.at = from, !.upto = upto, !.via = via]]

\* A call without a trajectory id creates the trajectory.
Start(c) ==
  /\ At(c, "idle") /\ status = "absent"
  /\ \E a \in Agents, x \in Inputs, v \in Versions, whole \in BOOLEAN :
       /\ Enter(c, a, x, v, 0, whole, None)
       /\ scope' = ScopeOf(a)
  /\ status' = "running"
  /\ UNCHANGED <<steps, proposals, runs, dec, crashes>>

\* A call with its id continues it; a refused one leaves no trace.
Continue(c) ==
  /\ At(c, "idle") /\ status # "absent"
  /\ \E a \in Agents, x \in Inputs, v \in Versions, whole \in BOOLEAN :
       /\ MayContinue(a)
       /\ Enter(c, a, x, v, CommitmentCount, whole, None)
  /\ UNCHANGED <<trajectory, proposals, runs, dec, crashes>>

\* resumeApprovedAction reads the approved proposal, then the trajectory, then
\* lets advanceGoal read the trajectory again, as the proposer.
ResumeRead(c, p) ==
  /\ At(c, "idle") /\ proposals[p].status = "approved"
  /\ \E v \in Versions :
       call' = [call EXCEPT ![c] = [IdleCall EXCEPT !.pc = "reading", !.version = v,
                                      !.actor = proposals[p].actor, !.via = p]]
  /\ UNCHANGED <<trajectory, proposals, runs, dec, crashes>>

ResumeCheck(c) ==
  /\ At(c, "reading")
  /\ IF proposals[call[c].via].op = CommitmentCount THEN Goto(c, "opening") ELSE End(c)
  /\ UNCHANGED <<trajectory, proposals, runs, dec, crashes>>

ResumeOpen(c) ==
  /\ At(c, "opening")
  /\ IF MayContinue(call[c].actor)
       THEN Enter(c, call[c].actor, NoInput, call[c].version, CommitmentCount, FALSE, call[c].via)
       ELSE End(c)
  /\ UNCHANGED <<trajectory, proposals, runs, dec, crashes>>

(***************************************************************************)
(* One step: find its approval, pass the pipeline's gate and budget, claim *)
(* the approval, run the tool, append the commitment.                      *)
(***************************************************************************)
FindApproval(c) ==
  /\ At(c, "finding")
  /\ LET approved == OfOperation(call[c].at, {"approved"}) IN
     \/ /\ approved = {}
        /\ call' = [call EXCEPT ![c].pc = "invoking", ![c].prop = None,
                                ![c].payload = call[c].input]
     \/ \E p \in approved :
          IF proposals[p].label = call[c].version
          THEN call' = [call EXCEPT ![c].pc = "invoking", ![c].prop = p,
                                    ![c].payload = proposals[p].payload]
          ELSE Goto(c, "failing")
  /\ UNCHANGED <<trajectory, proposals, runs, dec, crashes>>

\* A malformed input fails the step before the pipeline sees it.  What was
\* approved passed this check when it was first held.
RefuseInput(c) ==
  /\ At(c, "invoking") /\ call[c].prop = None
  /\ Goto(c, "failing")
  /\ UNCHANGED <<trajectory, proposals, runs, dec, crashes>>

\* The gate: the presented proposal, read again, is approved for exactly this.
GatePasses(c) ==
  \/ call[c].at \notin Gated
  \/ LET p == call[c].prop IN
     /\ p # None
     /\ proposals[p].status = "approved"
     /\ proposals[p].op = call[c].at
     /\ proposals[p].label = call[c].version
     /\ proposals[p].payload = call[c].payload

\* Mutant: an approved step runs without claiming its approval.
InvokeUnclaimed(c) ==
  /\ At(c, "invoking")
  /\ IF GatePasses(c) THEN Goto(c, "performing") ELSE Goto(c, "checkingSteps")
  /\ UNCHANGED <<trajectory, proposals, runs, dec, crashes>>

Invoke(c) ==
  /\ At(c, "invoking")
  /\ IF ~GatePasses(c) THEN Goto(c, "checkingSteps")
     ELSE IF call[c].at \in Gated THEN Goto(c, "consuming")
     ELSE Goto(c, "performing")
  /\ UNCHANGED <<trajectory, proposals, runs, dec, crashes>>

\* The step costs more than this call's ceiling.
OverBudget(c) ==
  /\ At(c, "invoking") /\ GatePasses(c)
  /\ Goto(c, "pausing")
  /\ UNCHANGED <<trajectory, proposals, runs, dec, crashes>>

\* Mutant: the record precedes the run.
ConsumeThenRecord(c) ==
  /\ At(c, "consuming") /\ proposals[call[c].prop].status = "approved"
  /\ proposals' = [proposals EXCEPT ![call[c].prop].status = "executed"]
  /\ Goto(c, "appending")
  /\ UNCHANGED <<trajectory, runs, dec, crashes>>

\* The atomic claim: only from `approved`.
Consume(c) ==
  /\ At(c, "consuming")
  /\ IF proposals[call[c].prop].status = "approved"
     THEN /\ proposals' = [proposals EXCEPT ![call[c].prop].status = "executed"]
          /\ Goto(c, "performing")
     ELSE End(c) /\ UNCHANGED proposals
  /\ UNCHANGED <<trajectory, runs, dec, crashes>>

\* The claim took effect and its answer was lost: an ordinary error.
ConsumeUnanswered(c) ==
  /\ At(c, "consuming") /\ proposals[call[c].prop].status = "approved"
  /\ proposals' = [proposals EXCEPT ![call[c].prop].status = "executed"]
  /\ Goto(c, "failing")
  /\ UNCHANGED <<trajectory, runs, dec, crashes>>

\* The tool runs, and answers or throws.
Perform(c) ==
  /\ At(c, "performing")
  /\ \E next \in {"appending", "failing"} : Goto(c, next)
  /\ runs' = IF call[c].at \in Gated THEN [runs EXCEPT ![call[c].prop] = @ + 1] ELSE runs
  /\ UNCHANGED <<trajectory, proposals, dec, crashes>>

AppendStep(c) ==
  /\ At(c, "appending")
  /\ AddStep("commitment", call[c].at, call[c].prop)
  /\ LET next == call[c].at + 1 IN
     call' = [call EXCEPT ![c].at = next, ![c].prop = None, ![c].payload = NoInput,
                          ![c].pc = IF next < call[c].upto THEN "finding" ELSE "assembling"]
  /\ UNCHANGED <<proposals, runs, dec, crashes>>

\* The append's compare-and-swap gave up, or its write failed.
AppendFails(c) ==
  /\ At(c, "appending")
  /\ Goto(c, "failing")
  /\ UNCHANGED <<trajectory, proposals, runs, dec, crashes>>

FailTrajectory(c) ==
  /\ At(c, "failing")
  /\ UpdateStatus("failed")
  /\ End(c)
  /\ UNCHANGED <<proposals, runs, dec, crashes>>

PauseOverBudget(c) ==
  /\ At(c, "pausing")
  /\ UpdateStatus("paused")
  /\ End(c)
  /\ UNCHANGED <<proposals, runs, dec, crashes>>

(***************************************************************************)
(* Holding a step: check that it has not run, reuse the live proposal or   *)
(* create one, record it, pause.                                           *)
(***************************************************************************)
CheckSteps(c) ==
  /\ At(c, "checkingSteps")
  /\ IF CommitmentCount > call[c].at THEN End(c) ELSE Goto(c, "checkingUsed")
  /\ UNCHANGED <<trajectory, proposals, runs, dec, crashes>>

CheckUsed(c) ==
  /\ At(c, "checkingUsed")
  /\ IF OfOperation(call[c].at, {"executed"}) # {} THEN End(c) ELSE Goto(c, "proposing")
  /\ UNCHANGED <<trajectory, proposals, runs, dec, crashes>>

ProposeOnce(c) ==
  /\ At(c, "proposing")
  /\ IF OfOperation(call[c].at, {"proposed"}) # {} THEN Goto(c, "pausingHold")
     ELSE IF OfOperation(call[c].at, {"approved", "executed"}) # {} THEN End(c)
     ELSE Goto(c, "creating")
  /\ UNCHANGED <<trajectory, proposals, runs, dec, crashes>>

\* The store refuses a second live proposal of an operation.
CreateProposal(c) ==
  /\ At(c, "creating")
  /\ LET free == {p \in ProposalIds : proposals[p].status = "none"} IN
     IF OfOperation(call[c].at, OneLive) # {} \/ free = {}
     THEN End(c) /\ UNCHANGED proposals
     ELSE \E p \in free :
       /\ proposals' = [proposals EXCEPT ![p] =
            [status |-> "proposed", op |-> call[c].at, label |-> call[c].version,
             payload |-> call[c].input, actor |-> call[c].actor, by |-> None]]
       /\ call' = [call EXCEPT ![c].pc = "recording", ![c].prop = p]
  /\ UNCHANGED <<trajectory, runs, dec, crashes>>

RecordProposal(c) ==
  /\ At(c, "recording")
  /\ AddStep("cognition", call[c].at, call[c].prop)
  /\ Goto(c, "pausingProposal")
  /\ UNCHANGED <<proposals, runs, dec, crashes>>

\* proposeAction pauses the trajectory; runSteps, if it asked, pauses it again.
PauseProposal(c) ==
  /\ At(c, "pausingProposal")
  /\ UpdateStatus("paused")
  /\ IF call[c].upto = 0 THEN End(c) ELSE Goto(c, "pausingHold")
  /\ UNCHANGED <<proposals, runs, dec, crashes>>

PauseHold(c) ==
  /\ At(c, "pausingHold")
  /\ UpdateStatus("paused")
  /\ End(c)
  /\ UNCHANGED <<proposals, runs, dec, crashes>>

\* Only a run that ended and finds every step committed completes the
\* trajectory.  The count never falls, so its read and the write are one step.
Assemble(c) ==
  /\ At(c, "assembling")
  /\ IF CommitmentCount >= NumSteps THEN UpdateStatus("completed") ELSE UNCHANGED trajectory
  /\ End(c)
  /\ UNCHANGED <<proposals, runs, dec, crashes>>

(***************************************************************************)
(* reviseProposal: supersede the live proposal of an operation that was    *)
(* held, then propose again.  Such a call has upto = 0: it runs no step.   *)
(***************************************************************************)
Revising(a, x, v, i, pc, p) ==
  [IdleCall EXCEPT !.pc = pc, !.actor = a, !.input = x, !.version = v, !.at = i, !.prop = p]

Revise(c) ==
  /\ At(c, "idle")
  /\ \E a \in Revisers, x \in Inputs, v \in Versions, i \in StepIdx :
       /\ scope = ScopeOf(a)
       /\ OfOperation(i, ProposalStatus \ {"none"}) # {}
       /\ LET live == OfOperation(i, {"proposed"}) IN
          \/ /\ live = {}
             /\ call' = [call EXCEPT ![c] = Revising(a, x, v, i, "creating", None)]
          \/ \E p \in live :
               call' = [call EXCEPT ![c] = Revising(a, x, v, i, "superseding", p)]
  /\ UNCHANGED <<trajectory, proposals, runs, dec, crashes>>

\* A decision that came first is left alone; the proposal is attempted anyway.
Supersede(c) ==
  /\ At(c, "superseding")
  /\ proposals' = IF proposals[call[c].prop].status = "proposed"
                  THEN [proposals EXCEPT ![call[c].prop].status = "superseded",
                                         ![call[c].prop].by = call[c].actor]
                  ELSE proposals
  /\ call' = [call EXCEPT ![c].pc = "creating", ![c].prop = None]
  /\ UNCHANGED <<trajectory, runs, dec, crashes>>

(***************************************************************************)
(* Deciding.  The checks are made on a proposal read earlier; the store's  *)
(* conditional write settles the race.                                     *)
(***************************************************************************)
Review(d) ==
  /\ dec[d].pc = "idle"
  /\ \E by \in Approvers, p \in ProposalIds, verdict \in {"approved", "rejected"} :
       /\ proposals[p].status # "none"
       /\ OwnerMayDecide(p, by, verdict) \/ AdminMayDecide(p, by, verdict)
       /\ dec' = [dec EXCEPT ![d] =
                    [pc |-> "deciding", prop |-> p, verdict |-> verdict, by |-> by]]
  /\ UNCHANGED <<trajectory, proposals, runs, call, crashes>>

EndDecision(d) == dec' = [dec EXCEPT ![d] = IdleDecider]
ThenDecider(d, where) == dec' = [dec EXCEPT ![d].pc = where]

Decide(d) ==
  /\ dec[d].pc = "deciding"
  /\ LET p == dec[d].prop IN
     IF proposals[p].status = "proposed"
     THEN /\ proposals' = [proposals EXCEPT ![p].status = dec[d].verdict, ![p].by = dec[d].by]
          /\ ThenDecider(d, IF dec[d].verdict = "approved" THEN "loading" ELSE "recording")
     ELSE EndDecision(d) /\ UNCHANGED proposals
  /\ UNCHANGED <<trajectory, runs, call, crashes>>

\* approveProposal: back to running only from paused, which it reads first.
LoadTrajectory(d) ==
  /\ dec[d].pc = "loading"
  /\ IF status = "paused" THEN ThenDecider(d, "releasing") ELSE EndDecision(d)
  /\ UNCHANGED <<trajectory, proposals, runs, call, crashes>>

Release(d) ==
  /\ dec[d].pc = "releasing"
  /\ UpdateStatus("running")
  /\ EndDecision(d)
  /\ UNCHANGED <<proposals, runs, call, crashes>>

\* rejectProposal: the refusal is recorded (at index 0), the trajectory failed.
RecordRejection(d) ==
  /\ dec[d].pc = "recording"
  /\ AddStep("cognition", 0, dec[d].prop)
  /\ ThenDecider(d, "failing")
  /\ UNCHANGED <<proposals, runs, call, crashes>>

FailRejected(d) ==
  /\ dec[d].pc = "failing"
  /\ UpdateStatus("failed")
  /\ EndDecision(d)
  /\ UNCHANGED <<proposals, runs, call, crashes>>

(***************************************************************************)
(* A request dies between two store accesses, or an access outside the     *)
(* loop's try block throws: what it had written stays, the rest is lost.   *)
(***************************************************************************)
CrashCall(c) ==
  /\ ~At(c, "idle") /\ crashes < MaxCrashes
  /\ End(c)
  /\ crashes' = crashes + 1
  /\ UNCHANGED <<trajectory, proposals, runs, dec>>

CrashDecision(d) ==
  /\ dec[d].pc # "idle" /\ crashes < MaxCrashes
  /\ EndDecision(d)
  /\ crashes' = crashes + 1
  /\ UNCHANGED <<trajectory, proposals, runs, call>>

-----------------------------------------------------------------------------
\* What a call does once it has begun.
CallStep(c) ==
  \/ ResumeCheck(c) \/ ResumeOpen(c)
  \/ FindApproval(c) \/ RefuseInput(c) \/ Invoke(c) \/ OverBudget(c)
  \/ Consume(c) \/ ConsumeUnanswered(c) \/ Perform(c)
  \/ AppendStep(c) \/ AppendFails(c) \/ FailTrajectory(c) \/ PauseOverBudget(c)
  \/ CheckSteps(c) \/ CheckUsed(c) \/ ProposeOnce(c) \/ CreateProposal(c)
  \/ RecordProposal(c) \/ PauseProposal(c) \/ PauseHold(c) \/ Assemble(c)
  \/ Supersede(c)

DeciderStep(d) ==
  \/ Decide(d) \/ LoadTrajectory(d) \/ Release(d)
  \/ RecordRejection(d) \/ FailRejected(d)

CallAction(c) ==
  \/ Start(c) \/ Continue(c) \/ Revise(c) \/ \E p \in ProposalIds : ResumeRead(c, p)
  \/ CallStep(c)
  \/ CrashCall(c)
DeciderAction(d) == Review(d) \/ DeciderStep(d) \/ CrashDecision(d)

Next == (\E c \in Calls : CallAction(c)) \/ (\E d \in Deciders : DeciderAction(d))

Spec == Init /\ [][Next]_vars
-----------------------------------------------------------------------------
(* Properties *)

TrajectoryStatus == {"absent", "running", "paused", "completed", "failed"}
StepRecord == [boundary : {"cognition", "commitment"}, index : Nat,
               prop : ProposalIds \cup {None}]
ProposalRecord == [status : ProposalStatus, op : StepIdx, label : Versions \cup {None},
                   payload : Inputs, actor : Agents \cup {None},
                   by : Agents \cup Approvers \cup {None}]
CallState == [pc : CallPC, actor : Agents \cup {None}, input : Inputs,
              version : Versions \cup {None}, at : Nat, upto : Nat,
              prop : ProposalIds \cup {None}, payload : Inputs,
              via : ProposalIds \cup {None}]
DeciderState == [pc : DeciderPC, prop : ProposalIds \cup {None},
                 verdict : {"approved", "rejected"}, by : Approvers \cup {None}]

\* A call inside a step is at a step of the workflow, and one about to act on a
\* proposal names it.
WellFormed(r) ==
  /\ r.pc \notin {"idle", "reading", "opening", "assembling"} => r.at \in StepIdx
  /\ r.upto <= NumSteps
  /\ r.pc \in {"consuming", "superseding"} => r.prop # None
  /\ r.pc \in {"reading", "opening"} => r.via # None
CallsTyped ==
  /\ call \in [Calls -> CallState]
  /\ \A c \in Calls : WellFormed(call[c])
DecidersTyped ==
  /\ dec \in [Deciders -> DeciderState]
  /\ \A d \in Deciders : dec[d].pc # "idle" => dec[d].prop # None

\* Type invariant.
TypeOK ==
  /\ status \in TrajectoryStatus
  /\ steps \in Seq(StepRecord)
  /\ proposals \in [ProposalIds -> ProposalRecord]
  /\ runs \in [ProposalIds -> Nat]
  /\ CallsTyped
  /\ DecidersTyped
  /\ crashes \in Nat

\* A gated step's tool runs at most once over the whole life of its
\* trajectory, however many calls resume it, whatever is re-proposed or
\* revised, and whichever of them die (executeActionPipeline's claim, the
\* stores' one-live rule).
AtMostOneRun ==
  \A p, q \in ProposalIds :
    /\ runs[p] <= 1
    /\ runs[p] > 0 /\ runs[q] > 0 /\ proposals[p].op = proposals[q].op => p = q

\* Who approved proposal p is shown to be another party than who proposed it:
\* another person, or the same person through another session and not through
\* the agent that proposed.
Independent(proposer, by) ==
  /\ ~SameAgent(proposer, by)
  /\ PrincipalOf(by) = PrincipalOf(proposer) => SessionsDiffer(proposer, by)
ApprovedIndependently(p) ==
  proposals[p].by \in Approvers /\ Independent(proposals[p].actor, proposals[p].by)

\* When a gated tool is about to run, what runs is what an independent party
\* approved: the operation, the tool and the payload, although the caller may
\* have passed another input under another version of the workflow.
RunsWhatWasApproved ==
  \A c \in Calls :
    At(c, "performing") /\ call[c].at \in Gated =>
      LET p == call[c].prop IN
      /\ p # None
      /\ proposals[p].status = "executed"
      /\ proposals[p].op = call[c].at
      /\ proposals[p].label = call[c].version
      /\ proposals[p].payload = call[c].payload
      /\ ApprovedIndependently(p)

\* The record never runs ahead of the world: a gated commitment in the
\* trajectory names a proposal whose tool ran, once, and no two name the same.
RecordedMeansRan ==
  \A k \in Commitments :
    steps[k].index \in Gated =>
      /\ steps[k].prop # None
      /\ runs[steps[k].prop] = 1
      /\ \A l \in Commitments :
           steps[l].index \in Gated /\ steps[l].prop = steps[k].prop => l = k

\* A step's position among the commitments is its index (workflow-loop.ts,
\* gotcha 1): steps are recorded in order, none twice, none skipped.
StepsInOrder ==
  \A k \in Commitments :
    steps[k].index = Cardinality({l \in Commitments : l < k})

\* An open or approved proposal is for the step the trajectory will run next,
\* so that an approval, when it comes, releases something.
OpenProposalIsNext ==
  \A p \in ProposalIds :
    proposals[p].status \in {"proposed", "approved"} => proposals[p].op = CommitmentCount

\* Whoever proposes on a trajectory, under a resume too, stands for the
\* principal the trajectory belongs to (mayContinue).
OnlyTheOwnerProposes ==
  \A p \in ProposalIds :
    proposals[p].status # "none" => ScopeOf(proposals[p].actor) = scope

\* The calls and decisions implement the life cycle of proposals.
Lifecycle == INSTANCE ApprovalLifecycle
  WITH Operations <- StepIdx,
       phase <- [p \in ProposalIds |-> proposals[p].status],
       op <- [p \in ProposalIds |-> proposals[p].op],
       ran <- runs
ImplementsLifecycle == Lifecycle!Spec

-----------------------------------------------------------------------------
(* The inductive invariant behind the safety properties. *)

\* At most one proposal of an operation is open, approved or used.
OneLiveProposal ==
  \A p, q \in ProposalIds :
    /\ proposals[p].op = proposals[q].op
    /\ proposals[p].status \in OneLive /\ proposals[q].status \in OneLive
    => p = q

\* A tool ran at most once on a proposal, and only after its claim.
RunsOnlyExecuted ==
  \A p \in ProposalIds : runs[p] <= 1 /\ (runs[p] > 0 => proposals[p].status = "executed")

\* Call c owns the claim of the proposal it presents.
Claiming(c) == call[c].pc \in {"performing", "appending"} /\ call[c].at \in Gated

MatchesProposal(c) ==
  /\ call[c].prop # None
  /\ proposals[call[c].prop].status # "none"
  /\ proposals[call[c].prop].op = call[c].at
  /\ proposals[call[c].prop].label = call[c].version
  /\ proposals[call[c].prop].payload = call[c].payload

ClaimsMatch ==
  \A c \in Calls :
    /\ At(c, "consuming") => call[c].at \in Gated /\ MatchesProposal(c)
    /\ Claiming(c) => MatchesProposal(c) /\ proposals[call[c].prop].status = "executed"

ClaimsExclusive ==
  \A c, d \in Calls :
    Claiming(c) /\ Claiming(d) /\ call[c].prop = call[d].prop => c = d

\* Where a claim stands: not yet run, or run and not yet recorded.
ClaimsFresh ==
  \A c \in Calls :
    Claiming(c) =>
      /\ runs[call[c].prop] = IF At(c, "performing") THEN 0 ELSE 1
      /\ \A k \in Commitments : steps[k].index \in Gated => steps[k].prop # call[c].prop

ApprovalsIndependent ==
  /\ \A p \in ProposalIds :
       proposals[p].status \in {"approved", "executed"} => ApprovedIndependently(p)
  /\ \A d \in Deciders :
       dec[d].pc = "deciding" =>
         /\ proposals[dec[d].prop].status # "none"
         /\ dec[d].by \in Approvers
         /\ dec[d].verdict = "approved" => Independent(proposals[dec[d].prop].actor, dec[d].by)

IInv ==
  /\ TypeOK
  /\ OneLiveProposal
  /\ RunsOnlyExecuted
  /\ ClaimsMatch
  /\ ClaimsExclusive
  /\ ClaimsFresh
  /\ ApprovalsIndependent
  /\ RecordedMeansRan

\* Before the trajectory exists nobody is at work on it; afterwards whoever is stands for
\* the principal it belongs to.
OwnersOnly ==
  /\ status = "absent" =>
       /\ \A c \in Calls : At(c, "idle")
       /\ \A p \in ProposalIds : proposals[p].status = "none"
  /\ \A c \in Calls : ~At(c, "idle") => ScopeOf(call[c].actor) = scope
  /\ OnlyTheOwnerProposes

\* Where every step needs an approval: what is recorded is what was claimed, no step is
\* missing, and no call is ahead of the record.
Working == {"finding", "invoking", "consuming", "performing", "appending"}
StepsInPlace ==
  /\ StepsInOrder
  /\ \A k \in Commitments :
       /\ steps[k].index \in Gated
       /\ proposals[steps[k].prop].op = steps[k].index
  /\ \A i \in 0 .. CommitmentCount - 1 : \E k \in Commitments : steps[k].index = i
  /\ \A c \in Calls : call[c].pc \in Working => call[c].at <= CommitmentCount

-----------------------------------------------------------------------------
(* Progress *)

\* The loop's code runs on once entered, a decision's handler too; and an
\* approved action is resumed again and again (the "retry" affordance a held
\* response carries) by a client whose ceiling covers the step.
Fairness ==
  /\ \A c \in Calls : WF_vars(CallStep(c))
  /\ \A d \in Deciders : WF_vars(DeciderStep(d))
  /\ \A p \in ProposalIds :
       /\ SF_vars(\E c \in Calls : ResumeRead(c, p))
       /\ \A c \in Calls : SF_vars(call[c].via = p /\ Invoke(c))
FairSpec == Spec /\ Fairness

\* An approved action is eventually claimed, or its trajectory has failed.
ApprovalIsUsed ==
  \A p \in ProposalIds :
    proposals[p].status = "approved" ~> proposals[p].status = "executed" \/ status = "failed"
=============================================================================
