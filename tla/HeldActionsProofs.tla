-------------------------- MODULE HeldActionsProofs --------------------------
(***************************************************************************)
(* Proofs about HeldActions, for every workflow, every set of identities,  *)
(* calls, decisions and proposals, and any number of crashes.              *)
(***************************************************************************)
EXTENDS HeldActions, FiniteSetTheorems, TLAPS

\* The number of commitments, which every entry into the loop reads as an
\* index, is a natural number.
LEMMA CountIsNat ==
  ASSUME steps \in Seq(StepRecord)
  PROVE  CommitmentCount \in Nat
<1>1. DOMAIN steps = 1 .. Len(steps) /\ Len(steps) \in Nat
  OBVIOUS
<1>2. IsFiniteSet(1 .. Len(steps))
  BY <1>1, FS_Interval
<1>3. Commitments \subseteq 1 .. Len(steps)
  BY <1>1 DEF Commitments
<1>4. IsFiniteSet(Commitments)
  BY <1>2, <1>3, FS_Subset
<1> QED BY <1>4, FS_CardinalityType DEF CommitmentCount

\* The initial state is of the declared types.
LEMMA InitTyped == Init => TypeOK
<1> SUFFICES ASSUME Init PROVE TypeOK
  OBVIOUS
<1>1. IdleCall \in CallState /\ IdleDecider \in DeciderState /\ NoProposal \in ProposalRecord
  BY WorkflowAssumption DEF IdleCall, CallState, CallPC, IdleDecider, DeciderState, DeciderPC,
     NoProposal, ProposalRecord, ProposalStatus, StepIdx
<1>2. steps \in Seq(StepRecord)
  BY DEF Init
<1>3. CallsTyped /\ DecidersTyped
  BY <1>1, WorkflowAssumption DEF Init, CallsTyped, DecidersTyped, WellFormed, IdleCall, IdleDecider
<1> QED BY <1>1, <1>2, <1>3 DEF Init, TypeOK, TrajectoryStatus

\* A call's record is replaced by a well-formed one.
LEMMA SetTyped ==
  ASSUME CallsTyped, NEW c \in Calls, NEW r \in CallState, WellFormed(r),
         call' = [call EXCEPT ![c] = r]
  PROVE  CallsTyped'
<1>1. call' \in [Calls -> CallState]
  BY DEF CallsTyped
<1>2. \A d \in Calls : call'[d] = IF d = c THEN r ELSE call[d]
  BY DEF CallsTyped
<1> QED BY <1>1, <1>2 DEF CallsTyped

\* The places where a call stands outside a step, and those where it must name
\* a proposal.
Outside == {"idle", "reading", "opening", "assembling"}
Acting == {"consuming", "superseding"}

\* Within a step, a call moves on; to act on a proposal it must name one.
LEMMA GotoTyped ==
  ASSUME CallsTyped, NEW c \in Calls, NEW w \in CallPC \ Outside,
         call[c].pc \notin Outside, w \in Acting => call[c].prop # None,
         Goto(c, w)
  PROVE  CallsTyped'
<1> DEFINE r == [call[c] EXCEPT !.pc = w]
<1>1. call[c] \in CallState /\ WellFormed(call[c])
  BY DEF CallsTyped
<1>2. /\ r \in CallState /\ r.pc = w /\ r.at = call[c].at /\ r.upto = call[c].upto
      /\ r.prop = call[c].prop /\ r.via = call[c].via
  BY <1>1 DEF CallState
<1>3. call' = [call EXCEPT ![c] = r]
  BY DEF Goto, CallsTyped
<1> HIDE DEF r
<1>4. WellFormed(r)
  BY <1>1, <1>2 DEF WellFormed, Outside, Acting
<1> QED BY <1>2, <1>3, <1>4, SetTyped

\* A call ends.
LEMMA EndTyped ==
  ASSUME CallsTyped, NEW c \in Calls, End(c)
  PROVE  CallsTyped'
<1>1. IdleCall \in CallState /\ WellFormed(IdleCall)
  BY WorkflowAssumption DEF IdleCall, CallState, CallPC, WellFormed
<1> QED BY <1>1, SetTyped DEF End

\* A call enters the loop.
LEMMA EnterTyped ==
  ASSUME CallsTyped, NEW c \in Calls, NEW a \in Agents \cup {None}, NEW x \in Inputs,
         NEW v \in Versions \cup {None}, NEW from \in Nat, NEW whole \in BOOLEAN,
         NEW via \in ProposalIds \cup {None}, Enter(c, a, x, v, from, whole, via)
  PROVE  CallsTyped'
<1> DEFINE upto == IF whole \/ from >= NumSteps THEN NumSteps ELSE from + 1
           r == [IdleCall EXCEPT !.pc = IF from < NumSteps THEN "finding" ELSE "assembling",
                     !.actor = a, !.input = x, !.version = v,
                     !.at = from, !.upto = upto, !.via = via]
<1>1. upto \in Nat /\ upto <= NumSteps
  BY WorkflowAssumption
<1>2. /\ r \in CallState /\ r.pc = IF from < NumSteps THEN "finding" ELSE "assembling"
      /\ r.at = from /\ r.upto = upto
  BY <1>1, WorkflowAssumption DEF IdleCall, CallState, CallPC
<1>3. call' = [call EXCEPT ![c] = r]
  BY DEF Enter
<1> HIDE DEF r, upto
<1>4. WellFormed(r)
  BY <1>1, <1>2, WorkflowAssumption DEF WellFormed, StepIdx
<1> QED BY <1>2, <1>3, <1>4, SetTyped

\* The actions in which a call only moves on within a step, or ends.
Moves(c) ==
  \/ RefuseInput(c) \/ Invoke(c) \/ OverBudget(c) \/ Consume(c) \/ ConsumeUnanswered(c)
  \/ Perform(c) \/ AppendFails(c) \/ FailTrajectory(c) \/ PauseOverBudget(c)
  \/ CheckSteps(c) \/ CheckUsed(c) \/ ProposeOnce(c) \/ RecordProposal(c)
  \/ PauseProposal(c) \/ PauseHold(c) \/ Assemble(c) \/ CrashCall(c)

LEMMA MovesTyped ==
  ASSUME CallsTyped, NEW c \in Calls, Moves(c)
  PROVE  CallsTyped'
<1>1. \A w \in CallPC \ (Outside \cup Acting) :
        call[c].pc \notin Outside /\ Goto(c, w) => CallsTyped'
  BY GotoTyped
<1>2. End(c) => CallsTyped'
  BY EndTyped
<1>3. CASE Invoke(c)
  <2>1. CASE Goto(c, "consuming") /\ call[c].prop # None
    BY <1>3, <2>1, GotoTyped DEF Invoke, At, CallPC, Outside
  <2>2. CASE Goto(c, "checkingSteps") \/ Goto(c, "performing")
    BY <1>3, <2>2, <1>1 DEF Invoke, At, CallPC, Outside, Acting
  <2> QED BY <1>3, <2>1, <2>2 DEF Invoke, GatePasses
<1>4. CASE RefuseInput(c) \/ OverBudget(c) \/ Consume(c) \/ ConsumeUnanswered(c)
  BY <1>4, <1>1, <1>2 DEF RefuseInput, OverBudget, Consume, ConsumeUnanswered, At, CallPC,
     Outside, Acting
<1>5. CASE Perform(c) \/ AppendFails(c) \/ RecordProposal(c) \/ PauseProposal(c)
  BY <1>5, <1>1, <1>2 DEF Perform, AppendFails, RecordProposal, PauseProposal, At, CallPC,
     Outside, Acting
<1>6. CASE CheckSteps(c) \/ CheckUsed(c) \/ ProposeOnce(c)
  BY <1>6, <1>1, <1>2 DEF CheckSteps, CheckUsed, ProposeOnce, At, CallPC, Outside, Acting
<1>7. CASE FailTrajectory(c) \/ PauseOverBudget(c) \/ PauseHold(c) \/ Assemble(c) \/ CrashCall(c)
  BY <1>7, <1>2 DEF FailTrajectory, PauseOverBudget, PauseHold, Assemble, CrashCall
<1> QED BY <1>3, <1>4, <1>5, <1>6, <1>7 DEF Moves

\* Every action of a call keeps calls of their type.
LEMMA CallStepTyped ==
  ASSUME TypeOK, NEW c \in Calls, CallAction(c)
  PROVE  CallsTyped'
<1> USE DEF TypeOK
<1>a. CommitmentCount \in Nat /\ NoInput \in Inputs
  BY CountIsNat, WorkflowAssumption
<1>b. call[c] \in CallState /\ WellFormed(call[c])
  BY DEF CallsTyped
<1>c. \A p \in ProposalIds : proposals[p].actor \in Agents \cup {None} /\ proposals[p].payload \in Inputs
  BY DEF ProposalRecord
<1>1. CASE Start(c)
  BY <1>1, <1>a, EnterTyped DEF Start
<1>2. CASE Continue(c)
  BY <1>2, <1>a, EnterTyped DEF Continue
<1>3. CASE \E p \in ProposalIds : ResumeRead(c, p)
  <2>1. PICK p \in ProposalIds : ResumeRead(c, p)
    BY <1>3
  <2>2. PICK v \in Versions :
          call' = [call EXCEPT ![c] = [IdleCall EXCEPT !.pc = "reading", !.version = v,
                                       !.actor = proposals[p].actor, !.via = p]]
    BY <2>1 DEF ResumeRead
  <2> DEFINE r == [IdleCall EXCEPT !.pc = "reading", !.version = v,
                                       !.actor = proposals[p].actor, !.via = p]
  <2>3. r \in CallState /\ r.pc = "reading" /\ r.via = p /\ r.upto = 0
    BY <1>a, <1>c DEF IdleCall, CallState, CallPC
  <2>4. call' = [call EXCEPT ![c] = r]
    BY <2>2
  <2> HIDE DEF r
  <2>5. WellFormed(r)
    BY <2>3, WorkflowAssumption, BoundAssumption DEF WellFormed
  <2> QED BY <2>3, <2>4, <2>5, SetTyped
<1>4. CASE ResumeCheck(c)
  <2>1. CASE Goto(c, "opening")
    <3> DEFINE r == [call[c] EXCEPT !.pc = "opening"]
    <3>1. r \in CallState /\ r.pc = "opening" /\ r.via = call[c].via /\ r.upto = call[c].upto
      BY <1>b DEF CallState, CallPC
    <3>2. call' = [call EXCEPT ![c] = r]
      BY <2>1 DEF Goto, CallsTyped
    <3> HIDE DEF r
    <3>3. WellFormed(r)
      BY <1>4, <1>b, <3>1 DEF ResumeCheck, At, WellFormed
    <3> QED BY <3>1, <3>2, <3>3, SetTyped
  <2> QED BY <1>4, <2>1, EndTyped DEF ResumeCheck
<1>5. CASE ResumeOpen(c)
  <2>1. call[c].actor \in Agents \cup {None} /\ call[c].version \in Versions \cup {None}
          /\ call[c].via \in ProposalIds \cup {None}
    BY <1>b DEF CallState
  <2> QED BY <1>5, <2>1, <1>a, EnterTyped, EndTyped DEF ResumeOpen
<1>6. CASE FindApproval(c)
  <2> DEFINE r(p, x) == [call[c] EXCEPT !.pc = "invoking", !.prop = p, !.payload = x]
  <2>1. ASSUME NEW p \in ProposalIds \cup {None}, NEW x \in Inputs,
               call' = [call EXCEPT ![c] = r(p, x)]
        PROVE  CallsTyped'
    <3> DEFINE s == r(p, x)
    <3>1. s \in CallState /\ s.pc = "invoking" /\ s.at = call[c].at /\ s.upto = call[c].upto
      BY <1>b DEF CallState, CallPC
    <3>2. call' = [call EXCEPT ![c] = s]
      BY <2>1
    <3> HIDE DEF s
    <3>3. WellFormed(s)
      BY <1>6, <1>b, <3>1 DEF FindApproval, At, WellFormed
    <3> QED BY <3>1, <3>2, <3>3, SetTyped
  <2>2. CASE call' = [call EXCEPT ![c].pc = "invoking", ![c].prop = None,
                                  ![c].payload = call[c].input]
    <3>1. call' = [call EXCEPT ![c] = r(None, call[c].input)]
      BY <2>2 DEF CallsTyped
    <3>2. call[c].input \in Inputs
      BY <1>b DEF CallState
    <3> QED BY <3>1, <3>2, <2>1
  <2>3. CASE \E p \in ProposalIds :
               call' = [call EXCEPT ![c].pc = "invoking", ![c].prop = p,
                                    ![c].payload = proposals[p].payload]
    <3>1. PICK p \in ProposalIds :
               call' = [call EXCEPT ![c].pc = "invoking", ![c].prop = p,
                                    ![c].payload = proposals[p].payload]
      BY <2>3
    <3>2. call' = [call EXCEPT ![c] = r(p, proposals[p].payload)]
      BY <3>1 DEF CallsTyped
    <3> QED BY <3>2, <2>1, <1>c
  <2>4. CASE Goto(c, "failing")
    BY <1>6, <2>4, GotoTyped DEF FindApproval, At, CallPC, Outside, Acting
  <2> QED BY <1>6, <2>2, <2>3, <2>4 DEF FindApproval, OfOperation
<1>7. CASE Moves(c)
  BY <1>7, MovesTyped
<1>8. CASE AppendStep(c)
  <2> DEFINE next == call[c].at + 1
             r == [call[c] EXCEPT !.at = next, !.prop = None, !.payload = NoInput,
                     !.pc = IF next < call[c].upto THEN "finding" ELSE "assembling"]
  <2>1. next \in Nat
    BY <1>b DEF CallState
  <2>2. /\ r \in CallState /\ r.pc = IF next < call[c].upto THEN "finding" ELSE "assembling"
        /\ r.at = next /\ r.upto = call[c].upto
    BY <2>1, <1>a, <1>b DEF CallState, CallPC
  <2>3. call' = [call EXCEPT ![c] = r]
    BY <1>8 DEF AppendStep, CallsTyped
  <2>4. call[c].upto \in Nat /\ call[c].upto <= NumSteps
    BY <1>b DEF CallState, WellFormed
  <2> HIDE DEF r, next
  <2>5. WellFormed(r)
    BY <2>1, <2>2, <2>4, WorkflowAssumption DEF WellFormed, StepIdx
  <2> QED BY <2>2, <2>3, <2>5, SetTyped
<1>9. CASE CreateProposal(c)
  <2>1. CASE \E p \in ProposalIds :
               call' = [call EXCEPT ![c].pc = "recording", ![c].prop = p]
    <3>1. PICK p \in ProposalIds : call' = [call EXCEPT ![c].pc = "recording", ![c].prop = p]
      BY <2>1
    <3> DEFINE r == [call[c] EXCEPT !.pc = "recording", !.prop = p]
    <3>2. r \in CallState /\ r.pc = "recording" /\ r.at = call[c].at /\ r.upto = call[c].upto
      BY <1>b DEF CallState, CallPC
    <3>3. call' = [call EXCEPT ![c] = r]
      BY <3>1 DEF CallsTyped
    <3> HIDE DEF r
    <3>4. WellFormed(r)
      BY <1>9, <1>b, <3>2 DEF CreateProposal, At, WellFormed
    <3> QED BY <3>2, <3>3, <3>4, SetTyped
  <2>2. CASE End(c)
    BY <2>2, EndTyped
  <2> QED BY <1>9, <2>1, <2>2 DEF CreateProposal
<1>10. CASE Revise(c)
  <2>1. PICK a \in Revisers, x \in Inputs, v \in Versions, i \in StepIdx :
         \/ call' = [call EXCEPT ![c] = Revising(a, x, v, i, "creating", None)]
         \/ \E p \in ProposalIds :
              call' = [call EXCEPT ![c] = Revising(a, x, v, i, "superseding", p)]
    BY <1>10 DEF Revise, OfOperation
  <2>2. i \in Nat /\ a \in Agents
    BY IdentityAssumption DEF StepIdx
  <2>3. ASSUME NEW pc \in {"creating", "superseding"}, NEW p \in ProposalIds \cup {None},
               pc = "superseding" => p # None,
               call' = [call EXCEPT ![c] = Revising(a, x, v, i, pc, p)]
        PROVE  CallsTyped'
    <3> DEFINE r == Revising(a, x, v, i, pc, p)
    <3>1. r \in CallState /\ r.pc = pc /\ r.prop = p /\ r.at = i /\ r.upto = 0
      BY <2>2, <1>a DEF IdleCall, CallState, CallPC, Revising
    <3>2. call' = [call EXCEPT ![c] = r]
      BY <2>3
    <3> HIDE DEF r
    <3>3. WellFormed(r)
      BY <2>3, <3>1, WorkflowAssumption DEF WellFormed
    <3> QED BY <3>1, <3>2, <3>3, SetTyped
  <2> QED BY <2>1, <2>3, BoundAssumption
<1>11. CASE Supersede(c)
  <2> DEFINE r == [call[c] EXCEPT !.pc = "creating", !.prop = None]
  <2>1. r \in CallState /\ r.pc = "creating" /\ r.at = call[c].at /\ r.upto = call[c].upto
    BY <1>b DEF CallState, CallPC
  <2>2. call' = [call EXCEPT ![c] = r]
    BY <1>11 DEF Supersede, CallsTyped
  <2> HIDE DEF r
  <2>3. WellFormed(r)
    BY <1>11, <1>b, <2>1 DEF Supersede, At, WellFormed
  <2> QED BY <2>1, <2>2, <2>3, SetTyped
<1> QED
  BY <1>1, <1>2, <1>3, <1>4, <1>5, <1>6, <1>7, <1>8, <1>9, <1>10, <1>11
     DEF CallAction, CallStep, Moves

\* Every action of a decision keeps decisions of their type.
LEMMA DeciderStepTyped ==
  ASSUME TypeOK, NEW d \in Deciders, DeciderAction(d)
  PROVE  DecidersTyped'
<1> USE DEF TypeOK, DecidersTyped, DeciderState, DeciderPC
<1>1. CASE Review(d)
  BY <1>1, BoundAssumption DEF Review
<1>2. \A w \in DeciderPC : dec[d].pc # "idle" /\ ThenDecider(d, w) => DecidersTyped'
  <2> SUFFICES ASSUME NEW w \in DeciderPC, dec[d].pc # "idle", ThenDecider(d, w)
               PROVE  DecidersTyped'
    OBVIOUS
  <2> DEFINE r == [dec[d] EXCEPT !.pc = w]
  <2>1. r \in DeciderState /\ r.pc = w /\ r.prop = dec[d].prop
    OBVIOUS
  <2>2. dec' = [dec EXCEPT ![d] = r]
    BY DEF ThenDecider
  <2> HIDE DEF r
  <2>3. dec' \in [Deciders -> DeciderState] /\ \A e \in Deciders : e # d => dec'[e] = dec[e]
    BY <2>1, <2>2
  <2> QED BY <2>1, <2>2, <2>3
<1>3. EndDecision(d) => DecidersTyped'
  <2>1. IdleDecider \in DeciderState /\ IdleDecider.pc = "idle"
    BY DEF IdleDecider
  <2> QED BY <2>1 DEF EndDecision
<1>4. CASE Decide(d)
  <2>1. dec[d].pc # "idle"
    BY <1>4 DEF Decide
  <2>2. ThenDecider(d, "loading") \/ ThenDecider(d, "recording") \/ EndDecision(d)
    BY <1>4 DEF Decide
  <2> QED BY <2>1, <2>2, <1>2, <1>3
<1>5. CASE LoadTrajectory(d) \/ Release(d)
  BY <1>5, <1>2, <1>3 DEF LoadTrajectory, Release
<1>6. CASE RecordRejection(d) \/ FailRejected(d) \/ CrashDecision(d)
  BY <1>6, <1>2, <1>3 DEF RecordRejection, FailRejected, CrashDecision
<1> QED BY <1>1, <1>4, <1>5, <1>6 DEF DeciderAction, DeciderStep

\* Every step keeps the stored rows of their types.
LEMMA StoresTyped ==
  ASSUME TypeOK, Next
  PROVE  /\ status' \in TrajectoryStatus
         /\ steps' \in Seq(StepRecord)
         /\ proposals' \in [ProposalIds -> ProposalRecord]
         /\ runs' \in [ProposalIds -> Nat]
         /\ crashes' \in Nat
<1> USE DEF TypeOK, trajectory, UpdateStatus
<1>a. /\ \A c \in Calls : call[c] \in CallState
      /\ \A d \in Deciders : dec[d] \in DeciderState
  BY DEF CallsTyped, DecidersTyped
<1>b. ASSUME NEW b \in {"cognition", "commitment"}, NEW i \in Nat,
             NEW p \in ProposalIds \cup {None}, AddStep(b, i, p)
      PROVE  steps' \in Seq(StepRecord) /\ status' = status
  <2>1. [boundary |-> b, index |-> i, prop |-> p] \in StepRecord
    BY DEF StepRecord
  <2> QED BY <2>1, <1>b DEF AddStep
<1>c. \A p \in ProposalIds, s \in ProposalStatus, by \in Agents \cup Approvers \cup {None} :
        /\ [proposals EXCEPT ![p].status = s] \in [ProposalIds -> ProposalRecord]
        /\ [proposals EXCEPT ![p].status = s, ![p].by = by] \in [ProposalIds -> ProposalRecord]
  <2> SUFFICES ASSUME NEW p \in ProposalIds, NEW s \in ProposalStatus,
                      NEW by \in Agents \cup Approvers \cup {None}
               PROVE  /\ [proposals EXCEPT ![p].status = s] \in [ProposalIds -> ProposalRecord]
                      /\ [proposals EXCEPT ![p].status = s, ![p].by = by]
                            \in [ProposalIds -> ProposalRecord]
    OBVIOUS
  <2>1. [proposals[p] EXCEPT !.status = s] \in ProposalRecord
    BY DEF ProposalRecord
  <2>2. [proposals[p] EXCEPT !.status = s, !.by = by] \in ProposalRecord
    BY DEF ProposalRecord
  <2> QED BY <2>1, <2>2
<1>1. ASSUME NEW c \in Calls, CallAction(c)
      PROVE  /\ status' \in TrajectoryStatus /\ steps' \in Seq(StepRecord)
             /\ proposals' \in [ProposalIds -> ProposalRecord]
             /\ runs' \in [ProposalIds -> Nat] /\ crashes' \in Nat
  <2>1. CASE Start(c)
    BY <2>1 DEF Start, TrajectoryStatus
  <2>2. CASE Continue(c) \/ Revise(c) \/ \E p \in ProposalIds : ResumeRead(c, p)
    BY <2>2 DEF Continue, Revise, ResumeRead
  <2>3. CASE ResumeCheck(c) \/ ResumeOpen(c) \/ FindApproval(c) \/ RefuseInput(c) \/ Invoke(c)
             \/ OverBudget(c) \/ AppendFails(c) \/ CheckSteps(c) \/ CheckUsed(c) \/ ProposeOnce(c)
    BY <2>3 DEF ResumeCheck, ResumeOpen, FindApproval, RefuseInput, Invoke, OverBudget,
       AppendFails, CheckSteps, CheckUsed, ProposeOnce
  <2>4. CASE Consume(c) \/ ConsumeUnanswered(c)
    <3>1. call[c].prop \in ProposalIds
      BY <2>4, <1>a DEF Consume, ConsumeUnanswered, At, CallsTyped, WellFormed, CallState
    <3>2. [proposals EXCEPT ![call[c].prop].status = "executed"] \in [ProposalIds -> ProposalRecord]
      BY <3>1, <1>c DEF ProposalStatus
    <3> QED BY <2>4, <3>2 DEF Consume, ConsumeUnanswered
  <2>5. CASE Perform(c)
    <3>1. runs \in [ProposalIds -> Nat]
      OBVIOUS
    <3>2. [runs EXCEPT ![call[c].prop] = @ + 1] \in [ProposalIds -> Nat]
      <4>1. CASE call[c].prop \in ProposalIds
        BY <3>1, <4>1
      <4>2. CASE call[c].prop \notin ProposalIds
        <5>1. [runs EXCEPT ![call[c].prop] = @ + 1] = runs
          BY <3>1, <4>2
        <5> QED BY <3>1, <5>1
      <4> QED BY <4>1, <4>2
    <3> QED BY <2>5, <3>1, <3>2 DEF Perform
  <2>6. CASE AppendStep(c)
    <3>1. AddStep("commitment", call[c].at, call[c].prop)
      BY <2>6 DEF AppendStep
    <3>2. call[c].at \in Nat /\ call[c].prop \in ProposalIds \cup {None}
      BY <1>a DEF CallState
    <3> QED BY <2>6, <3>1, <3>2, <1>b DEF AppendStep
  <2>7. CASE RecordProposal(c)
    <3>1. AddStep("cognition", call[c].at, call[c].prop)
      BY <2>7 DEF RecordProposal
    <3>2. call[c].at \in Nat /\ call[c].prop \in ProposalIds \cup {None}
      BY <1>a DEF CallState
    <3> QED BY <2>7, <3>1, <3>2, <1>b DEF RecordProposal
  <2>8. CASE FailTrajectory(c) \/ PauseOverBudget(c) \/ PauseProposal(c) \/ PauseHold(c) \/ Assemble(c)
    BY <2>8 DEF FailTrajectory, PauseOverBudget, PauseProposal, PauseHold, Assemble, TrajectoryStatus
  <2>9. CASE CreateProposal(c)
    <3>1. \A i \in StepIdx : [status |-> "proposed", op |-> i, label |-> call[c].version,
             payload |-> call[c].input, actor |-> call[c].actor, by |-> None] \in ProposalRecord
      BY <1>a DEF CallState, ProposalRecord, ProposalStatus
    <3>2. call[c].at \in StepIdx
      BY <2>9 DEF CreateProposal, At, CallsTyped, WellFormed
    <3> QED BY <2>9, <3>1, <3>2 DEF CreateProposal
  <2>10. CASE Supersede(c)
    <3>1. call[c].prop \in ProposalIds /\ call[c].actor \in Agents \cup {None}
      BY <2>10, <1>a DEF Supersede, At, CallsTyped, WellFormed, CallState
    <3> QED BY <2>10, <3>1, <1>c DEF Supersede, ProposalStatus
  <2>11. CASE CrashCall(c)
    BY <2>11 DEF CrashCall
  <2> QED BY <1>1, <2>1, <2>2, <2>3, <2>4, <2>5, <2>6, <2>7, <2>8, <2>9, <2>10, <2>11
          DEF CallAction, CallStep
<1>2. ASSUME NEW d \in Deciders, DeciderAction(d)
      PROVE  /\ status' \in TrajectoryStatus /\ steps' \in Seq(StepRecord)
             /\ proposals' \in [ProposalIds -> ProposalRecord]
             /\ runs' \in [ProposalIds -> Nat] /\ crashes' \in Nat
  <2>1. CASE Decide(d)
    <3>1. dec[d].prop \in ProposalIds /\ dec[d].verdict \in ProposalStatus
            /\ dec[d].by \in Agents \cup Approvers \cup {None}
      BY <2>1, <1>a DEF Decide, DecidersTyped, DeciderState, ProposalStatus
    <3>2. [proposals EXCEPT ![dec[d].prop].status = dec[d].verdict, ![dec[d].prop].by = dec[d].by]
            \in [ProposalIds -> ProposalRecord]
      BY <3>1, <1>c
    <3> QED BY <2>1, <3>2 DEF Decide
  <2>2. CASE RecordRejection(d)
    <3>1. AddStep("cognition", 0, dec[d].prop) /\ dec[d].prop \in ProposalIds \cup {None}
      BY <2>2, <1>a DEF RecordRejection, DeciderState
    <3> QED BY <2>2, <3>1, <1>b DEF RecordRejection
  <2>3. CASE Review(d) \/ LoadTrajectory(d) \/ Release(d) \/ FailRejected(d) \/ CrashDecision(d)
    BY <2>3 DEF Review, LoadTrajectory, Release, FailRejected, CrashDecision, TrajectoryStatus
  <2> QED BY <1>2, <2>1, <2>2, <2>3 DEF DeciderAction, DeciderStep
<1> QED BY <1>1, <1>2 DEF Next

\* The actions of a call leave decisions alone, and the other way round.
LEMMA Apart ==
  /\ \A c \in Calls : CallAction(c) => UNCHANGED dec
  /\ \A d \in Deciders : DeciderAction(d) => UNCHANGED <<call, runs>>
<1>1. ASSUME NEW c \in Calls, CallAction(c) PROVE UNCHANGED dec
  BY <1>1 DEF CallAction, CallStep, Start, Continue, Revise, ResumeRead, CrashCall, ResumeCheck,
     ResumeOpen, FindApproval, RefuseInput, Invoke, OverBudget, Consume, ConsumeUnanswered, Perform,
     AppendStep, AppendFails, FailTrajectory, PauseOverBudget, CheckSteps, CheckUsed, ProposeOnce,
     CreateProposal, RecordProposal, PauseProposal, PauseHold, Assemble, Supersede
<1>2. ASSUME NEW d \in Deciders, DeciderAction(d) PROVE UNCHANGED <<call, runs>>
  BY <1>2 DEF DeciderAction, DeciderStep, Review, Decide, LoadTrajectory, Release,
     RecordRejection, FailRejected, CrashDecision
<1> QED BY <1>1, <1>2

\* Type correctness: every row, every call's reads and every decision's reads
\* keep their types under all interleavings.
THEOREM Typing == Spec => []TypeOK
<1>1. TypeOK /\ [Next]_vars => TypeOK'
  <2> SUFFICES ASSUME TypeOK, [Next]_vars PROVE TypeOK'
    OBVIOUS
  <2>1. CASE UNCHANGED vars
    BY <2>1 DEF vars, TypeOK, CallsTyped, DecidersTyped
  <2>2. CASE Next
    <3>1. CallsTyped' /\ DecidersTyped'
      BY <2>2, CallStepTyped, DeciderStepTyped, Apart DEF Next, TypeOK, CallsTyped, DecidersTyped
    <3> QED BY <2>2, <3>1, StoresTyped DEF TypeOK
  <2> QED BY <2>1, <2>2
<1> QED BY InitTyped, <1>1, PTL DEF Spec

-----------------------------------------------------------------------------
(* Safety.  IInv is inductive.  Its conjuncts fall in two: who holds which   *)
(* claim and what ran on it, and who approved what.                          *)

ClaimInv ==
  /\ OneLiveProposal
  /\ RunsOnlyExecuted
  /\ ClaimsMatch
  /\ ClaimsExclusive
  /\ ClaimsFresh
  /\ RecordedMeansRan

\* Where a call holds or is about to take a claim.
ClaimPC == {"consuming", "performing", "appending"}

\* A step of call c leaves the records of the other calls alone.
LEMMA OthersKept ==
  ASSUME TypeOK, NEW c \in Calls, CallAction(c), NEW d \in Calls, d # c
  PROVE  call'[d] = call[d]
<1> USE DEF Goto, End
<1>a. call \in [Calls -> CallState]
  BY DEF TypeOK, CallsTyped
<1>1. CASE Start(c) \/ Continue(c) \/ ResumeOpen(c)
  BY <1>a, <1>1 DEF Start, Continue, ResumeOpen, Enter
<1>2. CASE Revise(c) \/ Supersede(c) \/ \E p \in ProposalIds : ResumeRead(c, p)
  BY <1>a, <1>2 DEF Revise, Supersede, ResumeRead
<1>3. CASE FindApproval(c) \/ AppendStep(c) \/ CreateProposal(c)
  BY <1>a, <1>3 DEF FindApproval, AppendStep, CreateProposal
<1>4. CASE RefuseInput(c) \/ Invoke(c) \/ OverBudget(c) \/ Consume(c) \/ ConsumeUnanswered(c)
  BY <1>a, <1>4 DEF RefuseInput, Invoke, OverBudget, Consume, ConsumeUnanswered
<1>5. CASE Perform(c) \/ AppendFails(c) \/ RecordProposal(c) \/ PauseProposal(c) \/ PauseHold(c)
  BY <1>a, <1>5 DEF Perform, AppendFails, RecordProposal, PauseProposal, PauseHold
<1>6. CASE CheckSteps(c) \/ CheckUsed(c) \/ ProposeOnce(c) \/ ResumeCheck(c)
  BY <1>a, <1>6 DEF CheckSteps, CheckUsed, ProposeOnce, ResumeCheck
<1>7. CASE FailTrajectory(c) \/ PauseOverBudget(c) \/ Assemble(c) \/ CrashCall(c)
  BY <1>a, <1>7 DEF FailTrajectory, PauseOverBudget, Assemble, CrashCall
<1> QED BY <1>1, <1>2, <1>3, <1>4, <1>5, <1>6, <1>7 DEF CallAction, CallStep

\* A call moves on: only its place changes.
LEMMA GotoKeeps ==
  ASSUME CallsTyped, NEW c \in Calls, NEW w, Goto(c, w)
  PROVE  /\ call'[c].pc = w /\ call'[c].at = call[c].at /\ call'[c].prop = call[c].prop
         /\ call'[c].version = call[c].version /\ call'[c].payload = call[c].payload
<1> DEFINE r == [call[c] EXCEPT !.pc = w]
<1>1. call[c] \in CallState
  BY DEF CallsTyped
<1>2. /\ r.pc = w /\ r.at = call[c].at /\ r.prop = call[c].prop
      /\ r.version = call[c].version /\ r.payload = call[c].payload
  BY <1>1 DEF CallState
<1>3. call'[c] = r
  BY DEF Goto, CallsTyped
<1> QED BY <1>2, <1>3

\* Appending a step keeps those before it.
LEMMA AddStepKeeps ==
  ASSUME steps \in Seq(StepRecord), NEW b, NEW i, NEW p, AddStep(b, i, p)
  PROVE  /\ \A k \in Commitments : steps'[k] = steps[k]
         /\ Len(steps) + 1 \notin Commitments
         /\ steps'[Len(steps) + 1] = [boundary |-> b, index |-> i, prop |-> p]
         /\ Commitments' = IF b = "commitment" THEN Commitments \cup {Len(steps) + 1}
                                               ELSE Commitments
<1> DEFINE s == [boundary |-> b, index |-> i, prop |-> p]
<1>1. steps' = Append(steps, s) /\ s.boundary = b
  BY DEF AddStep
<1>2. /\ Len(steps) \in Nat /\ DOMAIN steps = 1 .. Len(steps)
      /\ DOMAIN steps' = 1 .. (Len(steps) + 1)
      /\ \A k \in 1 .. Len(steps) : steps'[k] = steps[k]
      /\ steps'[Len(steps) + 1] = s
  BY <1>1
<1> HIDE DEF s
<1>3. Commitments \subseteq 1 .. Len(steps)
  BY <1>2 DEF Commitments
<1>4. DOMAIN steps' = DOMAIN steps \cup {Len(steps) + 1}
  BY <1>2
<1>5. \A k \in DOMAIN steps' : steps'[k].boundary = "commitment" <=>
         k \in Commitments \/ (k = Len(steps) + 1 /\ b = "commitment")
  BY <1>1, <1>2, <1>3, <1>4 DEF Commitments
<1>6. Commitments' = IF b = "commitment" THEN Commitments \cup {Len(steps) + 1} ELSE Commitments
  BY <1>2, <1>3, <1>4, <1>5 DEF Commitments
<1> QED BY <1>2, <1>3, <1>6 DEF s

\* Nothing a claim is about changes, and a call that moved ends up without one.
LEMMA Frame ==
  ASSUME ClaimInv, UNCHANGED <<proposals, runs>>,
         \A d \in Calls : call'[d] = call[d] \/ call'[d].pc \notin ClaimPC,
         Commitments' = Commitments, \A k \in Commitments : steps'[k] = steps[k]
  PROVE  ClaimInv'
<1> USE DEF ClaimInv, ClaimPC, Claiming, At
<1>1. \A d \in Calls : call'[d].pc \in ClaimPC => call'[d] = call[d]
  OBVIOUS
<1>2. OneLiveProposal' /\ RunsOnlyExecuted'
  BY DEF OneLiveProposal, RunsOnlyExecuted
<1>3. ClaimsMatch'
  BY <1>1 DEF ClaimsMatch, MatchesProposal
<1>4. ClaimsExclusive'
  BY <1>1 DEF ClaimsExclusive
<1>5. ClaimsFresh'
  BY <1>1 DEF ClaimsFresh
<1>6. RecordedMeansRan'
  BY DEF RecordedMeansRan
<1> QED BY <1>2, <1>3, <1>4, <1>5, <1>6

\* The actions that change neither a proposal, a run nor a commitment, and take
\* no claim.
Quiet(c) ==
  \/ Start(c) \/ Continue(c) \/ Revise(c) \/ \E p \in ProposalIds : ResumeRead(c, p)
  \/ ResumeCheck(c) \/ ResumeOpen(c) \/ FindApproval(c) \/ RefuseInput(c) \/ OverBudget(c)
  \/ AppendFails(c) \/ FailTrajectory(c) \/ PauseOverBudget(c) \/ CheckSteps(c)
  \/ CheckUsed(c) \/ ProposeOnce(c) \/ RecordProposal(c) \/ PauseProposal(c) \/ PauseHold(c)
  \/ Assemble(c) \/ CrashCall(c)

LEMMA QuietPlace ==
  ASSUME TypeOK, NEW c \in Calls, Quiet(c)
  PROVE  call'[c].pc \notin ClaimPC
<1> USE DEF ClaimPC
<1>a. call \in [Calls -> CallState] /\ IdleCall.pc = "idle"
  BY DEF TypeOK, CallsTyped, IdleCall
<1>b. End(c) => call'[c].pc \notin ClaimPC
  BY <1>a DEF End
<1>c. \A w : w \notin ClaimPC /\ Goto(c, w) => call'[c].pc \notin ClaimPC
  BY GotoKeeps DEF TypeOK
<1>d. ASSUME NEW a, NEW x, NEW v, NEW from, NEW whole, NEW via,
             Enter(c, a, x, v, from, whole, via)
      PROVE  call'[c].pc \notin ClaimPC
  <2> DEFINE r == [IdleCall EXCEPT !.pc = IF from < NumSteps THEN "finding" ELSE "assembling",
                     !.actor = a, !.input = x, !.version = v, !.at = from,
                     !.upto = IF whole \/ from >= NumSteps THEN NumSteps ELSE from + 1,
                     !.via = via]
  <2>1. r.pc \in {"finding", "assembling"}
    BY DEF IdleCall
  <2>2. call'[c] = r
    BY <1>a, <1>d DEF Enter
  <2> QED BY <2>1, <2>2
<1>1. CASE Start(c) \/ Continue(c) \/ ResumeOpen(c)
  BY <1>1, <1>b, <1>d DEF Start, Continue, ResumeOpen
<1>2. CASE Revise(c)
  <2>1. \A a, x, v, i, pc, p : Revising(a, x, v, i, pc, p).pc = pc
    BY DEF Revising, IdleCall
  <2> QED BY <1>2, <1>a, <2>1 DEF Revise
<1>3. CASE \E p \in ProposalIds : ResumeRead(c, p)
  <2>1. \A v, a, p : [IdleCall EXCEPT !.pc = "reading", !.version = v, !.actor = a, !.via = p].pc
                       = "reading"
    BY DEF IdleCall
  <2> QED BY <1>3, <1>a, <2>1 DEF ResumeRead
<1>4. CASE FindApproval(c)
  <2>1. \A p, x : [call[c] EXCEPT !.pc = "invoking", !.prop = p, !.payload = x].pc = "invoking"
    BY <1>a DEF CallState
  <2>2. \A p, x : call' = [call EXCEPT ![c].pc = "invoking", ![c].prop = p, ![c].payload = x]
                    => call'[c].pc = "invoking"
    BY <1>a, <2>1
  <2>3. \/ Goto(c, "failing")
        \/ \E p, x : call' = [call EXCEPT ![c].pc = "invoking", ![c].prop = p, ![c].payload = x]
    BY <1>4 DEF FindApproval
  <2> QED BY <2>2, <2>3, <1>c
<1>5. CASE \/ ResumeCheck(c) \/ RefuseInput(c) \/ OverBudget(c) \/ AppendFails(c)
           \/ CheckSteps(c) \/ CheckUsed(c) \/ ProposeOnce(c) \/ RecordProposal(c)
  BY <1>5, <1>b, <1>c DEF ResumeCheck, RefuseInput, OverBudget, AppendFails, CheckSteps,
     CheckUsed, ProposeOnce, RecordProposal
<1>6. CASE \/ FailTrajectory(c) \/ PauseOverBudget(c) \/ PauseProposal(c) \/ PauseHold(c)
           \/ Assemble(c) \/ CrashCall(c)
  BY <1>6, <1>b, <1>c DEF FailTrajectory, PauseOverBudget, PauseProposal, PauseHold,
     Assemble, CrashCall
<1> QED BY <1>1, <1>2, <1>3, <1>4, <1>5, <1>6 DEF Quiet

LEMMA QuietClaims ==
  ASSUME TypeOK, ClaimInv, NEW c \in Calls, Quiet(c)
  PROVE  ClaimInv' /\ UNCHANGED <<proposals, runs, dec>>
<1> USE DEF UpdateStatus, trajectory
<1>1. UNCHANGED <<proposals, runs, dec>> /\ (UNCHANGED steps \/ RecordProposal(c))
  BY DEF Quiet, Start, Continue, Revise, ResumeRead, ResumeCheck, ResumeOpen, FindApproval,
     RefuseInput, OverBudget, AppendFails, FailTrajectory, PauseOverBudget, CheckSteps, CheckUsed,
     ProposeOnce, RecordProposal, PauseProposal, PauseHold, Assemble, CrashCall
<1>2. Commitments' = Commitments /\ \A k \in Commitments : steps'[k] = steps[k]
  <2>1. CASE UNCHANGED steps
    BY <2>1 DEF Commitments
  <2>2. CASE RecordProposal(c)
    <3>1. AddStep("cognition", call[c].at, call[c].prop) /\ steps \in Seq(StepRecord)
      BY <2>2 DEF RecordProposal, TypeOK
    <3>2. "cognition" # "commitment"
      OBVIOUS
    <3>3. /\ \A k \in Commitments : steps'[k] = steps[k]
          /\ Commitments' = IF "cognition" = "commitment" THEN Commitments \cup {Len(steps) + 1}
                                                          ELSE Commitments
      BY <3>1, AddStepKeeps
    <3> QED BY <3>2, <3>3
  <2> QED BY <1>1, <2>1, <2>2
<1>3. \A d \in Calls : d # c => call'[d] = call[d]
  BY OthersKept DEF Quiet, CallAction, CallStep
<1> QED BY <1>1, <1>2, <1>3, QuietPlace, Frame

\* Passing the gate: what is presented matches its approved proposal.
LEMMA InvokeClaims ==
  ASSUME TypeOK, ClaimInv, NEW c \in Calls, Invoke(c)
  PROVE  ClaimInv'
<1> USE DEF ClaimInv, At
<1>a. /\ UNCHANGED <<proposals, runs, steps>>
      /\ Commitments' = Commitments /\ \A k \in Commitments : steps'[k] = steps[k]
      /\ \A d \in Calls : d # c => call'[d] = call[d]
  BY OthersKept DEF Invoke, CallAction, CallStep, trajectory, Commitments
<1>b. /\ call'[c].at = call[c].at /\ call'[c].prop = call[c].prop
      /\ call'[c].version = call[c].version /\ call'[c].payload = call[c].payload
      /\ \/ call'[c].pc = "checkingSteps"
         \/ call'[c].pc = "consuming" /\ GatePasses(c) /\ call[c].at \in Gated
         \/ call'[c].pc = "performing" /\ call[c].at \notin Gated
  BY GotoKeeps DEF Invoke, TypeOK
<1>c. ~Claiming(c)' /\ \A d \in Calls : Claiming(d)' => d # c /\ Claiming(d) /\ call'[d] = call[d]
  BY <1>a, <1>b DEF Claiming
<1>1. OneLiveProposal' /\ RunsOnlyExecuted'
  BY <1>a DEF OneLiveProposal, RunsOnlyExecuted
<1>2. ClaimsMatch'
  <2>1. ASSUME NEW d \in Calls, d # c
        PROVE  /\ At(d, "consuming")' => call'[d].at \in Gated /\ MatchesProposal(d)'
               /\ Claiming(d)' => MatchesProposal(d)' /\ proposals'[call'[d].prop].status = "executed"
    BY <1>a, <1>c, <2>1 DEF ClaimsMatch, MatchesProposal
  <2>2. At(c, "consuming")' => call'[c].at \in Gated /\ MatchesProposal(c)'
    BY <1>a, <1>b DEF MatchesProposal, GatePasses
  <2> QED BY <1>c, <2>1, <2>2 DEF ClaimsMatch
<1>3. ClaimsExclusive'
  BY <1>c DEF ClaimsExclusive
<1>4. ClaimsFresh'
  BY <1>a, <1>c DEF ClaimsFresh
<1>5. RecordedMeansRan'
  BY <1>a DEF RecordedMeansRan
<1> QED BY <1>1, <1>2, <1>3, <1>4, <1>5

\* What a change of proposal p's status leaves as it was.
LEMMA StatusChange ==
  ASSUME proposals \in [ProposalIds -> ProposalRecord], NEW p \in ProposalIds, NEW s,
         proposals' = [proposals EXCEPT ![p].status = s]
  PROVE  /\ \A q \in ProposalIds : q # p => proposals'[q] = proposals[q]
         /\ proposals'[p].status = s
         /\ proposals'[p].op = proposals[p].op /\ proposals'[p].label = proposals[p].label
         /\ proposals'[p].payload = proposals[p].payload
         /\ proposals'[p].actor = proposals[p].actor /\ proposals'[p].by = proposals[p].by
<1> DEFINE r == [proposals[p] EXCEPT !.status = s]
<1>1. proposals[p] \in ProposalRecord
  OBVIOUS
<1>2. /\ r.status = s /\ r.op = proposals[p].op /\ r.label = proposals[p].label
      /\ r.payload = proposals[p].payload /\ r.actor = proposals[p].actor /\ r.by = proposals[p].by
  BY <1>1 DEF ProposalRecord
<1>3. proposals'[p] = r /\ \A q \in ProposalIds : q # p => proposals'[q] = proposals[q]
  OBVIOUS
<1> QED BY <1>2, <1>3

\* The same, when the one who changed it is recorded.
LEMMA Decided ==
  ASSUME proposals \in [ProposalIds -> ProposalRecord], NEW p \in ProposalIds, NEW s, NEW by,
         proposals' = [proposals EXCEPT ![p].status = s, ![p].by = by]
  PROVE  /\ \A q \in ProposalIds : q # p => proposals'[q] = proposals[q]
         /\ proposals'[p].status = s
         /\ proposals'[p].op = proposals[p].op /\ proposals'[p].label = proposals[p].label
         /\ proposals'[p].payload = proposals[p].payload
         /\ proposals'[p].actor = proposals[p].actor /\ proposals'[p].by = by
<1> DEFINE r == [proposals[p] EXCEPT !.status = s, !.by = by]
<1>1. proposals[p] \in ProposalRecord
  OBVIOUS
<1>2. /\ r.status = s /\ r.op = proposals[p].op /\ r.label = proposals[p].label
      /\ r.payload = proposals[p].payload /\ r.actor = proposals[p].actor /\ r.by = by
  BY <1>1 DEF ProposalRecord
<1>3. proposals'[p] = r /\ \A q \in ProposalIds : q # p => proposals'[q] = proposals[q]
  OBVIOUS
<1> QED BY <1>2, <1>3

\* The claim: whoever takes it, the proposal had not been used.
LEMMA ConsumeClaims ==
  ASSUME TypeOK, ClaimInv, NEW c \in Calls, Consume(c) \/ ConsumeUnanswered(c),
         ~UNCHANGED proposals
  PROVE  ClaimInv'
<1> DEFINE p == call[c].prop
<1> USE DEF ClaimInv, At
<1>a. p \in ProposalIds /\ call[c].pc = "consuming"
  BY DEF Consume, ConsumeUnanswered, TypeOK, CallsTyped, CallState, WellFormed
<1>b. /\ proposals[p].status = "approved"
      /\ proposals' = [proposals EXCEPT ![p].status = "executed"]
      /\ UNCHANGED <<runs, steps>>
  BY DEF Consume, ConsumeUnanswered, trajectory
<1>c. Commitments' = Commitments /\ \A d \in Calls : d # c => call'[d] = call[d]
  BY <1>b, OthersKept DEF CallAction, CallStep, Commitments
<1>d. /\ call'[c].at = call[c].at /\ call'[c].prop = p
      /\ call'[c].version = call[c].version /\ call'[c].payload = call[c].payload
      /\ call'[c].pc \in {"performing", "failing"}
  BY <1>b, GotoKeeps DEF Consume, ConsumeUnanswered, TypeOK
<1>e. /\ \A q \in ProposalIds : q # p => proposals'[q] = proposals[q]
      /\ proposals'[p].status = "executed"
      /\ proposals'[p].op = proposals[p].op /\ proposals'[p].label = proposals[p].label
      /\ proposals'[p].payload = proposals[p].payload
  BY <1>a, <1>b, StatusChange DEF TypeOK
<1>f. call[c].at \in Gated /\ MatchesProposal(c)
  BY <1>a DEF ClaimsMatch
<1>g. runs[p] = 0 /\ \A k \in Commitments : steps[k].index \in Gated => steps[k].prop # p
  BY <1>a, <1>b DEF RunsOnlyExecuted, RecordedMeansRan, TypeOK
<1>h. \A d \in Calls : Claiming(d) => call[d].prop # p
  BY <1>b DEF ClaimsMatch
<1>i. \A d \in Calls : call[d].prop \in ProposalIds \cup {None}
  BY DEF TypeOK, CallsTyped, CallState
<1> HIDE DEF p
<1>1. OneLiveProposal'
  BY <1>a, <1>b, <1>e DEF OneLiveProposal, OneLive
<1>2. RunsOnlyExecuted'
  BY <1>b, <1>e DEF RunsOnlyExecuted
<1>3. ClaimsMatch'
  <2>1. MatchesProposal(c)'
    BY <1>a, <1>d, <1>e, <1>f DEF MatchesProposal, p
  <2>2. ASSUME NEW d \in Calls, d # c, MatchesProposal(d)
        PROVE  MatchesProposal(d)'
    BY <1>c, <1>e, <1>i, <2>2 DEF MatchesProposal
  <2>3. ASSUME NEW d \in Calls, d # c
        PROVE  /\ At(d, "consuming")' => call'[d].at \in Gated /\ MatchesProposal(d)'
               /\ Claiming(d)' => MatchesProposal(d)' /\ proposals'[call'[d].prop].status = "executed"
    BY <1>c, <1>e, <1>h, <1>i, <2>2, <2>3 DEF ClaimsMatch, Claiming, MatchesProposal
  <2> QED BY <1>d, <1>e, <2>1, <2>3 DEF ClaimsMatch
<1>4. ClaimsExclusive'
  BY <1>c, <1>d, <1>h DEF ClaimsExclusive, Claiming
<1>5. ClaimsFresh'
  BY <1>b, <1>c, <1>d, <1>g DEF ClaimsFresh, Claiming
<1>6. RecordedMeansRan'
  BY <1>b, <1>c DEF RecordedMeansRan
<1> QED BY <1>1, <1>2, <1>3, <1>4, <1>5, <1>6

\* The tool runs, on a claim nobody else holds.
LEMMA PerformClaims ==
  ASSUME TypeOK, ClaimInv, NEW c \in Calls, Perform(c)
  PROVE  ClaimInv'
<1> DEFINE p == call[c].prop
<1> USE DEF ClaimInv, At
<1>a. /\ UNCHANGED <<proposals, steps>> /\ Commitments' = Commitments
      /\ \A d \in Calls : d # c => call'[d] = call[d]
      /\ call[c].pc = "performing"
  BY OthersKept DEF Perform, CallAction, CallStep, trajectory, Commitments
<1>b. /\ call'[c].at = call[c].at /\ call'[c].prop = p
      /\ call'[c].version = call[c].version /\ call'[c].payload = call[c].payload
      /\ call'[c].pc \in {"appending", "failing"}
  BY GotoKeeps DEF Perform, TypeOK
<1>c. \A d \in Calls : call[d].prop \in ProposalIds \cup {None}
  BY DEF TypeOK, CallsTyped, CallState
<1>1. CASE call[c].at \notin Gated
  <2>1. UNCHANGED runs /\ \A d \in Calls : Claiming(d)' => d # c /\ Claiming(d)
    BY <1>a, <1>b, <1>1 DEF Perform, Claiming
  <2>2. OneLiveProposal' /\ RunsOnlyExecuted'
    BY <1>a, <2>1 DEF OneLiveProposal, RunsOnlyExecuted
  <2>3. ClaimsMatch'
    BY <1>a, <1>b, <2>1 DEF ClaimsMatch, MatchesProposal
  <2>4. ClaimsExclusive' /\ ClaimsFresh'
    BY <1>a, <2>1 DEF ClaimsExclusive, ClaimsFresh
  <2>5. RecordedMeansRan'
    BY <1>a, <2>1 DEF RecordedMeansRan
  <2> QED BY <2>2, <2>3, <2>4, <2>5
<1>2. CASE call[c].at \in Gated
  <2>a. Claiming(c) /\ MatchesProposal(c) /\ proposals[p].status = "executed"
    BY <1>a, <1>2 DEF Claiming, ClaimsMatch
  <2>b. p \in ProposalIds
    BY <1>c, <2>a DEF MatchesProposal
  <2>c. runs[p] = 0 /\ \A k \in Commitments : steps[k].index \in Gated => steps[k].prop # p
    BY <1>a, <2>a DEF ClaimsFresh
  <2>d. /\ runs' = [runs EXCEPT ![p] = @ + 1]
        /\ runs'[p] = 1 /\ \A q \in ProposalIds : q # p => runs'[q] = runs[q]
    BY <1>2, <2>b, <2>c DEF Perform, TypeOK
  <2>e. \A d \in Calls : Claiming(d)' => Claiming(d) /\ (d # c => call[d].prop # p)
    BY <1>a, <1>b, <1>2, <2>a DEF ClaimsExclusive, Claiming
  <2> HIDE DEF p
  <2>1. OneLiveProposal' /\ RunsOnlyExecuted'
    BY <1>a, <2>a, <2>b, <2>d DEF OneLiveProposal, RunsOnlyExecuted
  <2>2. ClaimsMatch'
    BY <1>a, <1>b, <2>a, <2>e DEF ClaimsMatch, MatchesProposal, p
  <2>3. ClaimsExclusive'
    BY <1>a, <1>b, <2>e DEF ClaimsExclusive, p
  <2>4. ClaimsFresh'
    <3>1. ASSUME NEW d \in Calls, d # c, Claiming(d)'
          PROVE  /\ runs'[call'[d].prop] = IF At(d, "performing")' THEN 0 ELSE 1
                 /\ \A k \in Commitments' : steps'[k].index \in Gated => steps'[k].prop # call'[d].prop
      <4>1. Claiming(d) /\ call[d].prop # p /\ call'[d] = call[d]
        BY <1>a, <2>e, <3>1
      <4>2. call[d].prop \in ProposalIds
        BY <1>c, <4>1 DEF ClaimsMatch, MatchesProposal
      <4> QED BY <1>a, <2>d, <4>1, <4>2 DEF ClaimsFresh
    <3>2. /\ runs'[call'[c].prop] = IF At(c, "performing")' THEN 0 ELSE 1
          /\ \A k \in Commitments' : steps'[k].index \in Gated => steps'[k].prop # call'[c].prop
          \/ ~Claiming(c)'
      BY <1>a, <1>b, <2>c, <2>d DEF Claiming
    <3> QED BY <3>1, <3>2 DEF ClaimsFresh
  <2>5. RecordedMeansRan'
    <3>1. \A k \in Commitments : steps[k].index \in Gated =>
             steps[k].prop # None /\ steps[k].prop # p /\ runs[steps[k].prop] = 1
      BY <2>c DEF RecordedMeansRan
    <3>2. \A k \in Commitments : steps[k].prop \in ProposalIds \cup {None}
      <4>1. steps \in Seq(StepRecord)
        BY DEF TypeOK
      <4>2. \A k \in DOMAIN steps : steps[k] \in StepRecord
        BY <4>1
      <4> QED BY <4>2 DEF Commitments, StepRecord
    <3> QED BY <1>a, <2>d, <3>1, <3>2 DEF RecordedMeansRan
  <2> QED BY <2>1, <2>2, <2>3, <2>4, <2>5
<1> QED BY <1>1, <1>2

\* The commitment is recorded after the run, by the holder of the claim.
LEMMA AppendClaims ==
  ASSUME TypeOK, ClaimInv, NEW c \in Calls, AppendStep(c)
  PROVE  ClaimInv'
<1> DEFINE p == call[c].prop
           i == call[c].at
           n == Len(steps) + 1
<1> USE DEF ClaimInv, At
<1>a. /\ UNCHANGED <<proposals, runs>>
      /\ AddStep("commitment", i, p) /\ steps \in Seq(StepRecord)
      /\ \A d \in Calls : d # c => call'[d] = call[d]
      /\ call[c].pc = "appending"
  BY OthersKept DEF AppendStep, CallAction, CallStep, TypeOK
<1>b. /\ \A k \in Commitments : steps'[k] = steps[k]
      /\ n \notin Commitments
      /\ steps'[n] = [boundary |-> "commitment", index |-> i, prop |-> p]
      /\ Commitments' = Commitments \cup {n}
  <2>1. /\ \A k \in Commitments : steps'[k] = steps[k]
        /\ n \notin Commitments
        /\ steps'[n] = [boundary |-> "commitment", index |-> i, prop |-> p]
        /\ Commitments' = IF "commitment" = "commitment" THEN Commitments \cup {n}
                                                          ELSE Commitments
    BY <1>a, AddStepKeeps
  <2> QED BY <2>1
<1>c. steps'[n].index = i /\ steps'[n].prop = p
  BY <1>b
<1>d. call'[c].pc \in {"finding", "assembling"}
  <2> DEFINE r == [call[c] EXCEPT !.at = i + 1, !.prop = None, !.payload = NoInput,
                     !.pc = IF i + 1 < call[c].upto THEN "finding" ELSE "assembling"]
  <2>1. call[c] \in CallState /\ call'[c] = r
    BY DEF AppendStep, TypeOK, CallsTyped
  <2> QED BY <2>1 DEF CallState
<1>e. \A d \in Calls : call'[d].pc \in ClaimPC => d # c /\ call'[d] = call[d]
  BY <1>a, <1>d DEF ClaimPC
<1>f. i \in Gated =>
        /\ Claiming(c) /\ p # None /\ runs[p] = 1
        /\ \A k \in Commitments : steps[k].index \in Gated => steps[k].prop # p
  BY <1>a DEF Claiming, ClaimsMatch, ClaimsFresh, MatchesProposal
<1> HIDE DEF p, i, n
<1>1. OneLiveProposal' /\ RunsOnlyExecuted'
  BY <1>a DEF OneLiveProposal, RunsOnlyExecuted
<1>2. ClaimsMatch'
  BY <1>a, <1>e DEF ClaimsMatch, MatchesProposal, Claiming, ClaimPC
<1>3. ClaimsExclusive'
  BY <1>e DEF ClaimsExclusive, Claiming, ClaimPC
<1>4. ClaimsFresh'
  <2>1. ASSUME NEW d \in Calls, Claiming(d)'
        PROVE  /\ d # c /\ Claiming(d) /\ call'[d] = call[d]
               /\ i \in Gated => call[d].prop # p
    <3>1. d # c /\ Claiming(d) /\ call'[d] = call[d]
      BY <1>e, <2>1 DEF Claiming, ClaimPC
    <3> QED BY <3>1, <1>f DEF ClaimsExclusive, p
  <2> QED BY <1>a, <1>b, <1>c, <2>1 DEF ClaimsFresh
<1>5. RecordedMeansRan'
  <2>1. ASSUME NEW k \in Commitments', steps'[k].index \in Gated
        PROVE  /\ steps'[k].prop # None /\ runs'[steps'[k].prop] = 1
               /\ \A l \in Commitments' :
                    steps'[l].index \in Gated /\ steps'[l].prop = steps'[k].prop => l = k
    <3>1. CASE k = n
      BY <1>a, <1>b, <1>c, <1>f, <2>1, <3>1
    <3>2. CASE k \in Commitments
      BY <1>a, <1>b, <1>c, <1>f, <2>1, <3>2 DEF RecordedMeansRan
    <3> QED BY <1>b, <3>1, <3>2
  <2> QED BY <2>1 DEF RecordedMeansRan
<1> QED BY <1>1, <1>2, <1>3, <1>4, <1>5

\* A change of proposals that neither makes nor undoes a claim: what is
\* executed stays so, and what a call presents keeps its contents.
LEMMA ProposalFrame ==
  ASSUME TypeOK, ClaimInv, UNCHANGED <<runs, steps>>, NEW q \in ProposalIds,
         \A p \in ProposalIds : p # q => proposals'[p] = proposals[p],
         \/ proposals[q].status = "none"
         \/ /\ proposals[q].status = "proposed" /\ proposals'[q].status # "none"
            /\ proposals'[q].op = proposals[q].op /\ proposals'[q].label = proposals[q].label
            /\ proposals'[q].payload = proposals[q].payload,
         OneLiveProposal',
         \A d \in Calls : call'[d] = call[d] \/ call'[d].pc \notin ClaimPC
  PROVE  ClaimInv'
<1> USE DEF ClaimInv, At, ClaimPC
<1>a. /\ Commitments' = Commitments
      /\ \A d \in Calls : call[d].prop \in ProposalIds \cup {None}
      /\ runs \in [ProposalIds -> Nat]
  BY DEF Commitments, TypeOK, CallsTyped, CallState
<1>b. \A d \in Calls : MatchesProposal(d) /\ call'[d] = call[d] => MatchesProposal(d)'
  BY <1>a DEF MatchesProposal
<1>c. \A d \in Calls : Claiming(d)' => Claiming(d) /\ call'[d] = call[d]
  BY DEF Claiming
<1>1. RunsOnlyExecuted'
  BY <1>a DEF RunsOnlyExecuted
<1>2. ClaimsMatch'
  <2>1. \A d \in Calls : At(d, "consuming")' => call'[d].at \in Gated /\ MatchesProposal(d)'
    BY <1>b DEF ClaimsMatch
  <2>2. \A d \in Calls : Claiming(d) =>
           call[d].prop \in ProposalIds /\ proposals[call[d].prop].status = "executed"
    BY <1>a DEF ClaimsMatch, MatchesProposal
  <2>3. \A d \in Calls : Claiming(d)' =>
           MatchesProposal(d)' /\ proposals'[call'[d].prop].status = "executed"
    BY <1>b, <1>c, <2>2 DEF ClaimsMatch
  <2> QED BY <2>1, <2>3 DEF ClaimsMatch
<1>3. ClaimsExclusive' /\ ClaimsFresh'
  BY <1>a, <1>c DEF ClaimsExclusive, ClaimsFresh
<1>4. RecordedMeansRan'
  BY <1>a DEF RecordedMeansRan
<1> QED BY <1>1, <1>2, <1>3, <1>4

\* A new proposal: its operation had no live one.
LEMMA CreateClaims ==
  ASSUME TypeOK, ClaimInv, NEW c \in Calls, CreateProposal(c), ~UNCHANGED proposals
  PROVE  ClaimInv'
<1>1. PICK p \in ProposalIds :
        /\ proposals[p].status = "none" /\ OfOperation(call[c].at, OneLive) = {}
        /\ proposals' = [proposals EXCEPT ![p] =
             [status |-> "proposed", op |-> call[c].at, label |-> call[c].version,
              payload |-> call[c].input, actor |-> call[c].actor, by |-> None]]
        /\ call' = [call EXCEPT ![c].pc = "recording", ![c].prop = p]
  BY DEF CreateProposal
<1>2. /\ \A q \in ProposalIds : q # p => proposals'[q] = proposals[q]
      /\ proposals'[p].status = "proposed" /\ proposals'[p].op = call[c].at
  BY <1>1 DEF TypeOK
<1>3. OneLiveProposal'
  <2>1. \A q \in ProposalIds : proposals[q].op = call[c].at => proposals[q].status \notin OneLive
    BY <1>1 DEF OfOperation
  <2> QED BY <1>2, <2>1 DEF OneLiveProposal, ClaimInv
<1>4. \A d \in Calls : call'[d] = call[d] \/ call'[d].pc \notin ClaimPC
  <2> DEFINE r == [call[c] EXCEPT !.pc = "recording", !.prop = p]
  <2>1. call[c] \in CallState /\ call'[c] = r
    BY <1>1 DEF TypeOK, CallsTyped
  <2>2. call'[c].pc \notin ClaimPC
    BY <2>1 DEF CallState, ClaimPC
  <2> QED BY <2>2, OthersKept DEF CallAction, CallStep
<1> QED BY <1>1, <1>2, <1>3, <1>4, ProposalFrame DEF CreateProposal, trajectory

\* Superseding an open proposal, or finding it decided.
LEMMA SupersedeClaims ==
  ASSUME TypeOK, ClaimInv, NEW c \in Calls, Supersede(c)
  PROVE  ClaimInv'
<1> DEFINE p == call[c].prop
<1>a. p \in ProposalIds /\ UNCHANGED <<runs, steps>>
  BY DEF Supersede, At, TypeOK, CallsTyped, CallState, WellFormed, trajectory
<1>b. \A d \in Calls : d # c => call'[d] = call[d]
  BY OthersKept DEF CallAction, CallStep
<1>c. call'[c].pc \notin ClaimPC
  <2> DEFINE r == [call[c] EXCEPT !.pc = "creating", !.prop = None]
  <2>1. call[c] \in CallState /\ call'[c] = r
    BY DEF Supersede, TypeOK, CallsTyped
  <2> QED BY <2>1 DEF CallState, ClaimPC
<1>1. CASE proposals[p].status = "proposed"
  <2>1. /\ \A q \in ProposalIds : q # p => proposals'[q] = proposals[q]
        /\ proposals'[p].status = "superseded"
        /\ proposals'[p].op = proposals[p].op /\ proposals'[p].label = proposals[p].label
        /\ proposals'[p].payload = proposals[p].payload
    BY <1>a, <1>1, Decided DEF Supersede, TypeOK
  <2>2. OneLiveProposal'
    BY <1>a, <2>1 DEF OneLiveProposal, OneLive, ClaimInv
  <2> QED BY <1>a, <1>b, <1>c, <1>1, <2>1, <2>2, ProposalFrame
<1>2. CASE proposals[p].status # "proposed"
  <2>1. UNCHANGED proposals /\ Commitments' = Commitments
    BY <1>a, <1>2 DEF Supersede, Commitments
  <2> QED BY <1>a, <1>b, <1>c, <2>1, Frame
<1> QED BY <1>1, <1>2

\* Every action of a call keeps the claims in order.
LEMMA CallClaims ==
  ASSUME TypeOK, ClaimInv, NEW c \in Calls, CallAction(c)
  PROVE  ClaimInv'
<1>1. CASE Quiet(c)
  BY <1>1, QuietClaims
<1>2. CASE (Consume(c) \/ CreateProposal(c)) /\ UNCHANGED proposals
  <2>1. End(c) /\ UNCHANGED <<runs, steps>>
    <3>1. CASE Consume(c)
      <4>1. CASE proposals[call[c].prop].status = "approved"
        <5>1. call[c].prop \in ProposalIds
          BY <3>1 DEF Consume, At, TypeOK, CallsTyped, CallState, WellFormed
        <5>2. proposals'[call[c].prop].status = "executed"
          BY <3>1, <4>1, <5>1, StatusChange DEF Consume, TypeOK
        <5> QED BY <1>2, <4>1, <5>2
      <4> QED BY <3>1, <4>1 DEF Consume, trajectory
    <3>2. CASE CreateProposal(c)
      <4>1. CASE \E p \in ProposalIds :
               /\ proposals[p].status = "none"
               /\ proposals' = [proposals EXCEPT ![p] =
                    [status |-> "proposed", op |-> call[c].at, label |-> call[c].version,
                     payload |-> call[c].input, actor |-> call[c].actor, by |-> None]]
        <5>1. PICK p \in ProposalIds :
               /\ proposals[p].status = "none"
               /\ proposals' = [proposals EXCEPT ![p] =
                    [status |-> "proposed", op |-> call[c].at, label |-> call[c].version,
                     payload |-> call[c].input, actor |-> call[c].actor, by |-> None]]
          BY <4>1
        <5>2. proposals'[p].status = "proposed"
          BY <5>1 DEF TypeOK
        <5> QED BY <1>2, <5>1, <5>2
      <4> QED BY <3>2, <4>1 DEF CreateProposal, trajectory
    <3> QED BY <1>2, <3>1, <3>2
  <2>2. call'[c].pc \notin ClaimPC
    BY <2>1 DEF End, IdleCall, ClaimPC, TypeOK, CallsTyped
  <2>3. Commitments' = Commitments
    BY <2>1 DEF Commitments
  <2> QED BY <1>2, <2>1, <2>2, <2>3, OthersKept, Frame
<1>3. CASE (Consume(c) \/ ConsumeUnanswered(c)) /\ ~UNCHANGED proposals
  BY <1>3, ConsumeClaims
<1>4. CASE CreateProposal(c) /\ ~UNCHANGED proposals
  BY <1>4, CreateClaims
<1>5. CASE ConsumeUnanswered(c) /\ UNCHANGED proposals
  <2>1. call[c].prop \in ProposalIds
    BY <1>5 DEF ConsumeUnanswered, At, TypeOK, CallsTyped, CallState, WellFormed
  <2>2. proposals'[call[c].prop].status = "executed"
    BY <1>5, <2>1, StatusChange DEF ConsumeUnanswered, TypeOK
  <2> QED BY <1>5, <2>2 DEF ConsumeUnanswered
<1>6. CASE Invoke(c)
  BY <1>6, InvokeClaims
<1>7. CASE Perform(c)
  BY <1>7, PerformClaims
<1>8. CASE AppendStep(c)
  BY <1>8, AppendClaims
<1>9. CASE Supersede(c)
  BY <1>9, SupersedeClaims
<1> QED
  BY <1>1, <1>2, <1>3, <1>4, <1>5, <1>6, <1>7, <1>8, <1>9 DEF CallAction, CallStep, Quiet

\* What a decision that takes effect changes.
LEMMA DecideChange ==
  ASSUME TypeOK, NEW d \in Deciders, Decide(d), ~UNCHANGED proposals
  PROVE  /\ dec[d].prop \in ProposalIds /\ dec[d].verdict \in {"approved", "rejected"}
         /\ proposals[dec[d].prop].status = "proposed" /\ dec[d].pc = "deciding"
         /\ \A q \in ProposalIds : q # dec[d].prop => proposals'[q] = proposals[q]
         /\ proposals'[dec[d].prop].status = dec[d].verdict
         /\ proposals'[dec[d].prop].op = proposals[dec[d].prop].op
         /\ proposals'[dec[d].prop].label = proposals[dec[d].prop].label
         /\ proposals'[dec[d].prop].payload = proposals[dec[d].prop].payload
         /\ proposals'[dec[d].prop].actor = proposals[dec[d].prop].actor
         /\ proposals'[dec[d].prop].by = dec[d].by
<1>1. PICK p \in ProposalIds, s \in {"approved", "rejected"} :
        /\ p = dec[d].prop /\ s = dec[d].verdict
        /\ proposals[p].status = "proposed" /\ dec[d].pc = "deciding"
        /\ proposals' = [proposals EXCEPT ![p].status = s, ![p].by = dec[d].by]
  BY DEF Decide, TypeOK, DecidersTyped, DeciderState
<1>2. proposals \in [ProposalIds -> ProposalRecord]
  BY DEF TypeOK
<1>3. /\ \A q \in ProposalIds : q # p => proposals'[q] = proposals[q]
      /\ proposals'[p].status = s
      /\ proposals'[p].op = proposals[p].op /\ proposals'[p].label = proposals[p].label
      /\ proposals'[p].payload = proposals[p].payload
      /\ proposals'[p].actor = proposals[p].actor /\ proposals'[p].by = dec[d].by
  <2> DEFINE r == [proposals[p] EXCEPT !.status = s, !.by = dec[d].by]
  <2>1. proposals'[p] = r /\ \A q \in ProposalIds : q # p => proposals'[q] = proposals[q]
    BY <1>1, <1>2
  <2>2. proposals[p] \in ProposalRecord
    BY <1>2
  <2> QED BY <2>1, <2>2 DEF ProposalRecord
<1> QED BY <1>1, <1>3

\* Every action of a decision does too.
LEMMA DecisionClaims ==
  ASSUME TypeOK, ClaimInv, NEW d \in Deciders, DeciderAction(d)
  PROVE  ClaimInv'
<1>a. UNCHANGED <<call, runs>>
  BY Apart
<1>1. CASE Decide(d) /\ ~UNCHANGED proposals
  <2> DEFINE p == dec[d].prop
  <2>1. p \in ProposalIds /\ proposals[p].status = "proposed" /\ UNCHANGED steps
    BY <1>1, DecideChange DEF Decide, trajectory
  <2>2. /\ \A q \in ProposalIds : q # p => proposals'[q] = proposals[q]
        /\ proposals'[p].status \in {"approved", "rejected"}
        /\ proposals'[p].op = proposals[p].op /\ proposals'[p].label = proposals[p].label
        /\ proposals'[p].payload = proposals[p].payload
    BY <1>1, DecideChange
  <2> HIDE DEF p
  <2>3. OneLiveProposal'
    <3>1. OneLiveProposal
      BY DEF ClaimInv
    <3>2. \A q \in ProposalIds :
            /\ proposals'[q].op = proposals[q].op
            /\ proposals'[q].status \in OneLive => proposals[q].status \in OneLive
      BY <2>1, <2>2 DEF OneLive
    <3> QED BY <3>1, <3>2 DEF OneLiveProposal
  <2>4. proposals'[p].status # "none" /\ \A c \in Calls : call'[c] = call[c]
    BY <1>a, <2>1, <2>2
  <2> QED BY <1>a, <2>1, <2>2, <2>3, <2>4, ProposalFrame
<1>2. CASE RecordRejection(d)
  <2>1. AddStep("cognition", 0, dec[d].prop) /\ steps \in Seq(StepRecord)
    BY <1>2 DEF RecordRejection, TypeOK
  <2>2. /\ \A k \in Commitments : steps'[k] = steps[k]
        /\ Commitments' = IF "cognition" = "commitment" THEN Commitments \cup {Len(steps) + 1}
                                                        ELSE Commitments
    BY <2>1, AddStepKeeps
  <2>3. "cognition" # "commitment"
    OBVIOUS
  <2> QED BY <1>2, <1>a, <2>2, <2>3, Frame DEF RecordRejection
<1>3. CASE UNCHANGED <<proposals, steps>>
  <2>1. Commitments' = Commitments
    BY <1>3 DEF Commitments
  <2> QED BY <1>a, <1>3, <2>1, Frame
<1> QED BY <1>1, <1>2, <1>3 DEF DeciderAction, DeciderStep, Review, Decide, LoadTrajectory,
     Release, FailRejected, CrashDecision, UpdateStatus, trajectory

\* A call never makes a proposal approved, and never changes who made it or who
\* decided it while it is.
LEMMA CallKeepsDecisions ==
  ASSUME TypeOK, NEW c \in Calls, CallAction(c), NEW p \in ProposalIds
  PROVE  /\ proposals[p].status # "none" =>
              proposals'[p].status # "none" /\ proposals'[p].actor = proposals[p].actor
         /\ proposals'[p].status \in {"approved", "executed"} =>
              /\ proposals[p].status \in {"approved", "executed"}
              /\ proposals'[p].actor = proposals[p].actor /\ proposals'[p].by = proposals[p].by
<1>1. CASE UNCHANGED proposals
  BY <1>1
<1>2. CASE (Consume(c) \/ ConsumeUnanswered(c)) /\ ~UNCHANGED proposals
  <2>1. /\ call[c].prop \in ProposalIds /\ proposals[call[c].prop].status = "approved"
        /\ proposals' = [proposals EXCEPT ![call[c].prop].status = "executed"]
    BY <1>2 DEF Consume, ConsumeUnanswered, At, TypeOK, CallsTyped, CallState, WellFormed
  <2> QED BY <2>1, StatusChange DEF TypeOK
<1>3. CASE CreateProposal(c) /\ ~UNCHANGED proposals
  BY <1>3 DEF CreateProposal, TypeOK
<1>4. CASE Supersede(c) /\ ~UNCHANGED proposals
  <2> DEFINE q == call[c].prop
  <2>1. /\ q \in ProposalIds /\ proposals[q].status = "proposed"
        /\ proposals' = [proposals EXCEPT ![q].status = "superseded", ![q].by = call[c].actor]
    BY <1>4 DEF Supersede, At, TypeOK, CallsTyped, CallState, WellFormed
  <2>2. /\ \A r \in ProposalIds : r # q => proposals'[r] = proposals[r]
        /\ proposals'[q].status = "superseded" /\ proposals'[q].actor = proposals[q].actor
    BY <2>1, Decided DEF TypeOK
  <2> QED BY <2>1, <2>2
<1>5. CASE Quiet(c) \/ Invoke(c) \/ Perform(c) \/ AppendStep(c)
  BY <1>1, <1>5 DEF Quiet, Start, Continue, Revise, ResumeRead, ResumeCheck, ResumeOpen,
     FindApproval, RefuseInput, OverBudget, AppendFails, FailTrajectory, PauseOverBudget,
     CheckSteps, CheckUsed, ProposeOnce, RecordProposal, PauseProposal, PauseHold, Assemble,
     CrashCall, Invoke, Perform, AppendStep
<1> QED BY <1>1, <1>2, <1>3, <1>4, <1>5 DEF CallAction, CallStep, Quiet

\* Either way of being allowed to approve shows that another party decides.
LEMMA MayDecideIndependently ==
  ASSUME NEW p \in ProposalIds, NEW by \in Approvers,
         OwnerMayDecide(p, by, "approved") \/ AdminMayDecide(p, by, "approved")
  PROVE  Independent(proposals[p].actor, by)
<1>1. CASE OwnerMayDecide(p, by, "approved")
  BY <1>1 DEF OwnerMayDecide, Independent
<1>2. CASE AdminMayDecide(p, by, "approved")
  <2>1. Id[by].kind = "user" /\ Id[by].user = Id[by].actor
    BY <1>2, IdentityAssumption DEF AdminMayDecide
  <2> QED BY <1>2, <2>1 DEF AdminMayDecide, Independent, SameAgent, PrincipalOf
<1> QED BY <1>1, <1>2

LEMMA CallApprovals ==
  ASSUME TypeOK, ApprovalsIndependent, NEW c \in Calls, CallAction(c)
  PROVE  ApprovalsIndependent'
<1>1. UNCHANGED dec
  BY Apart
<1>2. \A d \in Deciders : dec[d].pc = "deciding" => dec[d].prop \in ProposalIds
  BY DEF TypeOK, DecidersTyped, DeciderState
<1> QED BY <1>1, <1>2, CallKeepsDecisions DEF ApprovalsIndependent, ApprovedIndependently

LEMMA DecisionApprovals ==
  ASSUME TypeOK, ApprovalsIndependent, NEW d \in Deciders, DeciderAction(d)
  PROVE  ApprovalsIndependent'
<1>a. dec \in [Deciders -> DeciderState] /\ IdleDecider.pc = "idle"
  BY DEF TypeOK, DecidersTyped, IdleDecider
<1>1. CASE Review(d)
  <2>1. PICK by \in Approvers, p \in ProposalIds, verdict \in {"approved", "rejected"} :
          /\ proposals[p].status # "none"
          /\ OwnerMayDecide(p, by, verdict) \/ AdminMayDecide(p, by, verdict)
          /\ dec' = [dec EXCEPT ![d] =
                       [pc |-> "deciding", prop |-> p, verdict |-> verdict, by |-> by]]
    BY <1>1 DEF Review
  <2>2. verdict = "approved" => Independent(proposals[p].actor, by)
    BY <2>1, MayDecideIndependently
  <2>3. /\ dec'[d] = [pc |-> "deciding", prop |-> p, verdict |-> verdict, by |-> by]
        /\ \A e \in Deciders : e # d => dec'[e] = dec[e]
    BY <1>a, <2>1
  <2>4. UNCHANGED proposals
    BY <1>1 DEF Review
  <2> QED BY <2>1, <2>2, <2>3, <2>4 DEF ApprovalsIndependent, ApprovedIndependently
<1>b. ~Review(d) => \A e \in Deciders : dec'[e].pc = "deciding" => dec'[e] = dec[e]
  <2>1. \A w : w # "deciding" /\ ThenDecider(d, w) => dec'[d].pc # "deciding"
    <3> SUFFICES ASSUME NEW w, w # "deciding", ThenDecider(d, w) PROVE dec'[d].pc # "deciding"
      OBVIOUS
    <3> DEFINE r == [dec[d] EXCEPT !.pc = w]
    <3>1. r.pc = w
      BY <1>a DEF DeciderState
    <3> QED BY <1>a, <3>1 DEF ThenDecider
  <2>2. EndDecision(d) => dec'[d].pc # "deciding"
    BY <1>a DEF EndDecision
  <2>3. /\ \A w : ThenDecider(d, w) => \A e \in Deciders : e # d => dec'[e] = dec[e]
        /\ EndDecision(d) => \A e \in Deciders : e # d => dec'[e] = dec[e]
    BY <1>a DEF ThenDecider, EndDecision
  <2>4. CASE Decide(d)
    BY <2>1, <2>2, <2>3, <2>4 DEF Decide
  <2>5. CASE LoadTrajectory(d) \/ Release(d) \/ RecordRejection(d) \/ FailRejected(d)
             \/ CrashDecision(d)
    BY <2>1, <2>2, <2>3, <2>5 DEF LoadTrajectory, Release, RecordRejection, FailRejected,
       CrashDecision
  <2> QED BY <2>4, <2>5 DEF DeciderAction, DeciderStep
<1>2. CASE Decide(d) /\ ~UNCHANGED proposals
  <2> DEFINE p == dec[d].prop
  <2>1. p \in ProposalIds /\ proposals[p].status = "proposed" /\ dec[d].pc = "deciding"
    BY <1>2, DecideChange
  <2>2. /\ \A q \in ProposalIds : q # p => proposals'[q] = proposals[q]
        /\ proposals'[p].status = dec[d].verdict /\ dec[d].verdict \in {"approved", "rejected"}
        /\ proposals'[p].actor = proposals[p].actor /\ proposals'[p].by = dec[d].by
    BY <1>2, DecideChange
  <2>3. ~Review(d)
    BY <2>1 DEF Review
  <2>4. \A e \in Deciders : dec[e].pc = "deciding" => dec[e].prop \in ProposalIds
    BY DEF TypeOK, DecidersTyped, DeciderState
  <2>5. \A q \in ProposalIds : proposals'[q].status \in {"approved", "executed"}
                                 => ApprovedIndependently(q)'
    BY <2>1, <2>2 DEF ApprovalsIndependent, ApprovedIndependently
  <2>6. \A q \in ProposalIds : proposals[q].status # "none" =>
           proposals'[q].status # "none" /\ proposals'[q].actor = proposals[q].actor
    BY <2>1, <2>2
  <2> HIDE DEF p
  <2> QED BY <1>b, <2>3, <2>4, <2>5, <2>6 DEF ApprovalsIndependent
<1>3. CASE UNCHANGED proposals /\ ~Review(d)
  BY <1>b, <1>3 DEF ApprovalsIndependent, ApprovedIndependently
<1> QED BY <1>1, <1>2, <1>3 DEF DeciderAction, DeciderStep, LoadTrajectory, Release,
     RecordRejection, FailRejected, CrashDecision

LEMMA InitSafe == Init => IInv
<1> SUFFICES ASSUME Init PROVE IInv
  OBVIOUS
<1>1. TypeOK
  BY InitTyped
<1>2. /\ \A p \in ProposalIds : proposals[p].status = "none" /\ runs[p] = 0
      /\ \A c \in Calls : call[c].pc = "idle"
      /\ \A d \in Deciders : dec[d].pc = "idle"
      /\ Commitments = {}
  BY DEF Init, NoProposal, IdleCall, IdleDecider, Commitments
<1>3. OneLiveProposal /\ RunsOnlyExecuted
  BY <1>2 DEF OneLiveProposal, OneLive, RunsOnlyExecuted
<1>4. ClaimsMatch /\ ClaimsExclusive /\ ClaimsFresh
  BY <1>2 DEF ClaimsMatch, ClaimsExclusive, ClaimsFresh, Claiming, At
<1>5. ApprovalsIndependent /\ RecordedMeansRan
  BY <1>2 DEF ApprovalsIndependent, RecordedMeansRan
<1> QED BY <1>1, <1>3, <1>4, <1>5 DEF IInv

\* The inductive invariant holds throughout: claims are exclusive, match what
\* was approved, and approvals are another party's.
THEOREM Inductive == Spec => []IInv
<1>1. IInv /\ [Next]_vars => IInv'
  <2> SUFFICES ASSUME IInv, [Next]_vars PROVE IInv'
    OBVIOUS
  <2>1. CASE UNCHANGED vars
    BY <2>1 DEF vars, IInv, TypeOK, CallsTyped, DecidersTyped, OneLiveProposal, RunsOnlyExecuted,
       ClaimsMatch, MatchesProposal, ClaimsExclusive, ClaimsFresh, Claiming, At, Commitments,
       ApprovalsIndependent, ApprovedIndependently, RecordedMeansRan
  <2>2. CASE Next
    <3>a. TypeOK /\ ClaimInv /\ ApprovalsIndependent
      BY DEF IInv, ClaimInv
    <3>1. TypeOK'
      <4>1. CallsTyped' /\ DecidersTyped'
        BY <2>2, <3>a, CallStepTyped, DeciderStepTyped, Apart DEF Next, TypeOK, CallsTyped, DecidersTyped
      <4> QED BY <2>2, <3>a, <4>1, StoresTyped DEF TypeOK
    <3>2. ClaimInv'
      BY <2>2, <3>a, CallClaims, DecisionClaims DEF Next
    <3>3. ApprovalsIndependent'
      BY <2>2, <3>a, CallApprovals, DecisionApprovals DEF Next
    <3> QED BY <3>1, <3>2, <3>3 DEF IInv, ClaimInv
  <2> QED BY <2>1, <2>2
<1> QED BY InitSafe, <1>1, PTL DEF Spec

\* A gated step's tool runs at most once in the life of its trajectory.
THEOREM RunOnce == Spec => []AtMostOneRun
<1>1. IInv => AtMostOneRun
  BY DEF IInv, OneLiveProposal, OneLive, RunsOnlyExecuted, AtMostOneRun
<1> QED BY Inductive, <1>1, PTL

\* What runs on an approval is what another party approved.
THEOREM RunsApproved == Spec => []RunsWhatWasApproved
<1>1. IInv => RunsWhatWasApproved
  <2> SUFFICES ASSUME IInv, NEW c \in Calls, At(c, "performing"), call[c].at \in Gated
               PROVE  /\ MatchesProposal(c) /\ proposals[call[c].prop].status = "executed"
                      /\ ApprovedIndependently(call[c].prop)
    BY DEF RunsWhatWasApproved, MatchesProposal
  <2>1. MatchesProposal(c) /\ proposals[call[c].prop].status = "executed"
    BY DEF IInv, ClaimsMatch, Claiming, At
  <2>2. call[c].prop \in ProposalIds
    BY <2>1 DEF MatchesProposal, IInv, TypeOK, CallsTyped, CallState
  <2> QED BY <2>1, <2>2 DEF IInv, ApprovalsIndependent
<1> QED BY Inductive, <1>1, PTL

\* A gated commitment is recorded only after its one run.
THEOREM RecordedRan == Spec => []RecordedMeansRan
<1>1. IInv => RecordedMeansRan
  BY DEF IInv
<1> QED BY Inductive, <1>1, PTL

-----------------------------------------------------------------------------
(* Refinement: every step is a step of the proposals' life cycle, or none.   *)

\* The abstract state, as INSTANCE ApprovalLifecycle maps it.
Phase == [p \in ProposalIds |-> proposals[p].status]
Op == [p \in ProposalIds |-> proposals[p].op]

\* A change of one proposal's status is that change of the abstract phase.
LEMMA PhaseChange ==
  ASSUME NEW p \in ProposalIds, NEW s,
         \A q \in ProposalIds : q # p => proposals'[q] = proposals[q],
         proposals'[p].status = s, proposals'[p].op = proposals[p].op
  PROVE  Phase' = [Phase EXCEPT ![p] = s] /\ Op' = Op
  BY DEF Phase, Op

\* An approval, a rejection or a revision decides an open proposal.
LEMMA StepDecides ==
  ASSUME UNCHANGED runs, NEW p \in ProposalIds,
         NEW s \in {"approved", "rejected", "superseded"},
         proposals[p].status = "proposed",
         \A q \in ProposalIds : q # p => proposals'[q] = proposals[q],
         proposals'[p].status = s, proposals'[p].op = proposals[p].op
  PROVE  Lifecycle!Next
<1>1. Phase' = [Phase EXCEPT ![p] = s] /\ Op' = Op /\ Phase[p] = "proposed"
  BY PhaseChange DEF Phase
<1>2. Lifecycle!Decide(p, s)
  BY <1>1 DEF Lifecycle!Decide, Phase, Op
<1> QED BY <1>2 DEF Lifecycle!Next

\* A step that touches neither proposals nor runs is a stutter.
LEMMA StepStutters ==
  ASSUME UNCHANGED <<proposals, runs>>
  PROVE  UNCHANGED Lifecycle!vars
  BY DEF Lifecycle!vars

\* What a call's step is, seen from the life cycle.
LEMMA CallImplements ==
  ASSUME IInv, NEW c \in Calls, CallAction(c)
  PROVE  Lifecycle!Next \/ UNCHANGED Lifecycle!vars
<1>a. TypeOK /\ ClaimInv
  BY DEF IInv, ClaimInv
<1>b. call[c] \in CallState /\ WellFormed(call[c]) /\ call[c].prop \in ProposalIds \cup {None}
  BY <1>a DEF TypeOK, CallsTyped, CallState
<1>1. CASE UNCHANGED <<proposals, runs>>
  BY <1>1, StepStutters
<1>2. CASE (Consume(c) \/ ConsumeUnanswered(c)) /\ ~UNCHANGED proposals
  <2>1. PICK p \in ProposalIds :
          /\ p = call[c].prop /\ proposals[p].status = "approved" /\ UNCHANGED runs
          /\ proposals' = [proposals EXCEPT ![p].status = "executed"]
    BY <1>2, <1>b DEF Consume, ConsumeUnanswered, At, WellFormed
  <2>2. /\ \A q \in ProposalIds : q # p => proposals'[q] = proposals[q]
        /\ proposals'[p].status = "executed" /\ proposals'[p].op = proposals[p].op
    BY <1>a, <2>1, StatusChange DEF TypeOK
  <2>3. Phase' = [Phase EXCEPT ![p] = "executed"] /\ Op' = Op /\ Phase[p] = "approved"
    BY <2>1, <2>2, PhaseChange DEF Phase
  <2>4. Lifecycle!Claim(p)
    BY <2>1, <2>3 DEF Lifecycle!Claim, Phase, Op
  <2> QED BY <2>4 DEF Lifecycle!Next
<1>3. CASE CreateProposal(c) /\ ~UNCHANGED proposals
  <2>a. PICK i \in StepIdx : i = call[c].at
    BY <1>3, <1>b DEF CreateProposal, At, WellFormed
  <2>1. PICK p \in ProposalIds :
          /\ proposals[p].status = "none" /\ OfOperation(i, OneLive) = {}
          /\ proposals' = [proposals EXCEPT ![p] =
               [status |-> "proposed", op |-> i, label |-> call[c].version,
                payload |-> call[c].input, actor |-> call[c].actor, by |-> None]]
          /\ UNCHANGED runs
    BY <1>3, <2>a DEF CreateProposal
  <2>2. /\ \A q \in ProposalIds : q # p => proposals'[q] = proposals[q]
        /\ proposals'[p].status = "proposed" /\ proposals'[p].op = i
    BY <1>a, <2>1 DEF TypeOK
  <2>3. Phase' = [Phase EXCEPT ![p] = "proposed"] /\ Op' = [Op EXCEPT ![p] = i]
    BY <2>2 DEF Phase, Op
  <2>4. Phase[p] = "none" /\ \A q \in ProposalIds : Op[q] = i => Phase[q] \notin OneLive
    BY <2>1 DEF Phase, Op, OfOperation
  <2>5. Lifecycle!Propose(p, i)
    BY <2>1, <2>3, <2>4 DEF Lifecycle!Propose, Lifecycle!Live, OneLive, Phase, Op
  <2> QED BY <2>5 DEF Lifecycle!Next
<1>4. CASE Supersede(c) /\ ~UNCHANGED proposals
  <2>1. PICK p \in ProposalIds :
          /\ p = call[c].prop /\ proposals[p].status = "proposed" /\ UNCHANGED runs
          /\ proposals' = [proposals EXCEPT ![p].status = "superseded", ![p].by = call[c].actor]
    BY <1>4, <1>b DEF Supersede, At, WellFormed
  <2>2. /\ \A q \in ProposalIds : q # p => proposals'[q] = proposals[q]
        /\ proposals'[p].status = "superseded" /\ proposals'[p].op = proposals[p].op
    BY <1>a, <2>1, Decided DEF TypeOK
  <2> QED BY <2>1, <2>2, StepDecides
<1>5. CASE Perform(c) /\ call[c].at \in Gated
  <2>1. /\ Claiming(c) /\ proposals[call[c].prop].status = "executed"
        /\ call[c].prop \in ProposalIds /\ runs[call[c].prop] = 0
    BY <1>5, <1>a, <1>b
       DEF Perform, At, Claiming, ClaimInv, ClaimsMatch, ClaimsFresh, MatchesProposal
  <2>2. /\ UNCHANGED proposals
        /\ runs' = [runs EXCEPT ![call[c].prop] = 1]
    BY <1>5, <2>1 DEF Perform
  <2>3. Lifecycle!Run(call[c].prop)
    BY <2>1, <2>2 DEF Lifecycle!Run
  <2> QED BY <2>1, <2>3 DEF Lifecycle!Next
<1>6. CASE Quiet(c)
  BY <1>6, <1>a, QuietClaims, StepStutters
<1>7. CASE Invoke(c) \/ AppendStep(c) \/ (Perform(c) /\ call[c].at \notin Gated)
  BY <1>1, <1>7 DEF Invoke, AppendStep, Perform
<1>8. CASE (Consume(c) \/ ConsumeUnanswered(c) \/ CreateProposal(c) \/ Supersede(c))
           /\ UNCHANGED proposals
  BY <1>1, <1>8 DEF Consume, ConsumeUnanswered, CreateProposal, Supersede
<1> QED
  BY <1>2, <1>3, <1>4, <1>5, <1>6, <1>7, <1>8 DEF CallAction, CallStep, Quiet

\* The calls and the decisions implement the life cycle of proposals, whatever
\* their interleaving.
THEOREM Implements == Spec => ImplementsLifecycle
<1>1. Init => Lifecycle!Init
  BY WorkflowAssumption DEF Init, Lifecycle!Init, NoProposal, StepIdx
<1>2. IInv /\ [Next]_vars => [Lifecycle!Next]_(Lifecycle!vars)
  <2> SUFFICES ASSUME IInv, [Next]_vars PROVE Lifecycle!Next \/ UNCHANGED Lifecycle!vars
    OBVIOUS
  <2>1. CASE UNCHANGED vars
    BY <2>1, StepStutters DEF vars
  <2>2. ASSUME NEW d \in Deciders, DeciderAction(d)
        PROVE  Lifecycle!Next \/ UNCHANGED Lifecycle!vars
    <3>1. UNCHANGED runs
      BY <2>2, Apart
    <3>2. CASE Decide(d) /\ ~UNCHANGED proposals
      <4>1. TypeOK
        BY DEF IInv
      <4> QED BY <3>1, <3>2, <4>1, DecideChange, StepDecides
    <3>3. CASE UNCHANGED proposals
      BY <3>1, <3>3, StepStutters
    <3> QED BY <2>2, <3>2, <3>3 DEF DeciderAction, DeciderStep, Review, LoadTrajectory, Release,
         RecordRejection, FailRejected, CrashDecision
  <2> QED BY <2>1, <2>2, CallImplements DEF Next
<1> QED BY <1>1, <1>2, Inductive, PTL DEF Spec, ImplementsLifecycle, Lifecycle!Spec

-----------------------------------------------------------------------------
(* Owners, and the order of the steps *)

\* What a step of call c does to its record, as far as its actor and its place go.
RecordMoves(c) ==
  /\ call'[c].pc # "idle" =>
       \/ ScopeOf(call'[c].actor) = scope'
       \/ call[c].pc # "idle" /\ call'[c].actor = call[c].actor
       \/ \E p \in ProposalIds :
            proposals[p].status # "none" /\ call'[c].actor = proposals[p].actor
  /\ call'[c].pc \in Working =>
       \/ call'[c].at = CommitmentCount
       \/ call[c].pc \in Working /\ call'[c].at = call[c].at

LEMMA GotoMoves ==
  ASSUME CallsTyped, NEW c \in Calls, NEW w, Goto(c, w), call[c].pc # "idle",
         w \in Working => call[c].pc \in Working
  PROVE  RecordMoves(c)
<1> DEFINE r == [call[c] EXCEPT !.pc = w]
<1>1. call[c] \in CallState
  BY DEF CallsTyped
<1>2. r.pc = w /\ r.at = call[c].at /\ r.actor = call[c].actor
  BY <1>1 DEF CallState
<1>3. call'[c] = r
  BY DEF Goto, CallsTyped
<1> QED BY <1>2, <1>3 DEF RecordMoves

LEMMA EndMoves ==
  ASSUME CallsTyped, NEW c \in Calls, End(c) PROVE RecordMoves(c)
<1>1. call'[c].pc = "idle"
  BY DEF End, CallsTyped, IdleCall
<1> QED BY <1>1 DEF RecordMoves, Working

LEMMA EnterMoves ==
  ASSUME CallsTyped, NEW c \in Calls, NEW a, NEW x, NEW v, NEW whole, NEW via,
         Enter(c, a, x, v, CommitmentCount, whole, via), ScopeOf(a) = scope'
  PROVE  RecordMoves(c)
<1> DEFINE from == CommitmentCount
           r == [IdleCall EXCEPT !.pc = IF from < NumSteps THEN "finding" ELSE "assembling",
                   !.actor = a, !.input = x, !.version = v, !.at = from,
                   !.upto = IF whole \/ from >= NumSteps THEN NumSteps ELSE from + 1,
                   !.via = via]
<1>1. r.pc # "idle" /\ r.actor = a /\ r.at = from
  BY DEF IdleCall
<1>2. call'[c] = r
  BY DEF Enter, CallsTyped
<1> QED BY <1>1, <1>2 DEF RecordMoves

\* Every step of a call but the first, which creates the trajectory, and the recording of a
\* commitment.
LEMMA CallMoves ==
  ASSUME TypeOK, NEW c \in Calls, CallAction(c), ~Start(c), ~AppendStep(c)
  PROVE  RecordMoves(c)
<1> USE DEF At
<1>a. CallsTyped /\ call \in [Calls -> CallState] /\ call[c] \in CallState
  BY DEF TypeOK, CallsTyped
<1>1. CASE Continue(c) \/ ResumeOpen(c)
  <2>1. scope' = scope
    BY <1>1 DEF Continue, ResumeOpen, trajectory
  <2> QED BY <1>a, <1>1, <2>1, EnterMoves, EndMoves DEF Continue, ResumeOpen, MayContinue
<1>2. CASE Revise(c)
  <2>1. PICK a \in Revisers, x \in Inputs, v \in Versions, i \in StepIdx,
             pc \in {"creating", "superseding"}, p \in ProposalIds \cup {None} :
          scope = ScopeOf(a) /\ call' = [call EXCEPT ![c] = Revising(a, x, v, i, pc, p)]
    BY <1>2 DEF Revise, OfOperation
  <2>2. Revising(a, x, v, i, pc, p).pc = pc /\ Revising(a, x, v, i, pc, p).actor = a
    BY DEF Revising, IdleCall
  <2>3. scope' = scope /\ call'[c].pc = pc /\ call'[c].actor = a
    BY <1>2, <1>a, <2>1, <2>2 DEF Revise, trajectory
  <2> QED BY <2>1, <2>3 DEF RecordMoves, Working
<1>3. CASE \E p \in ProposalIds : ResumeRead(c, p)
  <2>1. PICK p \in ProposalIds, v \in Versions :
          /\ proposals[p].status = "approved"
          /\ call' = [call EXCEPT ![c] = [IdleCall EXCEPT !.pc = "reading", !.version = v,
                                            !.actor = proposals[p].actor, !.via = p]]
    BY <1>3 DEF ResumeRead
  <2>2. call'[c].pc = "reading" /\ call'[c].actor = proposals[p].actor
    BY <1>a, <2>1 DEF IdleCall
  <2> QED BY <2>1, <2>2 DEF RecordMoves, Working
<1>4. CASE FindApproval(c)
  <2>1. CASE Goto(c, "failing")
    BY <1>a, <1>4, <2>1, GotoMoves DEF FindApproval, Working
  <2>2. ASSUME NEW p, NEW x,
               call' = [call EXCEPT ![c].pc = "invoking", ![c].prop = p, ![c].payload = x]
        PROVE  RecordMoves(c)
    <3>1. /\ call'[c].actor = call[c].actor /\ call'[c].at = call[c].at
          /\ call[c].pc = "finding"
      BY <1>a, <1>4, <2>2 DEF FindApproval, CallState
    <3> QED BY <3>1 DEF RecordMoves, Working
  <2> QED BY <1>4, <2>1, <2>2 DEF FindApproval
<1>5. CASE CreateProposal(c)
  <2>1. ASSUME NEW p, call' = [call EXCEPT ![c].pc = "recording", ![c].prop = p]
        PROVE  RecordMoves(c)
    <3>1. /\ call'[c].actor = call[c].actor /\ call'[c].pc = "recording"
          /\ call[c].pc = "creating"
      BY <1>a, <1>5, <2>1 DEF CreateProposal, CallState
    <3> QED BY <3>1 DEF RecordMoves, Working
  <2> QED BY <1>a, <1>5, <2>1, EndMoves DEF CreateProposal
<1>6. CASE Supersede(c)
  <2>1. /\ call'[c].actor = call[c].actor /\ call'[c].pc = "creating"
        /\ call[c].pc = "superseding"
    BY <1>a, <1>6 DEF Supersede, CallState
  <2> QED BY <2>1 DEF RecordMoves, Working
<1>7. CASE ResumeCheck(c) \/ RefuseInput(c) \/ Invoke(c) \/ OverBudget(c)
  BY <1>a, <1>7, GotoMoves, EndMoves DEF ResumeCheck, RefuseInput, Invoke, OverBudget, Working
<1>8. CASE Consume(c) \/ ConsumeUnanswered(c) \/ Perform(c) \/ AppendFails(c)
  BY <1>a, <1>8, GotoMoves, EndMoves
  DEF Consume, ConsumeUnanswered, Perform, AppendFails, Working
<1>9. CASE FailTrajectory(c) \/ PauseOverBudget(c) \/ PauseHold(c) \/ Assemble(c) \/ CrashCall(c)
  BY <1>a, <1>9, EndMoves DEF FailTrajectory, PauseOverBudget, PauseHold, Assemble, CrashCall
<1>10. CASE CheckSteps(c) \/ CheckUsed(c) \/ ProposeOnce(c) \/ RecordProposal(c) \/ PauseProposal(c)
  BY <1>a, <1>10, GotoMoves, EndMoves
  DEF CheckSteps, CheckUsed, ProposeOnce, RecordProposal, PauseProposal, Working
<1> QED BY <1>1, <1>2, <1>3, <1>4, <1>5, <1>6, <1>7, <1>8, <1>9, <1>10 DEF CallAction, CallStep

\* A proposal is only ever new or what it was, and a claim is for good.
ProposalsGrow(actor) ==
  \A p \in ProposalIds :
    \/ /\ proposals'[p].op = proposals[p].op /\ proposals'[p].actor = proposals[p].actor
       /\ proposals[p].status = "executed" => proposals'[p].status = "executed"
       /\ proposals[p].status = "none" => proposals'[p].status = "none"
    \/ proposals[p].status = "none" /\ proposals'[p].actor = actor

LEMMA CallProposals ==
  ASSUME TypeOK, NEW c \in Calls, CallAction(c)
  PROVE  ProposalsGrow(call[c].actor)
<1>a. proposals \in [ProposalIds -> ProposalRecord] /\ call[c] \in CallState
  BY DEF TypeOK, CallsTyped
<1>b. \A p \in ProposalIds : proposals[p] \in ProposalRecord
  BY <1>a
<1>1. CASE UNCHANGED proposals
  BY <1>1 DEF ProposalsGrow
<1>2. CASE Consume(c) \/ ConsumeUnanswered(c)
  <2>1. CASE /\ proposals[call[c].prop].status = "approved"
             /\ proposals' = [proposals EXCEPT ![call[c].prop].status = "executed"]
    BY <1>a, <1>b, <2>1 DEF ProposalsGrow, ProposalRecord
  <2> QED BY <1>1, <1>2, <2>1 DEF Consume, ConsumeUnanswered
<1>3. CASE Supersede(c)
  <2>1. CASE /\ proposals[call[c].prop].status = "proposed"
             /\ proposals' = [proposals EXCEPT ![call[c].prop].status = "superseded",
                                               ![call[c].prop].by = call[c].actor]
    BY <1>a, <1>b, <2>1 DEF ProposalsGrow, ProposalRecord
  <2> QED BY <1>1, <1>3, <2>1 DEF Supersede
<1>4. CASE CreateProposal(c)
  <2>1. ASSUME NEW p \in ProposalIds, proposals[p].status = "none",
               NEW new, new.actor = call[c].actor, proposals' = [proposals EXCEPT ![p] = new]
        PROVE  ProposalsGrow(call[c].actor)
    BY <1>a, <2>1 DEF ProposalsGrow
  <2> QED BY <1>1, <1>4, <2>1 DEF CreateProposal
<1>5. UNCHANGED proposals \/ Consume(c) \/ ConsumeUnanswered(c) \/ Supersede(c) \/ CreateProposal(c)
  BY DEF CallAction, CallStep, Start, Continue, Revise, ResumeRead, ResumeCheck, ResumeOpen,
     FindApproval, RefuseInput, Invoke, OverBudget, Perform, AppendStep, AppendFails,
     FailTrajectory, PauseOverBudget, CheckSteps, CheckUsed, ProposeOnce, RecordProposal,
     PauseProposal, PauseHold, Assemble, CrashCall
<1> QED BY <1>1, <1>2, <1>3, <1>4, <1>5

LEMMA DeciderProposals ==
  ASSUME TypeOK, NEW d \in Deciders, DeciderAction(d)
  PROVE  ProposalsGrow(None) /\ \A p \in ProposalIds : proposals[p].status = "none" =>
                                  proposals'[p] = proposals[p]
<1>a. \A p \in ProposalIds : proposals[p] \in ProposalRecord
  BY DEF TypeOK
<1>1. CASE UNCHANGED proposals
  BY <1>1 DEF ProposalsGrow
<1>2. CASE Decide(d)
  <2>1. CASE /\ proposals[dec[d].prop].status = "proposed"
             /\ proposals' = [proposals EXCEPT ![dec[d].prop].status = dec[d].verdict,
                                               ![dec[d].prop].by = dec[d].by]
    BY <1>a, <2>1 DEF ProposalsGrow, ProposalRecord, TypeOK
  <2> QED BY <1>1, <1>2, <2>1 DEF Decide
<1>3. UNCHANGED proposals \/ Decide(d)
  BY DEF DeciderAction, DeciderStep, Review, LoadTrajectory, Release, RecordRejection,
     FailRejected, CrashDecision
<1> QED BY <1>1, <1>2, <1>3

\* What a step does to the trajectory itself.
LEMMA CallTrajectory ==
  ASSUME TypeOK, NEW c \in Calls, CallAction(c)
  PROVE  /\ status' = status \/ status' # "absent"
         /\ scope' = scope \/ Start(c)
         /\ /\ status = "absent" /\ At(c, "idle")
            /\ \A p \in ProposalIds : proposals[p].status = "none"
            => Start(c)
<1> USE DEF At, UpdateStatus, AddStep, trajectory
<1>1. CASE Start(c) \/ Continue(c) \/ Revise(c) \/ \E p \in ProposalIds : ResumeRead(c, p)
  <2>1. CASE Start(c)
    BY <2>1 DEF Start
  <2>2. CASE Continue(c)
    BY <2>2 DEF Continue
  <2>3. CASE Revise(c)
    BY <2>3 DEF Revise, OfOperation
  <2>4. CASE \E p \in ProposalIds : ResumeRead(c, p)
    BY <2>4 DEF ResumeRead
  <2> QED BY <1>1, <2>1, <2>2, <2>3, <2>4
<1>2. CASE CallStep(c) \/ CrashCall(c)
  <2>1. ~At(c, "idle")
    BY <1>2 DEF CallStep, ResumeCheck, ResumeOpen,
       FindApproval, RefuseInput, Invoke, OverBudget, Consume, ConsumeUnanswered, Perform,
       AppendStep, AppendFails, FailTrajectory, PauseOverBudget, CheckSteps, CheckUsed,
       ProposeOnce, CreateProposal, RecordProposal, PauseProposal, PauseHold, Assemble,
       Supersede, CrashCall
  <2>2. scope' = scope /\ (status' = status \/ status' # "absent")
    BY <1>2 DEF CallStep, ResumeCheck, ResumeOpen,
       FindApproval, RefuseInput, Invoke, OverBudget, Consume, ConsumeUnanswered, Perform,
       AppendStep, AppendFails, FailTrajectory, PauseOverBudget, CheckSteps, CheckUsed,
       ProposeOnce, CreateProposal, RecordProposal, PauseProposal, PauseHold, Assemble,
       Supersede, CrashCall
  <2> QED BY <2>1, <2>2
<1> QED BY <1>1, <1>2 DEF CallAction

LEMMA OwnersNext == IInv /\ OwnersOnly /\ [Next]_vars => OwnersOnly'
<1> SUFFICES ASSUME IInv, OwnersOnly, [Next]_vars PROVE OwnersOnly'
  OBVIOUS
<1>a. TypeOK /\ call \in [Calls -> CallState]
  BY DEF IInv, TypeOK, CallsTyped
<1>1. ASSUME NEW c \in Calls, CallAction(c) PROVE OwnersOnly'
  <2>1. CASE Start(c)
    <3>1. /\ status = "absent" /\ status' = "running" /\ proposals' = proposals
          /\ \A d \in Calls : At(d, "idle")
      BY <2>1 DEF Start, OwnersOnly
    <3>2. PICK a \in Agents, x \in Inputs, v \in Versions, whole \in BOOLEAN :
            Enter(c, a, x, v, 0, whole, None) /\ scope' = ScopeOf(a)
      BY <2>1 DEF Start
    <3>3. call'[c].actor = a
      <4> DEFINE r == [IdleCall EXCEPT !.pc = IF 0 < NumSteps THEN "finding" ELSE "assembling",
                         !.actor = a, !.input = x, !.version = v, !.at = 0,
                         !.upto = IF whole \/ 0 >= NumSteps THEN NumSteps ELSE 0 + 1,
                         !.via = None]
      <4>1. r.actor = a
        BY DEF IdleCall
      <4>2. call'[c] = r
        BY <1>a, <3>2 DEF Enter
      <4> QED BY <4>1, <4>2
    <3>4. \A d \in Calls : d # c => call'[d] = call[d]
      BY <1>a, <1>1, OthersKept
    <3> QED BY <3>1, <3>2, <3>3, <3>4 DEF OwnersOnly, OnlyTheOwnerProposes, At, ScopeOf, PrincipalOf
  <2>2. CASE ~Start(c)
    <3>1. (status # "absent" /\ status' # "absent") \/ ~At(c, "idle")
      BY <1>1, <1>a, <2>2, CallTrajectory DEF OwnersOnly
    <3>2. status # "absent" /\ status' # "absent" /\ scope' = scope
      BY <1>1, <1>a, <2>2, <3>1, CallTrajectory DEF OwnersOnly
    <3>3. \A d \in Calls : d # c => call'[d] = call[d]
      BY <1>a, <1>1, OthersKept
    <3>4. call'[c].pc # "idle" => ScopeOf(call'[c].actor) = scope
      <4>1. CASE AppendStep(c)
        <5>1. call'[c].actor = call[c].actor /\ ~At(c, "idle")
          BY <1>a, <4>1 DEF AppendStep, CallState, At
        <5> QED BY <5>1 DEF OwnersOnly
      <4>2. CASE ~AppendStep(c)
        <5>1. RecordMoves(c)
          BY <1>1, <1>a, <2>2, <4>2, CallMoves
        <5> QED BY <3>2, <5>1 DEF RecordMoves, OwnersOnly, OnlyTheOwnerProposes, At
      <4> QED BY <4>1, <4>2
    <3>5. \A p \in ProposalIds :
            proposals'[p].status # "none" => ScopeOf(proposals'[p].actor) = scope
      <4>1. CASE At(c, "idle")
        <5>1. UNCHANGED proposals
          BY <1>1, <2>2, <4>1 DEF At, CallAction, CallStep, Continue, Revise, ResumeRead,
             ResumeCheck, ResumeOpen, FindApproval, RefuseInput, Invoke, OverBudget, Consume,
             ConsumeUnanswered, Perform, AppendStep, AppendFails, FailTrajectory,
             PauseOverBudget, CheckSteps, CheckUsed, ProposeOnce, CreateProposal,
             RecordProposal, PauseProposal, PauseHold, Assemble, Supersede, CrashCall
        <5> QED BY <5>1 DEF OwnersOnly, OnlyTheOwnerProposes
      <4>2. CASE ~At(c, "idle")
        <5>1. ProposalsGrow(call[c].actor) /\ ScopeOf(call[c].actor) = scope
          BY <1>1, <1>a, <4>2, CallProposals DEF OwnersOnly
        <5> QED BY <5>1 DEF ProposalsGrow, OwnersOnly, OnlyTheOwnerProposes
      <4> QED BY <4>1, <4>2
    <3> QED BY <3>2, <3>3, <3>4, <3>5
        DEF OwnersOnly, OnlyTheOwnerProposes, At, ScopeOf, PrincipalOf
  <2> QED BY <2>1, <2>2
<1>2. ASSUME NEW d \in Deciders, DeciderAction(d) PROVE OwnersOnly'
  <2>1. UNCHANGED <<call, scope>> /\ (status' = status \/ status' # "absent")
    BY <1>2 DEF DeciderAction, DeciderStep, Review, Decide, LoadTrajectory, Release,
       RecordRejection, FailRejected, CrashDecision, UpdateStatus, AddStep, trajectory
  <2>2. \A p \in ProposalIds :
          /\ proposals[p].status = "none" => proposals'[p] = proposals[p]
          /\ proposals[p].status # "none" => proposals'[p].actor = proposals[p].actor
    BY <1>2, <1>a, DeciderProposals DEF ProposalsGrow
  <2> QED BY <2>1, <2>2 DEF OwnersOnly, OnlyTheOwnerProposes, At, ScopeOf, PrincipalOf
<1>3. CASE UNCHANGED vars
  BY <1>3 DEF vars, OwnersOnly, OnlyTheOwnerProposes, At, ScopeOf, PrincipalOf
<1> QED BY <1>1, <1>2, <1>3 DEF Next

\* Whoever proposes on a trajectory, under a resume too, stands for the principal it belongs
\* to, for any number of agents, calls and resumes (mayContinue).
THEOREM OwnersPropose == Spec => []OnlyTheOwnerProposes
<1>1. Init => OwnersOnly
  BY DEF Init, OwnersOnly, OnlyTheOwnerProposes, At, IdleCall, NoProposal
<1>2. IInv /\ OwnersOnly /\ [Next]_vars => OwnersOnly'
  BY OwnersNext
<1>3. OwnersOnly => OnlyTheOwnerProposes
  BY DEF OwnersOnly
<1> QED BY <1>1, <1>2, <1>3, Inductive, PTL DEF Spec

\* Only the recording of a commitment adds one.
SameCommitments == Commitments' = Commitments /\ \A k \in Commitments : steps'[k] = steps[k]

LEMMA CommitmentsStay ==
  ASSUME TypeOK,
         \/ \E c \in Calls : CallAction(c) /\ ~AppendStep(c)
         \/ \E d \in Deciders : DeciderAction(d)
  PROVE  SameCommitments
<1> USE DEF UpdateStatus, trajectory
<1>1. CASE UNCHANGED steps
  BY <1>1 DEF SameCommitments, Commitments
<1>2. ASSUME NEW i, NEW p, AddStep("cognition", i, p) PROVE SameCommitments
  <2>1. /\ \A k \in Commitments : steps'[k] = steps[k]
        /\ Commitments' = IF "cognition" = "commitment" THEN Commitments \cup {Len(steps) + 1}
                                                         ELSE Commitments
    BY <1>2, AddStepKeeps DEF TypeOK
  <2> QED BY <2>1 DEF SameCommitments
<1>3. ASSUME NEW c \in Calls, CallAction(c), ~AppendStep(c)
      PROVE  UNCHANGED steps \/ AddStep("cognition", call[c].at, call[c].prop)
  BY <1>3 DEF CallAction, CallStep, Start, Continue, Revise, ResumeRead, ResumeCheck, ResumeOpen,
     FindApproval, RefuseInput, Invoke, OverBudget, Consume, ConsumeUnanswered, Perform,
     AppendFails, FailTrajectory, PauseOverBudget, CheckSteps, CheckUsed, ProposeOnce,
     CreateProposal, RecordProposal, PauseProposal, PauseHold, Assemble, Supersede, CrashCall
<1>4. ASSUME NEW d \in Deciders, DeciderAction(d)
      PROVE  UNCHANGED steps \/ AddStep("cognition", 0, dec[d].prop)
  BY <1>4 DEF DeciderAction, DeciderStep, Review, Decide, LoadTrajectory, Release,
     RecordRejection, FailRejected, CrashDecision
<1> QED BY <1>1, <1>2, <1>3, <1>4

\* A step that adds no commitment.
LEMMA InPlaceStays ==
  ASSUME IInv, StepsInPlace, SameCommitments, NEW a, ProposalsGrow(a),
         \A c \in Calls : call'[c].pc \in Working =>
           \/ call'[c].at = CommitmentCount
           \/ call[c].pc \in Working /\ call'[c].at = call[c].at
  PROVE  StepsInPlace'
<1>1. CommitmentCount' = CommitmentCount /\ CommitmentCount \in Nat
  BY CountIsNat DEF SameCommitments, CommitmentCount, IInv, TypeOK
<1>2. StepsInOrder'
  BY DEF SameCommitments, StepsInPlace, StepsInOrder
<1>3. \A k \in Commitments :
        /\ steps[k].index \in Gated /\ steps[k].prop \in ProposalIds
        /\ proposals[steps[k].prop].op = steps[k].index
        /\ proposals[steps[k].prop].status = "executed"
  <2> SUFFICES ASSUME NEW k \in Commitments
               PROVE  /\ steps[k].index \in Gated /\ steps[k].prop \in ProposalIds
                      /\ proposals[steps[k].prop].op = steps[k].index
                      /\ proposals[steps[k].prop].status = "executed"
    OBVIOUS
  <2>1. steps[k].index \in Gated /\ proposals[steps[k].prop].op = steps[k].index
    BY DEF StepsInPlace
  <2>2. steps[k].prop # None /\ runs[steps[k].prop] = 1
    BY <2>1 DEF IInv, RecordedMeansRan
  <2>3. steps \in Seq(StepRecord) /\ k \in DOMAIN steps
    BY DEF IInv, TypeOK, Commitments
  <2>4. steps[k] \in StepRecord
    BY <2>3
  <2>5. steps[k].prop \in ProposalIds
    BY <2>2, <2>4 DEF StepRecord
  <2> QED BY <2>1, <2>2, <2>5 DEF IInv, RunsOnlyExecuted
<1>4. \A k \in Commitments' :
        /\ steps'[k].index \in Gated
        /\ proposals'[steps'[k].prop].op = steps'[k].index
  BY <1>3 DEF SameCommitments, ProposalsGrow
<1>5. \A i \in 0 .. CommitmentCount' - 1 : \E k \in Commitments' : steps'[k].index = i
  BY <1>1 DEF SameCommitments, StepsInPlace
<1>6. \A c \in Calls : call'[c].pc \in Working => call'[c].at <= CommitmentCount'
  BY <1>1 DEF StepsInPlace
<1> QED BY <1>2, <1>4, <1>5, <1>6 DEF StepsInPlace

\* The holder of a claim records it: its step is the one that follows the recorded ones,
\* for the step of any other is recorded from another claim of the same operation.
LEMMA AppendInPlace ==
  ASSUME IInv, StepsInPlace, Gated = StepIdx, NEW c \in Calls, AppendStep(c)
  PROVE  StepsInPlace'
<1> DEFINE p == call[c].prop
           i == call[c].at
           n == Len(steps) + 1
<1>1. /\ TypeOK /\ steps \in Seq(StepRecord) /\ call[c] \in CallState
      /\ AddStep("commitment", i, p) /\ UNCHANGED proposals
      /\ \A d \in Calls : d # c => call'[d] = call[d]
      /\ At(c, "appending") /\ i \in Gated /\ Claiming(c)
  <2>1. TypeOK /\ steps \in Seq(StepRecord) /\ call[c] \in CallState
    BY DEF IInv, TypeOK, CallsTyped
  <2>2. i \in Gated /\ At(c, "appending")
    BY <2>1 DEF AppendStep, At, TypeOK, CallsTyped, WellFormed
  <2> QED BY <2>1, <2>2, OthersKept DEF AppendStep, CallAction, CallStep, Claiming, At
<1>2. /\ \A k \in Commitments : steps'[k] = steps[k]
      /\ n \notin Commitments
      /\ steps'[n] = [boundary |-> "commitment", index |-> i, prop |-> p]
      /\ Commitments' = Commitments \cup {n}
  <2>1. /\ \A k \in Commitments : steps'[k] = steps[k]
        /\ n \notin Commitments
        /\ steps'[n] = [boundary |-> "commitment", index |-> i, prop |-> p]
        /\ Commitments' = IF "commitment" = "commitment" THEN Commitments \cup {n}
                                                          ELSE Commitments
    BY <1>1, AddStepKeeps
  <2> QED BY <2>1
<1>3. /\ steps'[n].index = i /\ steps'[n].prop = p
  BY <1>2
<1>4. /\ p \in ProposalIds /\ proposals[p].op = i /\ proposals[p].status = "executed"
      /\ \A k \in Commitments : steps[k].prop # p
  <2>1. p # None /\ proposals[p].op = i /\ proposals[p].status = "executed"
    BY <1>1 DEF IInv, ClaimsMatch, MatchesProposal
  <2>2. p \in ProposalIds
    BY <1>1, <2>1 DEF CallState
  <2>3. \A k \in Commitments : steps[k].prop # p
    BY <1>1 DEF IInv, ClaimsFresh, StepsInPlace
  <2> QED BY <2>1, <2>2, <2>3
<1>5. CommitmentCount \in Nat /\ i \in Nat /\ i <= CommitmentCount
  BY <1>1, CountIsNat DEF StepsInPlace, Working, At, CallState
<1>6. i = CommitmentCount
  <2> SUFFICES ASSUME i < CommitmentCount PROVE FALSE
    BY <1>5
  <2>1. PICK k \in Commitments : steps[k].index = i
    <3>1. i \in 0 .. CommitmentCount - 1
      BY <1>5
    <3> QED BY <3>1 DEF StepsInPlace
  <2>2. /\ proposals[steps[k].prop].op = i /\ steps[k].prop # None /\ runs[steps[k].prop] = 1
    BY <1>1, <2>1 DEF StepsInPlace, IInv, RecordedMeansRan
  <2>3. k \in DOMAIN steps
    BY <2>1 DEF Commitments
  <2>4. steps[k] \in StepRecord
    BY <1>1, <2>3
  <2>5. steps[k].prop \in ProposalIds
    BY <2>2, <2>4 DEF StepRecord
  <2>6. proposals[steps[k].prop].status = "executed"
    BY <2>2, <2>5 DEF IInv, RunsOnlyExecuted
  <2>7. steps[k].prop = p
    BY <1>4, <2>2, <2>5, <2>6 DEF IInv, OneLiveProposal, OneLive
  <2> QED BY <1>4, <2>7
<1>7. /\ IsFiniteSet(Commitments) /\ Commitments \subseteq 1 .. Len(steps) /\ Len(steps) \in Nat
  <2>1. DOMAIN steps = 1 .. Len(steps) /\ Len(steps) \in Nat
    BY <1>1
  <2>2. IsFiniteSet(1 .. Len(steps)) /\ Commitments \subseteq 1 .. Len(steps)
    BY <2>1, FS_Interval DEF Commitments
  <2> QED BY <2>1, <2>2, FS_Subset
<1>8. CommitmentCount' = CommitmentCount + 1
  BY <1>2, <1>7, FS_AddElement DEF CommitmentCount
<1>9. /\ call'[c].at = i + 1
  <2> DEFINE r == [call[c] EXCEPT !.at = i + 1, !.prop = None, !.payload = NoInput,
                     !.pc = IF i + 1 < call[c].upto THEN "finding" ELSE "assembling"]
  <2>1. call'[c] = r
    BY DEF AppendStep, IInv, TypeOK, CallsTyped
  <2> QED BY <1>1, <2>1 DEF CallState
<1> HIDE DEF p, i, n
<1>10. StepsInOrder'
  <2> SUFFICES ASSUME NEW k \in Commitments'
               PROVE  steps'[k].index = Cardinality({l \in Commitments' : l < k})
    BY DEF StepsInOrder
  <2>1. CASE k = n
    <3>0. n \in Nat /\ ~(n < n) /\ \A l \in Commitments : l < n
      BY <1>7 DEF n
    <3>1. {l \in Commitments' : l < n} = Commitments
      BY <1>2, <3>0
    <3> QED BY <1>3, <1>6, <2>1, <3>1 DEF CommitmentCount
  <2>2. CASE k \in Commitments
    <3>0. k \in Nat /\ k < n /\ n \in Nat
      BY <1>7, <2>2 DEF n
    <3>1. {l \in Commitments' : l < k} = {l \in Commitments : l < k}
      BY <1>2, <3>0
    <3>2. steps[k].index = Cardinality({l \in Commitments : l < k})
      BY <2>2 DEF StepsInPlace, StepsInOrder
    <3> QED BY <1>2, <2>2, <3>1, <3>2
  <2> QED BY <1>2, <2>1, <2>2
<1>11. \A k \in Commitments' :
         /\ steps'[k].index \in Gated
         /\ proposals'[steps'[k].prop].op = steps'[k].index
  BY <1>1, <1>2, <1>3, <1>4 DEF StepsInPlace, i
<1>12. \A j \in 0 .. CommitmentCount' - 1 : \E k \in Commitments' : steps'[k].index = j
  <2> SUFFICES ASSUME NEW j \in 0 .. CommitmentCount' - 1
               PROVE  \E k \in Commitments' : steps'[k].index = j
    OBVIOUS
  <2>1. CASE j = CommitmentCount
    BY <1>2, <1>3, <1>6, <2>1
  <2>2. CASE j \in 0 .. CommitmentCount - 1
    BY <1>2, <2>2 DEF StepsInPlace
  <2> QED BY <1>5, <1>8, <2>1, <2>2
<1>13. \A d \in Calls : call'[d].pc \in Working => call'[d].at <= CommitmentCount'
  <2> SUFFICES ASSUME NEW d \in Calls, call'[d].pc \in Working
               PROVE  call'[d].at <= CommitmentCount'
    OBVIOUS
  <2>1. CASE d = c
    BY <1>6, <1>5, <1>8, <1>9, <2>1
  <2>2. CASE d # c
    <3>1. call[d] \in CallState /\ call'[d] = call[d]
      BY <1>1, <2>2 DEF TypeOK, CallsTyped
    <3>2. call[d].at <= CommitmentCount /\ call[d].at \in Nat
      BY <3>1 DEF StepsInPlace, CallState
    <3> QED BY <1>5, <1>8, <3>1, <3>2
  <2> QED BY <2>1, <2>2
<1> QED BY <1>10, <1>11, <1>12, <1>13 DEF StepsInPlace

LEMMA InPlaceNext ==
  ASSUME Gated = StepIdx
  PROVE  IInv /\ StepsInPlace /\ [Next]_vars => StepsInPlace'
<1> SUFFICES ASSUME IInv, StepsInPlace, [Next]_vars PROVE StepsInPlace'
  OBVIOUS
<1>a. TypeOK /\ call \in [Calls -> CallState]
  BY DEF IInv, TypeOK, CallsTyped
<1>1. ASSUME NEW c \in Calls, CallAction(c) PROVE StepsInPlace'
  <2>1. CASE AppendStep(c)
    BY <2>1, AppendInPlace
  <2>2. CASE ~AppendStep(c) /\ ~Start(c)
    <3>1. RecordMoves(c) /\ SameCommitments /\ ProposalsGrow(call[c].actor)
      BY <1>a, <1>1, <2>2, CallMoves, CommitmentsStay, CallProposals
    <3>2. \A d \in Calls : d # c => call'[d] = call[d]
      BY <1>a, <1>1, OthersKept
    <3> QED BY <3>1, <3>2, InPlaceStays DEF RecordMoves
  <2>3. CASE ~AppendStep(c) /\ Start(c)
    <3>1. SameCommitments /\ ProposalsGrow(call[c].actor) /\ CommitmentCount \in Nat
      BY <1>a, <1>1, <2>3, CommitmentsStay, CallProposals, CountIsNat DEF TypeOK
    <3>2. \A d \in Calls : d # c => call'[d] = call[d]
      BY <1>a, <1>1, OthersKept
    <3>3. call'[c].at = 0
      <4>1. PICK a \in Agents, x \in Inputs, v \in Versions, whole \in BOOLEAN :
              Enter(c, a, x, v, 0, whole, None)
        BY <2>3 DEF Start
      <4> DEFINE r == [IdleCall EXCEPT !.pc = IF 0 < NumSteps THEN "finding" ELSE "assembling",
                         !.actor = a, !.input = x, !.version = v, !.at = 0,
                         !.upto = IF whole \/ 0 >= NumSteps THEN NumSteps ELSE 0 + 1,
                         !.via = None]
      <4>2. r.at = 0
        BY DEF IdleCall
      <4>3. call'[c] = r
        BY <1>a, <4>1 DEF Enter
      <4> QED BY <4>2, <4>3
    <3>4. StepsInPlace'
      <4>1. CommitmentCount' = CommitmentCount /\ UNCHANGED <<steps, proposals>>
        BY <2>3, <3>1 DEF Start, SameCommitments, CommitmentCount
      <4>2. \A d \in Calls : call'[d].pc \in Working => call'[d].at <= CommitmentCount
        BY <3>1, <3>2, <3>3 DEF StepsInPlace
      <4> QED BY <3>1, <4>1, <4>2 DEF StepsInPlace, StepsInOrder, SameCommitments
    <3> QED BY <3>4
  <2> QED BY <2>1, <2>2, <2>3
<1>2. ASSUME NEW d \in Deciders, DeciderAction(d) PROVE StepsInPlace'
  <2>1. UNCHANGED call
    BY <1>2 DEF DeciderAction, DeciderStep, Review, Decide, LoadTrajectory, Release,
       RecordRejection, FailRejected, CrashDecision
  <2>2. SameCommitments /\ ProposalsGrow(None)
    BY <1>a, <1>2, CommitmentsStay, DeciderProposals
  <2> QED BY <2>1, <2>2, InPlaceStays
<1>3. CASE UNCHANGED vars
  BY <1>3 DEF vars, StepsInPlace, StepsInOrder, Commitments, CommitmentCount
<1> QED BY <1>1, <1>2, <1>3 DEF Next

\* Where every step needs an approval, steps are recorded in order, none twice and none
\* skipped, however many calls run the workflow at once: what no lock does, the claim of
\* the one live proposal of a step does (workflow-loop.ts, gotcha 1).
THEOREM RecordedInOrder ==
  ASSUME Gated = StepIdx PROVE Spec => []StepsInOrder
<1>1. Init => StepsInPlace
  <2> SUFFICES ASSUME Init PROVE StepsInPlace
    OBVIOUS
  <2>1. Commitments = {} /\ CommitmentCount = 0
    BY FS_EmptySet DEF Init, Commitments, CommitmentCount
  <2>2. \A c \in Calls : call[c].pc = "idle"
    BY DEF Init, IdleCall
  <2> QED BY <2>1, <2>2 DEF StepsInPlace, StepsInOrder, Working
<1>2. IInv /\ StepsInPlace /\ [Next]_vars => StepsInPlace'
  BY InPlaceNext
<1>3. StepsInPlace => StepsInOrder
  BY DEF StepsInPlace
<1> QED BY <1>1, <1>2, <1>3, Inductive, PTL DEF Spec

=============================================================================
