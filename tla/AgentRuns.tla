------------------------------ MODULE AgentRuns ------------------------------
(***************************************************************************)
(* The runs of one agent in one scope: trajectories, the budget they share *)
(* and the external effects of their steps.                                *)
(*                                                                         *)
(*   platform/agents/runtime.ts          executeAgent, resumeAgent         *)
(*   platform/agents/budget-tracker.ts   checkBudget, consume              *)
(*   platform/agents/budget-config.ts    the governed ceilings             *)
(*   platform/agents/supabase-*-store.ts trajectories, budgets             *)
(*                                                                         *)
(* A run is a request that executes a new trajectory or resumes a paused   *)
(* one.  Each access to a store is one step of it; it may fail, take effect*)
(* without an answer, or be the last thing the process does.               *)
(***************************************************************************)
EXTENDS ExternalEffects, Sequences, FiniteSets

CONSTANTS
  Trajectories,   \* those that may be created
  Runs,           \* concurrent requests
  NoTrajectory,   \* of a run that has not begun
  Effectful,      \* the steps of the workflow that perform an effect
  Costs,          \* what a step may cost, in the unit of the budget
  DailyCap,       \* the agent's budget for a day
  StepCap,        \* the agent's steps for a trajectory
  GovernedCaps,   \* values the governed daily ceiling may have; 0 is unset
  GovernedSteps,  \* values the governed step ceiling may have; 0 is unset
  MaxDay,         \* BOUND: days that pass
  MaxResumes      \* BOUND: resumes

\* The effect of a step of a trajectory.
EffectOf(t, i) == <<t, i>>
MaxCost == CHOOSE m \in Costs : \A x \in Costs : x <= m

ASSUME RunsAssumption ==
  /\ Callers = Runs /\ IsFiniteSet(Runs)
  /\ Effectful \subseteq Nat
  /\ Effects = {EffectOf(t, i) : t \in Trajectories, i \in Effectful}
  /\ NoTrajectory \notin Trajectories
  /\ Costs \subseteq Nat /\ \E m \in Costs : \A x \in Costs : x <= m
  /\ DailyCap \in Nat \ {0} /\ StepCap \in Nat \ {0}
  /\ GovernedCaps \subseteq Nat /\ GovernedSteps \subseteq Nat
  /\ MaxDay \in Nat /\ MaxResumes \in Nat

VARIABLES
  status,    \* of each trajectory; "absent" before it is created
  steps,     \* of each trajectory, in the order they were appended
  usage,     \* of each day, the budget used
  day,       \* today
  spent,     \* history: what all steps that ran have cost
  run,       \* what each run is at, and what it has read
  resumes    \* resumes so far

trajectories == <<status, steps>>
budget == <<usage, day, spent>>
vars == <<ledger, sent, landed, flying, caller, faults,
          status, steps, usage, day, spent, run, resumes>>

RunPC == {"idle", "opening", "checking", "working", "recording", "consuming",
          "settling", "completing", "doubting", "pausing", "failing"}
Status == {"absent", "running", "paused", "completed", "failed", "indeterminate"}
IdleRun == [at |-> "idle", t |-> NoTrajectory, count |-> 0, cap |-> 0, cost |-> 0,
            fired |-> {}, final |-> "running"]

Init ==
  /\ EffectsInit
  /\ status = [t \in Trajectories |-> "absent"]
  /\ steps = [t \in Trajectories |-> <<>>]
  /\ usage = [d \in 0 .. MaxDay |-> 0]
  /\ day = 0
  /\ spent = 0
  /\ run = [r \in Runs |-> IdleRun]
  /\ resumes = 0

-----------------------------------------------------------------------------
(* Steps of a run *)

RunAt(r, pc) == run[r].at = pc
Go(r, pc) == run' = [run EXCEPT ![r].at = pc]
Close(r, final) == run' = [run EXCEPT ![r] = [@ EXCEPT !.at = "idle", !.final = final]]

\* An access inside the try took effect; its answer arrives, or is lost.
ThenGo(r, pc) == \/ Go(r, pc) /\ UNCHANGED faults
                 \/ Go(r, "failing") /\ Faulty

SetStatus(t, s) == status' = [status EXCEPT ![t] = s]

\* Mutant: the governed ceiling replaces the agent's own.
TightenedReplace(governed, own) == IF governed > 0 THEN governed ELSE own

\* A governed ceiling only tightens the agent's own.
Tightened(governed, own) == IF governed > 0 /\ governed < own THEN governed ELSE own

Unresolved(t) ==
  {i \in Effectful : ledger[EffectOf(t, i)].status \in {"pending", "indeterminate"}}

\* executeAgent: create the trajectory, read the ceiling of steps.
Execute(r, t) ==
  /\ RunAt(r, "idle") /\ status[t] = "absent"
  /\ SetStatus(t, "running")
  /\ \/ /\ \E g \in GovernedSteps :
             run' = [run EXCEPT ![r] = [IdleRun EXCEPT !.at = "checking", !.t = t,
                                                       !.cap = Tightened(g, StepCap)]]
        /\ UNCHANGED faults
     \/ Faulty /\ UNCHANGED run
  /\ UNCHANGED <<steps, budget, resumes, ledger, downstream, caller>>

\* resumeAgent: only what is paused.
ResumeRead(r, t) ==
  /\ RunAt(r, "idle") /\ status[t] = "paused"
  /\ resumes < MaxResumes /\ resumes' = resumes + 1
  /\ run' = [run EXCEPT ![r] = [IdleRun EXCEPT !.at = "opening", !.t = t,
                                               !.count = Len(steps[t]), !.cap = StepCap]]
  /\ UNCHANGED <<trajectories, budget, ledger, downstream, caller, faults>>

\* resumeAgent writes running, whatever has happened since.
ResumeOpen(r) ==
  /\ RunAt(r, "opening")
  /\ SetStatus(run[r].t, "running")
  /\ \/ Go(r, "checking") /\ UNCHANGED faults
     \/ Go(r, "idle") /\ Faulty
  /\ UNCHANGED <<steps, budget, resumes, ledger, downstream, caller>>

\* Is there budget left today?
CheckBudget(r) ==
  /\ RunAt(r, "checking")
  /\ \E g \in GovernedCaps :
       Go(r, IF usage[day] >= Tightened(g, DailyCap) THEN "pausing" ELSE "working")
  /\ UNCHANGED <<trajectories, budget, resumes, effectVars>>

\* The workflow's step begins: of some it is a call to the outside.
WorkEffect(r) ==
  /\ RunAt(r, "working") /\ CallerAt(r, "idle") /\ run[r].count \in Effectful
  /\ Perform(r, EffectOf(run[r].t, run[r].count))
  /\ UNCHANGED <<trajectories, budget, run, resumes, ledger, downstream, faults>>

\* The workflow's step ends, with what it cost.  What the effect came to does not
\* matter: a workflow may go on whatever it was told.
WorkEnds(r) ==
  /\ RunAt(r, "working")
  /\ IF run[r].count \in Effectful THEN CallerAt(r, "told") ELSE CallerAt(r, "idle")
  /\ \E x \in Costs :
       /\ spent' = spent + x
       /\ run' = [run EXCEPT ![r] = [@ EXCEPT !.at = "recording", !.cost = x,
            !.fired = run[r].fired \cup ({run[r].count} \cap Effectful)]]
  /\ caller' = [caller EXCEPT ![r] = IdleCaller]
  /\ UNCHANGED <<trajectories, usage, day, resumes, ledger, downstream, faults>>

\* The workflow throws, by itself or because its effect did.
WorkThrows(r) ==
  /\ RunAt(r, "working")
  /\ \/ CallerAt(r, "threw") /\ UNCHANGED faults
     \/ caller[r].at \in {"idle", "told"} /\ Faulty
  /\ Go(r, "failing")
  /\ caller' = [caller EXCEPT ![r] = IdleCaller]
  /\ UNCHANGED <<trajectories, budget, resumes, ledger, downstream>>

\* addStep.
RecordStep(r) ==
  /\ RunAt(r, "recording")
  /\ steps' = [steps EXCEPT ![run[r].t] =
                 Append(@, [index |-> run[r].count, cost |-> run[r].cost])]
  /\ ThenGo(r, "consuming")
  /\ UNCHANGED <<status, budget, resumes, ledger, downstream, caller>>

\* Mutant: the budget is charged only for runs that go on.
ConsumeIfMore(r) ==
  /\ RunAt(r, "consuming")
  /\ \E more \in BOOLEAN :
       LET n == run[r].count + 1 IN
       /\ IF more THEN usage' = [usage EXCEPT ![day] = @ + run[r].cost]
                  ELSE UNCHANGED usage
       /\ run' = [run EXCEPT ![r] = [@ EXCEPT !.count = n, !.cost = 0,
            !.at = IF more /\ n < @.cap THEN "checking" ELSE "settling"]]
  /\ UNCHANGED <<trajectories, day, spent, resumes, effectVars>>

\* consume, an atomic addition; then the loop goes on or ends.
Consume(r) ==
  /\ RunAt(r, "consuming")
  /\ usage' = [usage EXCEPT ![day] = @ + run[r].cost]
  /\ LET n == run[r].count + 1 IN
     \/ /\ \E next \in {"settling"} \cup (IF n < run[r].cap THEN {"checking"} ELSE {}) :
             run' = [run EXCEPT ![r] = [@ EXCEPT !.at = next, !.count = n, !.cost = 0]]
        /\ UNCHANGED faults
     \/ /\ run' = [run EXCEPT ![r] = [@ EXCEPT !.at = "failing", !.cost = 0]]
        /\ Faulty
  /\ UNCHANGED <<trajectories, day, spent, resumes, ledger, downstream, caller>>

\* Mutant: the ledger is not asked.
SettleAnyway(r) ==
  /\ RunAt(r, "settling")
  /\ Go(r, "completing")
  /\ UNCHANGED <<trajectories, budget, resumes, effectVars>>

\* Is any effect of the trajectory unresolved?
Settle(r) ==
  /\ RunAt(r, "settling")
  /\ Go(r, IF Unresolved(run[r].t) = {} THEN "completing" ELSE "doubting")
  /\ UNCHANGED <<trajectories, budget, resumes, effectVars>>

\* The run ends with a status, and tells it to whoever asked for the run; if the
\* answer of the update is lost, it fails, or throws if it was failing.
EndWith(r, pc, final) ==
  /\ RunAt(r, pc)
  /\ SetStatus(run[r].t, final)
  /\ \/ Close(r, final) /\ UNCHANGED faults
     \/ (IF pc = "failing" THEN Go(r, "idle") ELSE Go(r, "failing")) /\ Faulty
  /\ UNCHANGED <<steps, budget, resumes, ledger, downstream, caller>>

Complete(r) == EndWith(r, "completing", "completed")
DoubtRun(r) == EndWith(r, "doubting", "indeterminate")
Pause(r) == EndWith(r, "pausing", "paused")
Fail(r) == EndWith(r, "failing", "failed")

\* An access fails without taking effect.  Inside the try the run fails; before
\* it, and in the catch, the request throws.
RunFails(r) ==
  /\ run[r].at \notin {"idle", "working"}
  /\ Faulty
  /\ Go(r, IF run[r].at \in {"opening", "failing"} THEN "idle" ELSE "failing")
  /\ UNCHANGED <<trajectories, budget, resumes, ledger, downstream, caller>>

\* The process of a run dies.
Crash(r) ==
  /\ run[r].at # "idle"
  /\ Faulty
  /\ Go(r, "idle")
  /\ caller' = [caller EXCEPT ![r] = IdleCaller]
  /\ UNCHANGED <<trajectories, budget, resumes, ledger, downstream>>

\* A step of the run's effect.
FireStep(r) ==
  /\ RunAt(r, "working") /\ EffectStep(r)
  /\ UNCHANGED <<trajectories, budget, run, resumes>>

LandLate(e) == Land(e) /\ UNCHANGED <<trajectories, budget, run, resumes>>

NextDay ==
  /\ day < MaxDay
  /\ day' = day + 1
  /\ UNCHANGED <<trajectories, usage, spent, run, resumes, effectVars>>

RunAction(r) ==
  \/ \E t \in Trajectories : Execute(r, t) \/ ResumeRead(r, t)
  \/ ResumeOpen(r) \/ CheckBudget(r) \/ WorkEffect(r) \/ WorkEnds(r) \/ WorkThrows(r)
  \/ FireStep(r) \/ RecordStep(r) \/ Consume(r) \/ Settle(r)
  \/ Complete(r) \/ DoubtRun(r) \/ Pause(r) \/ Fail(r) \/ RunFails(r) \/ Crash(r)

Next ==
  \/ \E r \in Runs : RunAction(r)
  \/ \E e \in Effects : LandLate(e)
  \/ NextDay

Spec == Init /\ [][Next]_vars

-----------------------------------------------------------------------------
(* Properties *)

StepRecord == [index : Nat, cost : Costs]
RunState ==
  [at : RunPC, t : Trajectories \cup {NoTrajectory}, count : Nat, cap : Nat,
   cost : Nat, fired : SUBSET Effectful, final : Status]

TypeOK ==
  /\ EffectsTypeOK
  /\ status \in [Trajectories -> Status]
  /\ steps \in [Trajectories -> Seq(StepRecord)]
  /\ usage \in [0 .. MaxDay -> Nat]
  /\ day \in 0 .. MaxDay
  /\ spent \in Nat
  /\ run \in [Runs -> RunState]
  /\ resumes \in Nat

\* Runs that passed the check and have not been charged yet.
InFlight == {r \in Runs : run[r].at \in {"working", "recording", "consuming"}}

\* Budgets are checked before a step and charged after it: what is used on a day
\* exceeds the agent's cap by no more than one step of every run, however runs,
\* resumes, governed ceilings and the turn of the day interleave.
OvershootIsBounded ==
  \A d \in 0 .. MaxDay : usage[d] <= DailyCap - 1 + MaxCost * Cardinality(Runs)

\* The budget counts what was spent: it never charges more, and it misses at most
\* the step that a run had in hand when a fault ended it.
Uncharged == {r \in Runs : run[r].at \in {"recording", "consuming"}}
Totals ==   \* the running totals of the days' usage, within what was spent
  {s \in [0 .. MaxDay -> 0 .. spent] :
     /\ s[0] = usage[0]
     /\ \A d \in 1 .. MaxDay : s[d] = s[d - 1] + usage[d]}
SpendIsCounted ==
  \E s \in Totals : spent <= s[MaxDay] + MaxCost * (faults + Cardinality(Uncharged))

\* A run that reported completed left no effect of its own in doubt, not even when
\* another run, or a late answer, comes to the entries of its trajectory afterwards.
CompletedRunsAreResolved ==
  \A r \in Runs : run[r].final = "completed" =>
    \A i \in run[r].fired :
      ledger[EffectOf(run[r].t, i)].status \in {"confirmed", "failed"}

\* A caller is the run that is at the effect's step.
CallersAreRuns ==
  \A r \in Runs : ~CallerAt(r, "idle") =>
    /\ RunAt(r, "working") /\ run[r].count \in Effectful
    /\ run[r].t \in Trajectories
    /\ caller[r].effect = EffectOf(run[r].t, run[r].count)

\* What a run has in hand has a cost, and belongs to a trajectory; a run that has
\* not ended has told nobody how it did.
RunsInOrder ==
  \A r \in Runs :
    /\ run[r].at \in {"recording", "consuming"} => run[r].cost \in Costs
    /\ run[r].at # "idle" => run[r].t \in Trajectories /\ run[r].final = "running"
    /\ run[r].fired # {} => run[r].t \in Trajectories

\* The runs in flight can exhaust what is left of the bound, and no more.
FlightIsCovered ==
  /\ usage[day] + MaxCost * Cardinality(InFlight)
        <= DailyCap - 1 + MaxCost * Cardinality(Runs)
  /\ \A d \in 0 .. MaxDay : d > day => usage[d] = 0

\* The effects of a run are resolved when its step ends, and for good; those of a
\* run that is about to complete are not in doubt.
FiredAreResolved ==
  \A r \in Runs : \A i \in run[r].fired :
    LET s == ledger[EffectOf(run[r].t, i)].status IN
    /\ s \in Outcome
    /\ RunAt(r, "completing") => s \in {"confirmed", "failed"}

IInv ==
  /\ TypeOK
  /\ EffectsInv
  /\ CallersAreRuns
  /\ RunsInOrder
  /\ FlightIsCovered
  /\ OvershootIsBounded
  /\ FiredAreResolved
  /\ CompletedRunsAreResolved

\* runtime.ts:301-303 of resumeAgent: steps already recorded are not re-executed.
NoStepTwice ==
  \A t \in Trajectories : \A i, j \in DOMAIN steps[t] :
    steps[t][i].index = steps[t][j].index => i = j
=============================================================================
