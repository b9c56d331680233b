-------------------------- MODULE ApprovalLifecycle --------------------------
(***************************************************************************)
(* What the held-action machinery promises, with no trajectory, call or    *)
(* decider in sight: an operation has one live proposal at a time, a        *)
(* proposal is decided once, an approval is claimed once, and a gated tool *)
(* runs at most once, on a claimed approval (docs/adr/ADR-031, D2 to D4).  *)
(***************************************************************************)
EXTENDS Integers

CONSTANTS ProposalIds, Operations

VARIABLES
  phase,  \* where each proposal is in its life
  op,     \* the operation it was made for
  ran     \* how often the tool ran on it

vars == <<phase, op, ran>>

Live == {"proposed", "approved", "executed"}

Init ==
  /\ phase = [p \in ProposalIds |-> "none"]
  /\ op \in [ProposalIds -> Operations]
  /\ ran = [p \in ProposalIds |-> 0]

Propose(p, o) ==
  /\ phase[p] = "none"
  /\ \A q \in ProposalIds : op[q] = o => phase[q] \notin Live
  /\ phase' = [phase EXCEPT ![p] = "proposed"]
  /\ op' = [op EXCEPT ![p] = o]
  /\ UNCHANGED ran

Decide(p, verdict) ==
  /\ phase[p] = "proposed"
  /\ phase' = [phase EXCEPT ![p] = verdict]
  /\ UNCHANGED <<op, ran>>

Claim(p) ==
  /\ phase[p] = "approved"
  /\ phase' = [phase EXCEPT ![p] = "executed"]
  /\ UNCHANGED <<op, ran>>

Run(p) ==
  /\ phase[p] = "executed" /\ ran[p] = 0
  /\ ran' = [ran EXCEPT ![p] = 1]
  /\ UNCHANGED <<phase, op>>

Next ==
  \E p \in ProposalIds :
    \/ \E o \in Operations : Propose(p, o)
    \/ \E verdict \in {"approved", "rejected", "superseded"} : Decide(p, verdict)
    \/ Claim(p)
    \/ Run(p)

Spec == Init /\ [][Next]_vars
=============================================================================
