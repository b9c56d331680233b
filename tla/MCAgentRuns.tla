----------------------------- MODULE MCAgentRuns -----------------------------
(***************************************************************************)
(* Small instances of AgentRuns: two concurrent runs and two trajectories, *)
(* of which the effects of the first can be asked for.                     *)
(***************************************************************************)
EXTENDS AgentRuns, TLC

CONSTANTS first, second

MCEffects == {EffectOf(t, i) : t \in Trajectories, i \in Effectful}
MCAskable == {EffectOf(first, i) : i \in Effectful}

\* Runs are only ever compared for equality.
Symmetry == Permutations(Runs)
=============================================================================
