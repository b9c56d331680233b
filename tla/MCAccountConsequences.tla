------------------------ MODULE MCAccountConsequences ------------------------
(***************************************************************************)
(* Small instances of AccountConsequences: two or three blocks of one      *)
(* account, or one escalation, and two concurrent requests.                *)
(***************************************************************************)
EXTENDS AccountConsequences, TLC

\* Requests, blocks and moderators other than the owner are interchangeable.
Symmetry == Permutations(Requests) \cup Permutations(Blocks)
              \cup Permutations(Reviewers \ {Owner})
=============================================================================
