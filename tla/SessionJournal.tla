---------------------------- MODULE SessionJournal ----------------------------
(***************************************************************************)
(* What an activity session promises to those who look at it from outside: *)
(* its state is a journal of operations, each of which takes effect once,  *)
(* on top of everything before it, and an operation takes effect only when *)
(* its predecessors are in the audit record (docs/adr/ADR-028, D5;         *)
(* docs/adr/ADR-031, D4 and D6).                                           *)
(***************************************************************************)
EXTENDS Integers, Sequences

CONSTANT Ops

VARIABLES
  journal,   \* the operations the state is made of, in their order
  recorded   \* those the trajectory tells of

vars == <<journal, recorded>>

Journaled == {journal[i] : i \in DOMAIN journal}

Init == journal = <<>> /\ recorded = {}

Apply(op) ==
  /\ op \notin Journaled
  /\ Journaled \subseteq recorded
  /\ journal' = Append(journal, op)
  /\ UNCHANGED recorded

Record(op) ==
  /\ op \in Journaled
  /\ recorded' = recorded \cup {op}
  /\ UNCHANGED journal

Next == \E op \in Ops : Apply(op) \/ Record(op)

Spec == Init /\ [][Next]_vars
=============================================================================
