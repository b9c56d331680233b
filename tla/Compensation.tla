---------------------------- MODULE Compensation ----------------------------
(***************************************************************************)
(* Compensating a trajectory (platform/action-pipeline/index.ts,           *)
(* compensateTrajectory): the committed steps are cancelled in reverse     *)
(* order by further steps that name what they cancel; nothing is removed   *)
(* from the history, and a compensation that fails does not stop the walk. *)
(*                                                                         *)
(* A walk works through the steps of one read: other walks, and actions    *)
(* still being committed, append in between, a process may die between     *)
(* what it did and its record, and the store may refuse the record.        *)
(***************************************************************************)
EXTENDS Naturals, Sequences, SequencesExt, FiniteSets

CONSTANTS
  Walks,
  Kinds,    \* what a recorded step may be: "commit", "note", "final"
  Length,   \* the steps recorded at the start
  MaxLate, MaxFaults   \* bounds

\* What the constants are to satisfy (Services assumes it).
UnwindAssumption ==
  Kinds \subseteq {"commit", "note", "final"} /\ Length \in Nat /\ MaxLate \in Nat /\ MaxFaults \in Nat

\* "commit": the caller knows how to cancel it; "note": nothing to cancel (cognition, a
\* read); "final": declared non-compensable; "undo": a compensation, of step number of.
Step == [kind : {"commit", "note", "final", "undo"}, of : Nat, ok : BOOLEAN]

VARIABLES
  steps,   \* the trajectory
  walk,    \* walk -> where it is, the steps left of what it read, its outcome
  done,    \* ghost: the compensating actions that took effect: walk and step
  faults   \* faults so far

vars == <<steps, walk, done, faults>>

Recorded(kind) == [kind |-> kind, of |-> 0, ok |-> TRUE]
Idle == [pc |-> "idle", todo |-> <<>>, read |-> 0, already |-> {}, ok |-> FALSE,
         compensated |-> 0, skipped |-> 0, failures |-> {}]

TypeOK ==
  /\ steps \in Seq(Step)
  /\ walk \in [Walks ->
        [pc : {"idle", "walk", "record", "done", "dead"}, todo : Seq(Nat \ {0}), read : Nat,
         already : SUBSET Nat, ok : BOOLEAN, compensated : Nat, skipped : Nat,
         failures : SUBSET Nat]]
  /\ done \in Seq([walk : Walks, step : Nat])
  /\ faults \in 0..MaxFaults

\* Every step has its place in the trajectory as its operation id.
Init ==
  /\ \E kinds \in [1..Length -> Kinds] : steps = [i \in 1..Length |-> Recorded(kinds[i])]
  /\ walk = [w \in Walks |-> Idle]
  /\ done = <<>>
  /\ faults = 0

\* Mutant: the steps are taken in the order they were committed.
AsCommitted(n) == [i \in 1..n |-> i]

\* The steps of a read, last first.
Reversed(n) == Reverse([i \in 1..n |-> i])

Begin(w) ==
  /\ walk[w].pc = "idle"
  /\ walk' = [walk EXCEPT ![w] =
       [Idle EXCEPT !.pc = "walk", !.todo = Reversed(Len(steps)), !.read = Len(steps),
                    !.already = {steps[i].of : i \in DOMAIN steps} \ {0}]]
  /\ UNCHANGED <<steps, done, faults>>

On(w) == Head(walk[w].todo)
Visiting(w) == walk[w].pc = "walk" /\ walk[w].todo # <<>>
Next_(w, r) == walk' = [walk EXCEPT ![w] = [r EXCEPT !.todo = Tail(@), !.pc = "walk"]]

\* A compensation, a step one of the steps read compensates, and one the caller has no
\* plan for are passed over.
Skipped(w) ==
  \/ steps[On(w)].kind \in {"undo", "note"}
  \/ On(w) \in walk[w].already

Skip(w) ==
  /\ Visiting(w) /\ Skipped(w)
  /\ Next_(w, [walk[w] EXCEPT !.skipped = @ + 1])
  /\ UNCHANGED <<steps, done, faults>>

\* A step that cannot be compensated is a failure, and leaves no record.
ReportFinal(w) ==
  /\ Visiting(w) /\ ~Skipped(w) /\ steps[On(w)].kind = "final"
  /\ Next_(w, [walk[w] EXCEPT !.failures = @ \cup {On(w)}])
  /\ UNCHANGED <<steps, done, faults>>

Did(w) == done' = Append(done, [walk |-> w, step |-> On(w)])

\* The caller's compensating action works, fails, or takes effect and fails to say so.
Perform(w) ==
  /\ Visiting(w) /\ ~Skipped(w) /\ steps[On(w)].kind = "commit"
  /\ \/ /\ Did(w) /\ UNCHANGED faults
        /\ walk' = [walk EXCEPT ![w].pc = "record", ![w].ok = TRUE]
     \/ /\ faults < MaxFaults /\ faults' = faults + 1
        /\ Did(w) \/ UNCHANGED done
        /\ walk' = [walk EXCEPT ![w].pc = "record", ![w].ok = FALSE,
                                ![w].failures = @ \cup {On(w)}]
  /\ UNCHANGED steps

\* A compensation that failed is recorded too, and the walk goes on.
Record(w) ==
  /\ walk[w].pc = "record"
  /\ steps' = Append(steps, [kind |-> "undo", of |-> On(w), ok |-> walk[w].ok])
  /\ Next_(w, [walk[w] EXCEPT !.compensated = IF walk[w].ok THEN @ + 1 ELSE @])
  /\ UNCHANGED <<done, faults>>

Finish(w) ==
  /\ walk[w].pc = "walk" /\ walk[w].todo = <<>>
  /\ walk' = [walk EXCEPT ![w].pc = "done"]
  /\ UNCHANGED <<steps, done, faults>>

\* The process dies, or the record is refused: the walk ends where it is, and a later
\* walk starts from what is recorded.
Die(w) ==
  /\ walk[w].pc \in {"walk", "record"} /\ faults < MaxFaults
  /\ walk' = [walk EXCEPT ![w].pc = "dead"]
  /\ faults' = faults + 1
  /\ UNCHANGED <<steps, done>>

\* The session goes on: another action is committed and recorded.
CommitLate ==
  /\ Cardinality({i \in DOMAIN steps : i > Length /\ steps[i].kind = "commit"}) < MaxLate
  /\ steps' = Append(steps, Recorded("commit"))
  /\ UNCHANGED <<walk, done, faults>>

Next ==
  \/ \E w \in Walks :
       Begin(w) \/ Skip(w) \/ ReportFinal(w) \/ Perform(w) \/ Record(w) \/ Finish(w) \/ Die(w)
  \/ CommitLate

Spec == Init /\ [][Next]_vars

\* What walk w did, in the order it did it.
DoneBy(w) == {i \in DOMAIN done : done[i].walk = w}

Total(r) == r.skipped + r.compensated + Cardinality(r.failures)

HasRecord(n) == \E k \in DOMAIN steps : steps[k].kind = "undo" /\ steps[k].of = n

\* What a walk cancels it cancels last step first and once; and a walk that ends has
\* accounted for every step it read: it is skipped, counted as compensated with a record
\* of it in the trajectory, or reported among the failures.
UnwindIsReverse ==
  \A w \in Walks :
    /\ \A i, j \in DoneBy(w) : i < j => done[i].step > done[j].step
    /\ walk[w].pc = "done" =>
         /\ Total(walk[w]) = walk[w].read
         /\ \A i \in DoneBy(w) : HasRecord(done[i].step)

\* "never compensate twice" (index.ts:637).  Only within one walk: a second walk that
\* began before the first one's record, or after a walk that died, cancels a step again.
NeverTwice ==
  \A i, j \in DOMAIN done : done[i].step = done[j].step => i = j

(***************************************************************************)
(* The inductive invariant of UnwindIsReverse                              *)
(***************************************************************************)
\* What is left of a read are its first steps, last first.
LastFirst(w) ==
  /\ walk[w].read <= Len(steps) /\ Len(walk[w].todo) <= walk[w].read
  /\ \A i \in DOMAIN walk[w].todo : walk[w].todo[i] = Len(walk[w].todo) - i + 1
  /\ walk[w].pc = "record" => walk[w].todo # <<>>
  /\ walk[w].pc = "done" => walk[w].todo = <<>>

\* Each step left behind is in one account.  A compensation that failed is reported
\* ahead of its record.
Ahead(r) == IF r.pc = "record" /\ ~r.ok THEN 1 ELSE 0

Accounted(w) ==
  /\ IsFiniteSet(walk[w].failures)
  /\ walk[w].pc \in {"walk", "record", "done"} =>
       /\ Total(walk[w]) = walk[w].read - Len(walk[w].todo) + Ahead(walk[w])
       /\ \A n \in walk[w].failures : n > Len(walk[w].todo) - Ahead(walk[w])

\* What a walk did it did in that order, and all but the step it is on has a record.
Undone(w) ==
  /\ \A i \in DoneBy(w) :
       \/ done[i].step > Len(walk[w].todo) /\ HasRecord(done[i].step)
       \/ done[i].step = Len(walk[w].todo) /\ walk[w].pc \in {"record", "dead"}
  /\ \A i, j \in DoneBy(w) : i < j => done[i].step > done[j].step
  /\ walk[w].pc = "idle" => DoneBy(w) = {}

IInv == TypeOK /\ \A w \in Walks : LastFirst(w) /\ Accounted(w) /\ Undone(w)

=============================================================================
