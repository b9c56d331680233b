--------------------------- MODULE ActivitySession ---------------------------
(***************************************************************************)
(* One activity session: a versioned state, its metadata and its           *)
(* trajectory, in three places that no transaction spans.                  *)
(*                                                                         *)
(*   platform/app-framework/session.ts     createSession, dispatch,        *)
(*                                         loadSession, updateSessionMeta  *)
(*   platform/app-framework/*-state-store.ts, turn.ts                      *)
(*   platform/action-pipeline/index.ts     executeActionPipeline (commit   *)
(*                                         and append), repairSession      *)
(*                                                                         *)
(* A client holds a session object, which is a snapshot, and dispatches on *)
(* it.  Every access to a store is a step.  An action the adapter or the   *)
(* pipeline refuses, and an ephemeral one, touches no store: no step here. *)
(* What applyAction computes from a state and an action is the state with  *)
(* the action's operation at its end.                                      *)
(***************************************************************************)
EXTENDS Integers, Sequences, FiniteSets

CONSTANTS
  Clients,    \* holders of a session object: a tab, a worker
  Actor,      \* whom each client acts as
  Order,      \* the session's participants, in turn order
  Ops,        \* BOUND: the operation ids that can be minted
  Commutes,   \* those whose action type is declared commutative
  Rebases,    \* do clients go on from the state a conflict returns?
  MaxFaults,  \* BOUND: crashes, failed and unanswered writes
  None        \* no operation

ASSUME SessionAssumption ==
  /\ Len(Order) \in Nat \ {0}
  /\ Order \in Seq({Actor[c] : c \in Clients})
  /\ Commutes \subseteq Ops
  /\ None \notin Ops
  /\ Rebases \in BOOLEAN
  /\ MaxFaults \in Nat

VARIABLES
  store,      \* the state store's row: version (0: no row), state, producedBy
  meta,       \* the metadata column: written yet?, turn number (0: no turns)
  trajectory, \* has the trajectory been opened?
  steps,      \* its steps: operation and version, append-only
  late,       \* conditional writes whose caller gave up and that may still land
  client,     \* the clients: where each is, and its session object
  history,    \* auxiliary: who committed what at which turn, version 2 first
  faults      \* faults so far

vars == <<store, meta, trajectory, steps, late, client, history, faults>>

ClientPC == {"idle", "openingTrajectory", "savingMeta", "loadingMeta",
             "repairLoading", "repairChecking", "repairing", "ready",
             "committing", "reducing", "recording", "savingTurn"}

\* version, state, turn: the session object.  op: the operation under way, kept
\* for a retry.  read, anchor: what the step before last read from the store.
NoSession == [pc |-> "idle", version |-> 0, state |-> <<>>, turn |-> 0,
              op |-> None, read |-> 0, anchor |-> None]

At(c, where) == client[c].pc = where
Goto(c, where) == client' = [client EXCEPT ![c].pc = where]
Drop(c) == client' = [client EXCEPT ![c] = NoSession]

Participants == {Order[i] : i \in DOMAIN Order}
Recorded == {steps[k].op : k \in DOMAIN steps}
AddStep(op, version) == steps' = Append(steps, [op |-> op, version |-> version])

\* advanceTurn moves index and number together, so the number alone tells.
Current(turn) == Order[((turn - 1) % Len(Order)) + 1]

Init ==
  /\ store = [version |-> 0, state |-> <<>>, by |-> None]
  /\ meta = [saved |-> FALSE, turn |-> 0]
  /\ trajectory = FALSE
  /\ steps = <<>>
  /\ late = {}
  /\ client = [c \in Clients |-> NoSession]
  /\ history = <<>>
  /\ faults = 0

-----------------------------------------------------------------------------
(* createSession *)

\* The store refuses a second row of the same id.
CreateState(c) ==
  /\ At(c, "idle") /\ store.version = 0
  /\ store' = [store EXCEPT !.version = 1]
  /\ \E turn \in {0, 1} :   \* is the activity turn-based?
       client' = [client EXCEPT ![c].pc = "openingTrajectory", ![c].version = 1,
                                ![c].turn = turn]
  /\ UNCHANGED <<meta, trajectory, steps, late, history, faults>>

OpenTrajectory(c) ==
  /\ At(c, "openingTrajectory")
  /\ trajectory' = TRUE
  /\ Goto(c, "savingMeta")
  /\ UNCHANGED <<store, meta, steps, late, history, faults>>

SaveMeta(c) ==
  /\ At(c, "savingMeta")
  /\ meta' = [saved |-> TRUE, turn |-> client[c].turn]
  /\ Goto(c, "ready")
  /\ UNCHANGED <<store, trajectory, steps, late, history, faults>>

-----------------------------------------------------------------------------
(* loadSession, which repairs an interrupted operation on the way *)

LoadState(c) ==
  /\ client[c].pc \in {"idle", "ready"} /\ store.version > 0
  /\ client' = [client EXCEPT ![c] =
       [NoSession EXCEPT !.pc = "loadingMeta", !.version = store.version,
                         !.state = store.state]]
  /\ UNCHANGED <<store, meta, trajectory, steps, late, history, faults>>

\* No metadata, not a participant, no trajectory: the load is refused.
LoadMeta(c) ==
  /\ At(c, "loadingMeta")
  /\ IF meta.saved /\ Actor[c] \in Participants /\ trajectory
     THEN client' = [client EXCEPT ![c].pc = "repairLoading", ![c].turn = meta.turn]
     ELSE Drop(c)
  /\ UNCHANGED <<store, meta, trajectory, steps, late, history, faults>>

\* Mutant: repair starts from the state that was loaded, not from the store's.
RepairLoadSnapshot(c) ==
  /\ At(c, "repairLoading")
  /\ IF store.by = None
     THEN Goto(c, "ready")
     ELSE client' = [client EXCEPT ![c].pc = "repairChecking",
                                   ![c].anchor = store.by, ![c].read = client[c].version]
  /\ UNCHANGED <<store, meta, trajectory, steps, late, history, faults>>

RepairLoad(c) ==
  /\ At(c, "repairLoading")
  /\ IF store.by = None
     THEN Goto(c, "ready")
     ELSE client' = [client EXCEPT ![c].pc = "repairChecking",
                                   ![c].anchor = store.by, ![c].read = store.version]
  /\ UNCHANGED <<store, meta, trajectory, steps, late, history, faults>>

\* Mutant: whatever the trajectory's last step is, it counts as the tail.
RepairCheckAny(c) ==
  /\ At(c, "repairChecking")
  /\ IF steps # <<>> THEN Goto(c, "ready") ELSE Goto(c, "repairing")
  /\ UNCHANGED <<store, meta, trajectory, steps, late, history, faults>>

RepairCheck(c) ==
  /\ At(c, "repairChecking")
  /\ IF client[c].anchor \in Recorded THEN Goto(c, "ready") ELSE Goto(c, "repairing")
  /\ UNCHANGED <<store, meta, trajectory, steps, late, history, faults>>

Repair(c) ==
  /\ At(c, "repairing")
  /\ AddStep(client[c].anchor, client[c].read)
  /\ Goto(c, "ready")
  /\ UNCHANGED <<store, meta, trajectory, late, history, faults>>

-----------------------------------------------------------------------------
(* dispatch *)

\* A fresh operation id, in use nowhere.
Fresh(op) ==
  /\ \A i \in DOMAIN history : history[i].op # op
  /\ \A w \in late : w.op # op
  /\ \A c \in Clients : client[c].op # op

MayActAny(c) == client[c].version > 0   \* mutant: the turn is not checked
MayAct(c) == client[c].turn = 0 \/ Current(client[c].turn) = Actor[c]

\* A new action under a new id, or a retry under the id that was kept.
Dispatch(c) ==
  /\ At(c, "ready") /\ MayAct(c)
  /\ \E op \in Ops :
       /\ op = client[c].op \/ (client[c].op = None /\ Fresh(op))
       /\ client' = [client EXCEPT ![c].op = op,
                       ![c].pc = "committing", ![c].read = client[c].version]
  /\ UNCHANGED <<store, meta, trajectory, steps, late, history, faults>>

Commutative(c) == client[c].op \in Commutes

\* What a commit of client c writes: the state its session object leads to.
Write(c) == [version |-> client[c].read, op |-> client[c].op,
             state |-> Append(client[c].state, client[c].op),
             actor |-> Actor[c], turn |-> client[c].turn]

\* The conditional write: one version further, if the version has not moved.
MatchesAny(w) == store.version >= w.version   \* mutant: no version precondition
Matches(w) == store.version = w.version
Put(w) ==
  /\ store' = [version |-> w.version + 1, state |-> w.state, by |-> w.op]
  /\ history' = Append(history, [op |-> w.op, actor |-> w.actor, turn |-> w.turn])

\* commit, or an attempt of reduceCommit at the version it has just read.
Commit(c) ==
  /\ client[c].pc = IF Commutative(c) THEN "reducing" ELSE "committing"
  /\ Matches(Write(c))
  /\ Put(Write(c))
  /\ client' = [client EXCEPT ![c].pc = "recording", ![c].read = @ + 1]
  /\ UNCHANGED <<meta, trajectory, steps, late, faults>>

\* reduceCommit reads the latest version before every attempt.  The reducer it
\* is given ignores the latest state: the pipeline passes () => nextState.
ReduceRead(c) ==
  /\ Commutative(c)
  /\ At(c, "committing") \/ (At(c, "reducing") /\ ~Matches(Write(c)))
  /\ client' = [client EXCEPT ![c].pc = "reducing", ![c].read = store.version]
  /\ UNCHANGED <<store, meta, trajectory, steps, late, history, faults>>

\* A lost race mutates nothing.  The client reloads, or takes the state it was
\* given and tries the same action again.
Conflict(c) ==
  /\ At(c, "committing") /\ ~Commutative(c) /\ ~Matches(Write(c))
  /\ \/ Drop(c)
     \/ /\ Rebases
        /\ client' = [client EXCEPT ![c].pc = "ready", ![c].version = store.version,
                                    ![c].state = store.state]
  /\ UNCHANGED <<store, meta, trajectory, steps, late, history, faults>>

\* No answer in time: the caller keeps its session object and its operation id,
\* and the write lands now, later or never.
CommitUnanswered(c) ==
  /\ client[c].pc = IF Commutative(c) THEN "reducing" ELSE "committing"
  /\ faults < MaxFaults
  /\ late' = late \cup {Write(c)}
  /\ Goto(c, "ready")
  /\ faults' = faults + 1
  /\ UNCHANGED <<store, meta, trajectory, steps, history>>

Land(w) ==
  /\ IF Matches(w) THEN Put(w) ELSE UNCHANGED <<store, history>>
  /\ late' = late \ {w}
  /\ UNCHANGED <<meta, trajectory, steps, client, faults>>

\* The step, derived from the commit; then the session object moves on.
Record(c) ==
  /\ At(c, "recording")
  /\ AddStep(client[c].op, client[c].read)
  /\ client' = [client EXCEPT ![c].pc = IF client[c].turn = 0 THEN "ready" ELSE "savingTurn",
                              ![c].version = client[c].read, ![c].op = None,
                              ![c].state = Append(@, client[c].op)]
  /\ UNCHANGED <<store, meta, trajectory, late, history, faults>>

\* advanceTurn and updateSessionMeta, which the caller owes after its action.
\* The metadata is written whole and without a condition.
SaveTurn(c) ==
  /\ At(c, "savingTurn")
  /\ meta' = [saved |-> TRUE, turn |-> client[c].turn + 1]
  /\ client' = [client EXCEPT ![c].pc = "ready", ![c].turn = @ + 1]
  /\ UNCHANGED <<store, trajectory, steps, late, history, faults>>

-----------------------------------------------------------------------------
\* A client dies, or a store access fails and it gives its session object up.
Crash(c) ==
  /\ ~At(c, "idle") /\ faults < MaxFaults
  /\ Drop(c)
  /\ faults' = faults + 1
  /\ UNCHANGED <<store, meta, trajectory, steps, late, history>>

\* What a client does once it has begun.
ClientStep(c) ==
  \/ OpenTrajectory(c) \/ SaveMeta(c)
  \/ LoadMeta(c) \/ RepairLoad(c) \/ RepairCheck(c) \/ Repair(c)
  \/ Commit(c) \/ ReduceRead(c) \/ Conflict(c) \/ Record(c) \/ SaveTurn(c)

ClientAction(c) ==
  \/ CreateState(c) \/ LoadState(c) \/ Dispatch(c)
  \/ ClientStep(c)
  \/ CommitUnanswered(c) \/ Crash(c)

Next == (\E c \in Clients : ClientAction(c)) \/ (\E w \in late : Land(w))

Spec == Init /\ [][Next]_vars
-----------------------------------------------------------------------------
(* Properties *)

Writes == [version : Nat, op : Ops, state : Seq(Ops), actor : {Actor[c] : c \in Clients},
           turn : Nat]
Sessions == [pc : ClientPC, version : Nat, state : Seq(Ops), turn : Nat,
             op : Ops \cup {None}, read : Nat, anchor : Ops \cup {None}]

\* Type invariant.
TypeOK ==
  /\ store \in [version : Nat, state : Seq(Ops), by : Ops \cup {None}]
  /\ meta \in [saved : BOOLEAN, turn : Nat]
  /\ trajectory \in BOOLEAN
  /\ steps \in Seq([op : Ops, version : Nat])
  /\ late \subseteq Writes
  /\ client \in [Clients -> Sessions]
  /\ history \in Seq([op : Ops, actor : {Actor[c] : c \in Clients}, turn : Nat])
  /\ faults \in Nat

\* The record never runs ahead of the state: a step names an operation and the
\* version that operation produced, whoever wrote the step, the dispatch that
\* committed or a load that repaired (ADR-031, D6: commit first, record after).
RecordedWasCommitted ==
  \A k \in DOMAIN steps :
    /\ steps[k].version - 1 \in DOMAIN history
    /\ history[steps[k].version - 1].op = steps[k].op

\* A commit of an action that is not commutative adds to the state as it stands:
\* nothing that was committed since its session was loaded is overwritten.
ExclusiveAppends ==
  [][store' # store /\ store'.by \notin Commutes \cup {None}
       => store'.state = Append(store.state, store'.by)]_vars

\* Where each participant has one client and nothing fails, the players of a
\* turn-based session move in turn, one move each, although the turn is kept
\* apart from the state and saved after it.
OneMovePerTurn ==
  faults = 0 =>
    \A i \in DOMAIN history :
      history[i].turn > 0 => history[i].turn = i /\ history[i].actor = Current(i)

\* The session implements its journal.
Journal == INSTANCE SessionJournal WITH journal <- store.state, recorded <- Recorded
ImplementsJournal == Journal!Spec

-----------------------------------------------------------------------------
(* The inductive invariant behind the safety properties *)

\* The row and the history agree on how often and by what it was written.
RowTellsHistory ==
  /\ Len(history) = IF store.version = 0 THEN 0 ELSE store.version - 1
  /\ store.by = IF history = <<>> THEN None ELSE history[Len(history)].op
  /\ store.version = 0 => store.state = <<>>

\* An operation and the version it produced, as they were read from the row.
Produced(op, version) == version - 1 \in DOMAIN history /\ history[version - 1].op = op

\* A session object of the current version has the current state, and so has a
\* write that still would match; what waits to be recorded was committed.
Snapshot(s) ==
  /\ s.version \in 1 .. store.version
  /\ s.version = store.version => s.state = store.state
  /\ s.pc \in {"openingTrajectory", "savingMeta"} => s.version = 1
  /\ s.pc = "committing" => s.op # None /\ s.read = s.version
  /\ s.pc = "reducing" => s.op # None /\ s.read \in s.version .. store.version
  /\ s.pc \in {"repairChecking", "repairing"} =>
       Produced(s.anchor, s.read) /\ s.version <= s.read
  /\ s.pc = "recording" =>
       /\ Produced(s.op, s.read) /\ s.version < s.read
       /\ s.read = store.version => store.state = Append(s.state, s.op)
Snapshots == \A c \in Clients :
  IF At(c, "idle") THEN client[c] = NoSession ELSE Snapshot(client[c])
LateWrites ==
  \A w \in late :
    /\ w.version \in 1 .. store.version
    /\ w.op \notin Commutes /\ w.version = store.version
         => w.state = Append(store.state, w.op)

\* Without commutative actions, and with clients that reload after a conflict.
ReloadOnly == Commutes = {} /\ ~Rebases

StateIsHistory ==
  /\ Len(store.state) = Len(history)
  /\ \A i \in DOMAIN history : store.state[i] = history[i].op
PastIsRecorded ==
  \A i \in DOMAIN history : i < Len(history) => history[i].op \in Recorded

\* Whoever may commit on the current version has seen it recorded.
SeenRecorded(version) == version = store.version => store.by \in Recorded \cup {None}
Acting(c) == client[c].pc \in {"ready", "committing", "savingTurn"}
WritersSawRecorded ==
  /\ \A c \in Clients : Acting(c) => SeenRecorded(client[c].version)
  /\ \A w \in late : SeenRecorded(w.version)

\* An operation that is already committed is only held, or still on its way, at
\* a version from before it was.
Retryable(c) == client[c].pc \in {"ready", "committing"}
RetriesAreStale ==
  \A i \in DOMAIN history :
    /\ \A c \in Clients :
         Retryable(c) /\ client[c].op = history[i].op => client[c].version <= i
    /\ \A w \in late : w.op = history[i].op => w.version <= i
OperationsApart ==
  /\ \A c \in Clients : client[c].op # None => Retryable(c) \/ At(c, "recording")
  /\ \A c, d \in Clients : client[c].op = client[d].op /\ client[c].op # None => c = d
  /\ \A c \in Clients, w \in late :
       Retryable(c) /\ client[c].op = w.op => client[c].version = w.version
  /\ \A v, w \in late : v.op = w.op => v.version = w.version

JournalInv ==
  /\ StateIsHistory
  /\ PastIsRecorded
  /\ WritersSawRecorded
  /\ RetriesAreStale
  /\ OperationsApart

IInv ==
  /\ TypeOK
  /\ RowTellsHistory
  /\ Snapshots
  /\ LateWrites
  /\ RecordedWasCommitted
  /\ ReloadOnly => JournalInv

\* Turns, where each participant has one client and nothing has failed.
OneClientEach == \A c, d \in Clients : Actor[c] = Actor[d] => c = d
Creating(c) == client[c].pc \in {"openingTrajectory", "savingMeta"}
Playing(c) == client[c].pc \notin {"idle", "loadingMeta"}
Moving(c) == client[c].pc \in {"recording", "savingTurn"}

\* Nobody but its creator has the session before its metadata is saved.
BeforeMeta ==
  /\ history = <<>>
  /\ \A c \in Clients : Playing(c) => Creating(c) /\ client[c].turn \in {0, 1}
  /\ \A c, d \in Clients : Playing(c) /\ Playing(d) => c = d

\* A session is played with turns or without.
WithoutTurns ==
  /\ \A i \in DOMAIN history : history[i].turn = 0
  /\ \A c \in Clients : Playing(c) => client[c].turn = 0 /\ ~At(c, "savingTurn")

\* The saved turn is the one to be moved, or its mover has yet to save the next; a session
\* object may be of an earlier turn, but never of one its own holder has moved.
WithTurns ==
  /\ Len(history) \in {meta.turn - 1, meta.turn}
  /\ Len(history) = meta.turn => \E c \in Clients : Moving(c)
  /\ \A i \in DOMAIN history : history[i].turn = i /\ history[i].actor = Current(i)
  /\ \A c \in Clients : Playing(c) => client[c].turn \in 1 .. meta.turn
  /\ \A c \in Clients : Moving(c) =>
       /\ client[c].turn = meta.turn /\ Len(history) = meta.turn
       /\ Actor[c] = Current(meta.turn)
  /\ \A c \in Clients : Playing(c) =>
       \A i \in DOMAIN history : history[i].actor = Actor[c] /\ i >= client[c].turn => Moving(c)

TurnsInOrder ==
  /\ late = {}
  /\ \A c \in Clients : client[c].pc \in {"committing", "reducing"} => MayAct(c)
  /\ IF meta.saved
     THEN /\ store.version > 0 /\ \A c \in Clients : ~Creating(c)
          /\ IF meta.turn = 0 THEN WithoutTurns ELSE WithTurns
     ELSE BeforeMeta

-----------------------------------------------------------------------------
(* What the sources say and the code does not do *)

\* "One operationId yields at most one stateVersion" (ADR-031).
OneVersionPerOperation ==
  \A i, j \in DOMAIN history : history[i].op = history[j].op => i = j

-----------------------------------------------------------------------------
(* Progress *)

\* A client's code runs on, and a client comes back to load the session again.
Fairness == \A c \in Clients : WF_vars(ClientStep(c)) /\ WF_vars(LoadState(c))
FairSpec == Spec /\ Fairness

\* What was committed is in the trajectory in the end, although the client that
\* committed may have died before it wrote the step (ADR-031, D6).
CommittedIsRecorded ==
  \A op \in Ops :
    (\E i \in DOMAIN history : history[i].op = op) ~> op \in Recorded
=============================================================================
