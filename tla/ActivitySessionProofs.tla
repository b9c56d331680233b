------------------------ MODULE ActivitySessionProofs ------------------------
(***************************************************************************)
(* Proofs about ActivitySession, for every set of clients, participants    *)
(* and operations, and any number of faults.                               *)
(***************************************************************************)
EXTENDS ActivitySession, TLAPS

-----------------------------------------------------------------------------
(* The initial state *)

LEMMA InitInv == Init => IInv
<1> SUFFICES ASSUME Init PROVE IInv
  OBVIOUS
<1>1. NoSession \in Sessions
  <2>1. <<>> \in Seq(Ops)
    OBVIOUS
  <2> QED BY <2>1 DEF NoSession, Sessions, ClientPC
<1>2. TypeOK
  <2>1. store \in [version : Nat, state : Seq(Ops), by : Ops \cup {None}]
    <3>1. <<>> \in Seq(Ops)
      OBVIOUS
    <3> QED BY <3>1 DEF Init
  <2>2. /\ steps \in Seq([op : Ops, version : Nat])
        /\ history \in Seq([op : Ops, actor : {Actor[c] : c \in Clients}, turn : Nat])
    BY DEF Init
  <2>3. client \in [Clients -> Sessions]
    BY <1>1 DEF Init
  <2>4. late \subseteq Writes /\ meta \in [saved : BOOLEAN, turn : Nat]
    BY DEF Init
  <2>5. trajectory \in BOOLEAN /\ faults \in Nat
    BY DEF Init
  <2> QED BY <2>1, <2>2, <2>3, <2>4, <2>5 DEF TypeOK
<1>3. RowTellsHistory /\ LateWrites /\ RecordedWasCommitted
  BY DEF Init, RowTellsHistory, LateWrites, RecordedWasCommitted
<1>4. \A c \in Clients : client[c] = NoSession
  BY DEF Init
<1>5. Snapshots
  BY <1>4 DEF Snapshots, At, NoSession
<1>6. StateIsHistory /\ PastIsRecorded
  BY DEF Init, StateIsHistory, PastIsRecorded
<1>7. WritersSawRecorded /\ RetriesAreStale
  BY <1>4 DEF Init, WritersSawRecorded, RetriesAreStale, Acting, NoSession
<1>8. OperationsApart
  BY <1>4 DEF Init, OperationsApart, NoSession
<1> QED BY <1>2, <1>3, <1>5, <1>6, <1>7, <1>8 DEF IInv, JournalInv

-----------------------------------------------------------------------------
(* Steps that only move a client *)

\* The trajectory stays as it is, or gets a step of an operation that happened.
StepsGrow ==
  \/ UNCHANGED steps
  \/ \E op \in Ops, version \in Nat : Produced(op, version) /\ AddStep(op, version)

\* Session object r, put in the place of client c's, keeps the journal in order.
WillHaveSeen(version) == version = store.version => store.by \in Recorded' \cup {None}
Fits(c, r) ==
  /\ r.pc \in {"ready", "committing", "savingTurn"} => WillHaveSeen(r.version)
  /\ r.op # None => r.pc \in {"ready", "committing", "recording"}
  /\ r.op # None => \A d \in Clients \ {c} : client[d].op # r.op
  /\ r.pc \in {"ready", "committing"} =>
       /\ \A i \in DOMAIN history : r.op = history[i].op => r.version <= i
       /\ \A w \in late : r.op = w.op => r.version = w.version

\* The metadata, the trajectory's existence and the faults are only typed.
OtherTyped ==
  /\ meta \in [saved : BOOLEAN, turn : Nat]
  /\ trajectory \in BOOLEAN
  /\ faults \in Nat

LEMMA StepsOnlyGrow ==
  ASSUME IInv, StepsGrow, UNCHANGED history
  PROVE  /\ steps' \in Seq([op : Ops, version : Nat])
         /\ Recorded \subseteq Recorded'
         /\ RecordedWasCommitted'
<1>1. steps \in Seq([op : Ops, version : Nat]) /\ RecordedWasCommitted
  BY DEF IInv, TypeOK
<1>2. CASE UNCHANGED steps
  BY <1>1, <1>2 DEF RecordedWasCommitted, Recorded
<1>3. CASE \E op \in Ops, version \in Nat : Produced(op, version) /\ AddStep(op, version)
  <2>1. PICK op \in Ops, version \in Nat : Produced(op, version) /\ AddStep(op, version)
    BY <1>3
  <2> DEFINE new == [op |-> op, version |-> version]
  <2>2. new \in [op : Ops, version : Nat] /\ steps' = Append(steps, new)
    BY <2>1 DEF AddStep
  <2> HIDE DEF new
  <2>3. /\ steps' \in Seq([op : Ops, version : Nat])
        /\ DOMAIN steps' = 1 .. Len(steps) + 1
        /\ DOMAIN steps = 1 .. Len(steps)
        /\ \A k \in DOMAIN steps : k \in DOMAIN steps' /\ steps'[k] = steps[k]
        /\ steps'[Len(steps) + 1] = new
        /\ Len(steps) \in Nat
    BY <1>1, <2>2
  <2>4. Recorded \subseteq Recorded'
    BY <2>3 DEF Recorded
  <2>5. RecordedWasCommitted'
    <3> SUFFICES ASSUME NEW k \in DOMAIN steps'
                 PROVE  Produced(steps'[k].op, steps'[k].version)
      BY DEF RecordedWasCommitted, Produced
    <3>1. CASE k \in DOMAIN steps
      BY <3>1, <1>1, <2>3 DEF RecordedWasCommitted, Produced
    <3>2. CASE k = Len(steps) + 1
      BY <3>2, <2>1, <2>3 DEF new
    <3> QED BY <3>1, <3>2, <2>3
  <2> QED BY <2>3, <2>4, <2>5
<1> QED BY <1>2, <1>3 DEF StepsGrow

\* Replacing one client's session object by one that is a snapshot, and fits.
LEMMA ClientMoves ==
  ASSUME IInv, NEW c \in Clients, NEW r \in Sessions,
         client' = [client EXCEPT ![c] = r],
         UNCHANGED <<store, late, history>>, StepsGrow, OtherTyped',
         IF r.pc = "idle" THEN r = NoSession ELSE Snapshot(r),
         ReloadOnly => Fits(c, r)
  PROVE  IInv'
<1>1. client' \in [Clients -> Sessions] /\ \A d \in Clients : client'[d] = IF d = c THEN r ELSE client[d]
  BY DEF IInv, TypeOK
<1>2. TypeOK'
  BY <1>1, StepsOnlyGrow DEF IInv, TypeOK, OtherTyped
<1>3. RowTellsHistory' /\ LateWrites' /\ RecordedWasCommitted'
  BY StepsOnlyGrow DEF IInv, RowTellsHistory, LateWrites
<1>4. Snapshots'
  <2>1. \A d \in Clients : IF client'[d].pc = "idle" THEN client'[d] = NoSession
                                                     ELSE Snapshot(client'[d])
    BY <1>1 DEF IInv, Snapshots, At
  <2> QED BY <2>1 DEF Snapshots, At, Snapshot, Produced
<1>5. ASSUME ReloadOnly PROVE JournalInv'
  <2> USE <1>5
  <2>1. JournalInv /\ Fits(c, r)
    BY DEF IInv
  <2>2. Recorded \subseteq Recorded'
    BY StepsOnlyGrow
  <2>3. StateIsHistory' /\ PastIsRecorded'
    BY <2>1, <2>2 DEF JournalInv, StateIsHistory, PastIsRecorded
  <2>4. \A v : SeenRecorded(v) \/ WillHaveSeen(v) => SeenRecorded(v)'
    BY <2>2 DEF SeenRecorded, WillHaveSeen
  <2>5. WritersSawRecorded'
    BY <1>1, <2>1, <2>4 DEF JournalInv, WritersSawRecorded, Acting, Fits
  <2>6. RetriesAreStale'
    BY <1>1, <2>1 DEF JournalInv, RetriesAreStale, Retryable, Fits
  <2>7. OperationsApart'
    BY <1>1, <2>1 DEF JournalInv, OperationsApart, Retryable, At, Fits
  <2> QED BY <2>3, <2>5, <2>6, <2>7 DEF JournalInv
<1> QED BY <1>2, <1>3, <1>4, <1>5 DEF IInv, ReloadOnly

\* What the invariant says of one client.
LEMMA OneClient ==
  ASSUME IInv, NEW c \in Clients
  PROVE  /\ client[c] \in Sessions
         /\ IF client[c].pc = "idle" THEN client[c] = NoSession ELSE Snapshot(client[c])
         /\ store.version \in Nat
         /\ store.by \in Ops \cup {None}
         /\ OtherTyped
BY DEF IInv, TypeOK, Snapshots, At, OtherTyped

\* What happened, and what may still happen, has an operation.
LEMMA RealOperations ==
  ASSUME IInv
  PROVE  /\ \A i \in DOMAIN history : history[i].op \in Ops
         /\ \A w \in late : w.op \in Ops
         /\ None \notin Ops
         /\ Len(history) \in Nat /\ DOMAIN history = 1 .. Len(history)
<1>1. late \subseteq Writes /\ history \in Seq([op : Ops, actor : {Actor[c] : c \in Clients}, turn : Nat])
  BY DEF IInv, TypeOK
<1>2. \A w \in late : w.op \in Ops
  BY <1>1 DEF Writes
<1>3. /\ \A i \in DOMAIN history : history[i].op \in Ops
      /\ Len(history) \in Nat /\ DOMAIN history = 1 .. Len(history)
  <2> DEFINE Commits == [op : Ops, actor : {Actor[c] : c \in Clients}, turn : Nat]
  <2>1. /\ \A i \in DOMAIN history : history[i] \in Commits
        /\ Len(history) \in Nat /\ DOMAIN history = 1 .. Len(history)
    <3>1. history \in Seq(Commits)
      BY <1>1
    <3> HIDE DEF Commits
    <3> QED BY <3>1
  <2>2. \A e \in Commits : e.op \in Ops
    OBVIOUS
  <2> HIDE DEF Commits
  <2> QED BY <2>1, <2>2
<1> QED BY <1>2, <1>3, SessionAssumption

\* A client without an operation, placed where it may act, only needs to have
\* seen the current version recorded.
LEMMA ReadyFits ==
  ASSUME IInv, NEW c \in Clients, NEW r \in Sessions,
         UNCHANGED <<store, steps>>,
         r.pc = "ready", r.op = None, SeenRecorded(r.version)
  PROVE  Fits(c, r)
<1>1. WillHaveSeen(r.version)
  BY DEF SeenRecorded, WillHaveSeen, Recorded
<1> QED BY <1>1, RealOperations DEF Fits

\* Giving the session object up.
LEMMA DropFits ==
  ASSUME NEW c \in Clients
  PROVE  NoSession \in Sessions /\ Fits(c, NoSession)
<1>1. <<>> \in Seq(Ops)
  OBVIOUS
<1>2. NoSession \in Sessions
  BY <1>1 DEF NoSession, Sessions, ClientPC
<1>3. Fits(c, NoSession)
  BY DEF NoSession, Fits
<1> QED BY <1>2, <1>3

\* createSession after its first step.
LEMMA OpenTrajectoryInv ==
  ASSUME IInv, NEW c \in Clients, OpenTrajectory(c)
  PROVE  IInv'
<1> DEFINE r == [client[c] EXCEPT !.pc = "savingMeta"]
<1>1. r \in Sessions /\ Snapshot(r)
  BY OneClient DEF OpenTrajectory, At, Sessions, ClientPC, Snapshot
<1>2. ReloadOnly => Fits(c, r)
  BY OneClient DEF IInv, JournalInv, OperationsApart, Retryable, Fits, OpenTrajectory, At, Sessions
<1>3. client' = [client EXCEPT ![c] = r] /\ r.pc # "idle"
  BY OneClient DEF OpenTrajectory, Goto, Sessions
<1>4. OtherTyped' /\ StepsGrow /\ UNCHANGED <<store, late, history>>
  BY OneClient DEF OpenTrajectory, OtherTyped, StepsGrow
<1> HIDE DEF r
<1> QED BY <1>1, <1>2, <1>3, <1>4, ClientMoves

LEMMA SaveMetaInv ==
  ASSUME IInv, NEW c \in Clients, SaveMeta(c)
  PROVE  IInv'
<1> DEFINE r == [client[c] EXCEPT !.pc = "ready"]
<1>1. r \in Sessions /\ Snapshot(r)
  BY OneClient DEF SaveMeta, At, Sessions, ClientPC, Snapshot
<1>2. ReloadOnly => Fits(c, r)
  <2>1. client[c].version = 1 /\ client[c] \in Sessions
    BY OneClient DEF SaveMeta, At, Snapshot
  <2>2. store.version = 1 => store.by = None
    BY DEF IInv, TypeOK, RowTellsHistory
  <2>3. SeenRecorded(r.version) /\ r.pc = "ready" /\ r.op = client[c].op
    BY <2>1, <2>2 DEF SeenRecorded, Sessions
  <2>4. ReloadOnly => r.op = None
    BY <2>3 DEF IInv, JournalInv, OperationsApart, Retryable, SaveMeta, At
  <2>5. UNCHANGED <<store, steps>>
    BY DEF SaveMeta
  <2> HIDE DEF r
  <2> QED BY <1>1, <2>3, <2>4, <2>5, ReadyFits
<1>3. client' = [client EXCEPT ![c] = r] /\ r.pc # "idle"
  BY OneClient DEF SaveMeta, Goto, Sessions
<1>4. OtherTyped' /\ StepsGrow /\ UNCHANGED <<store, late, history>>
  BY OneClient DEF SaveMeta, OtherTyped, StepsGrow, Sessions
<1> HIDE DEF r
<1> QED BY <1>1, <1>2, <1>3, <1>4, ClientMoves

-----------------------------------------------------------------------------
(* loadSession *)

LEMMA LoadStateInv ==
  ASSUME IInv, NEW c \in Clients, LoadState(c)
  PROVE  IInv'
<1> DEFINE r == [NoSession EXCEPT !.pc = "loadingMeta", !.version = store.version,
                                  !.state = store.state]
<1>1. r \in Sessions /\ Snapshot(r)
  <2>1. store.version \in Nat /\ store.version > 0 /\ store.state \in Seq(Ops)
    BY DEF LoadState, IInv, TypeOK
  <2>2. /\ r \in Sessions
        /\ r.pc = "loadingMeta" /\ r.version = store.version /\ r.state = store.state
    BY <2>1, DropFits DEF Sessions, ClientPC
  <2> HIDE DEF r
  <2> QED BY <2>1, <2>2 DEF Snapshot
<1>2. Fits(c, r)
  BY DEF Fits, NoSession
<1>3. client' = [client EXCEPT ![c] = r] /\ r.pc # "idle"
  BY DEF LoadState, NoSession
<1>4. OtherTyped' /\ StepsGrow /\ UNCHANGED <<store, late, history>>
  BY OneClient DEF LoadState, OtherTyped, StepsGrow
<1> HIDE DEF r
<1> QED BY <1>1, <1>2, <1>3, <1>4, ClientMoves

LEMMA LoadMetaInv ==
  ASSUME IInv, NEW c \in Clients, LoadMeta(c)
  PROVE  IInv'
<1>1. OtherTyped' /\ StepsGrow /\ UNCHANGED <<store, late, history>>
  BY OneClient DEF LoadMeta, OtherTyped, StepsGrow
<1>2. CASE client' = [client EXCEPT ![c].pc = "repairLoading", ![c].turn = meta.turn]
  <2> DEFINE r == [client[c] EXCEPT !.pc = "repairLoading", !.turn = meta.turn]
  <2>1. r \in Sessions /\ Snapshot(r)
    BY OneClient DEF LoadMeta, At, OtherTyped, Sessions, ClientPC, Snapshot
  <2>2. ReloadOnly => Fits(c, r)
    BY OneClient DEF IInv, JournalInv, OperationsApart, Retryable, Fits, LoadMeta, At, Sessions
  <2>3. client' = [client EXCEPT ![c] = r] /\ r.pc # "idle"
    BY <1>2, OneClient DEF Sessions
  <2> HIDE DEF r
  <2> QED BY <1>1, <2>1, <2>2, <2>3, ClientMoves
<1>3. CASE Drop(c)
  BY <1>1, <1>3, DropFits, ClientMoves DEF Drop, NoSession
<1> QED BY <1>2, <1>3 DEF LoadMeta

LEMMA RepairLoadInv ==
  ASSUME IInv, NEW c \in Clients, RepairLoad(c)
  PROVE  IInv'
<1>1. OtherTyped' /\ StepsGrow /\ UNCHANGED <<store, late, history>>
  BY OneClient DEF RepairLoad, OtherTyped, StepsGrow
<1>2. client[c].op # None => ~ReloadOnly
  BY DEF IInv, JournalInv, OperationsApart, Retryable, RepairLoad, At
<1>3. CASE store.by = None /\ Goto(c, "ready")
  <2> DEFINE r == [client[c] EXCEPT !.pc = "ready"]
  <2>1. r \in Sessions /\ Snapshot(r)
    BY OneClient DEF RepairLoad, At, Sessions, ClientPC, Snapshot
  <2>2. ReloadOnly => Fits(c, r)
    <3>1. r.pc = "ready" /\ r.op = client[c].op /\ SeenRecorded(r.version)
      BY <1>3, OneClient DEF SeenRecorded, Sessions
    <3>2. UNCHANGED <<store, steps>>
      BY DEF RepairLoad
    <3> HIDE DEF r
    <3> QED BY <1>2, <2>1, <3>1, <3>2, ReadyFits
  <2>3. client' = [client EXCEPT ![c] = r] /\ r.pc # "idle"
    BY <1>3, OneClient DEF Goto, Sessions
  <2> HIDE DEF r
  <2> QED BY <1>1, <2>1, <2>2, <2>3, ClientMoves
<1>4. CASE /\ store.by # None
           /\ client' = [client EXCEPT ![c].pc = "repairChecking",
                                   ![c].anchor = store.by, ![c].read = store.version]
  <2> DEFINE r == [client[c] EXCEPT !.pc = "repairChecking",
                                    !.anchor = store.by, !.read = store.version]
  <2>1. r \in Sessions
    BY OneClient DEF RepairLoad, At, Sessions, ClientPC
  <2>2. Produced(store.by, store.version)
    BY <1>4 DEF IInv, TypeOK, RowTellsHistory, Produced
  <2>3. Snapshot(r)
    BY <2>2, OneClient DEF RepairLoad, At, Sessions, Snapshot
  <2>4. ReloadOnly => Fits(c, r)
    BY <1>2, OneClient DEF Fits, Sessions
  <2>5. client' = [client EXCEPT ![c] = r] /\ r.pc # "idle"
    BY <1>4, OneClient DEF Sessions
  <2> HIDE DEF r
  <2> QED BY <1>1, <2>1, <2>3, <2>4, <2>5, ClientMoves
<1> QED BY <1>3, <1>4 DEF RepairLoad

LEMMA RepairCheckInv ==
  ASSUME IInv, NEW c \in Clients, RepairCheck(c)
  PROVE  IInv'
<1>1. OtherTyped' /\ StepsGrow /\ UNCHANGED <<store, late, history>>
  BY OneClient DEF RepairCheck, OtherTyped, StepsGrow
<1>2. client[c].op # None => ~ReloadOnly
  BY DEF IInv, JournalInv, OperationsApart, Retryable, RepairCheck, At
<1>3. Produced(client[c].anchor, client[c].read) /\ client[c].version <= client[c].read
  BY OneClient DEF RepairCheck, At, Snapshot
<1>4. CASE client[c].anchor \in Recorded /\ Goto(c, "ready")
  <2> DEFINE r == [client[c] EXCEPT !.pc = "ready"]
  <2>1. r \in Sessions /\ Snapshot(r)
    BY OneClient DEF RepairCheck, At, Sessions, ClientPC, Snapshot
  <2>2. SeenRecorded(client[c].version)
    <3> SUFFICES ASSUME client[c].version = store.version
                 PROVE  store.by = client[c].anchor
      BY <1>4 DEF SeenRecorded
    <3>1. history # <<>> /\ Len(history) = store.version - 1 /\ store.version \in Nat
      BY <1>3 DEF IInv, TypeOK, RowTellsHistory, Produced
    <3>2. client[c].read \in Nat /\ client[c].read - 1 \in 1 .. Len(history)
      BY <1>3, OneClient, RealOperations DEF Produced, Sessions
    <3>3. client[c].read - 1 = Len(history)
      BY <1>3, <3>1, <3>2, OneClient DEF Sessions
    <3> QED BY <1>3, <3>1, <3>3 DEF IInv, RowTellsHistory, Produced
  <2>3. ReloadOnly => Fits(c, r)
    <3>1. r.pc = "ready" /\ r.op = client[c].op /\ SeenRecorded(r.version)
      BY <2>2, OneClient DEF Sessions
    <3>2. UNCHANGED <<store, steps>>
      BY DEF RepairCheck
    <3> HIDE DEF r
    <3> QED BY <1>2, <2>1, <3>1, <3>2, ReadyFits
  <2>4. client' = [client EXCEPT ![c] = r] /\ r.pc # "idle"
    BY <1>4, OneClient DEF Goto, Sessions
  <2> HIDE DEF r
  <2> QED BY <1>1, <2>1, <2>3, <2>4, ClientMoves
<1>5. CASE Goto(c, "repairing")
  <2> DEFINE r == [client[c] EXCEPT !.pc = "repairing"]
  <2>1. r \in Sessions /\ Snapshot(r)
    BY OneClient DEF RepairCheck, At, Sessions, ClientPC, Snapshot
  <2>2. ReloadOnly => Fits(c, r)
    BY <1>2, OneClient DEF Fits, Sessions
  <2>3. client' = [client EXCEPT ![c] = r] /\ r.pc # "idle"
    BY <1>5, OneClient DEF Goto, Sessions
  <2> HIDE DEF r
  <2> QED BY <1>1, <2>1, <2>2, <2>3, ClientMoves
<1> QED BY <1>4, <1>5 DEF RepairCheck

\* After an operation's step is written, so is that of every earlier version.
LEMMA StepSeen ==
  ASSUME IInv, NEW op \in Ops, NEW version \in Nat,
         Produced(op, version), AddStep(op, version)
  PROVE  \A v \in Nat : v <= version => WillHaveSeen(v)
<1> SUFFICES ASSUME version >= store.version
             PROVE  store.by \in Recorded'
  BY OneClient DEF WillHaveSeen, IInv, TypeOK
<1>1. history # <<>> /\ Len(history) = store.version - 1 /\ store.version \in Nat
  BY RealOperations DEF IInv, TypeOK, RowTellsHistory, Produced
<1>2. version - 1 = Len(history)
  BY <1>1, RealOperations DEF Produced
<1>3. store.by = op
  BY <1>1, <1>2 DEF IInv, RowTellsHistory, Produced
<1>4. op \in Recorded'
  <2> DEFINE new == [op |-> op, version |-> version]
  <2>1. new \in [op : Ops, version : Nat] /\ steps' = Append(steps, new)
    BY DEF AddStep
  <2>2. steps \in Seq([op : Ops, version : Nat])
    BY DEF IInv, TypeOK
  <2>3. new.op = op
    OBVIOUS
  <2> HIDE DEF new
  <2>4. Len(steps) + 1 \in DOMAIN steps' /\ steps'[Len(steps) + 1] = new
    BY <2>1, <2>2
  <2> QED BY <2>3, <2>4 DEF Recorded
<1> QED BY <1>3, <1>4

\* The repair writes the step of an operation that it saw in the row.
LEMMA RepairInv ==
  ASSUME IInv, NEW c \in Clients, Repair(c)
  PROVE  IInv'
<1> DEFINE r == [client[c] EXCEPT !.pc = "ready"]
<1>1. Produced(client[c].anchor, client[c].read) /\ client[c].version <= client[c].read
  BY OneClient DEF Repair, At, Snapshot
<1>2. client[c].anchor \in Ops /\ client[c].read \in Nat /\ client[c].version \in Nat
  BY <1>1, OneClient, RealOperations DEF Produced, Sessions
<1>3. r \in Sessions /\ Snapshot(r)
  BY OneClient DEF Repair, At, Sessions, ClientPC, Snapshot
<1>4. StepsGrow
  BY <1>1, <1>2 DEF StepsGrow, Repair
<1>5. OtherTyped' /\ UNCHANGED <<store, late, history>>
  BY OneClient DEF Repair, OtherTyped
<1>6. WillHaveSeen(client[c].version)
  BY <1>1, <1>2, StepSeen DEF Repair
<1>7. ReloadOnly => r.op = None
  <2>1. r.op = client[c].op
    BY OneClient DEF Sessions
  <2> QED BY <2>1 DEF IInv, JournalInv, OperationsApart, Retryable, Repair, At
<1>8. r.pc = "ready" /\ r.version = client[c].version
  BY OneClient DEF Sessions
<1>9. client' = [client EXCEPT ![c] = r]
  BY OneClient DEF Repair, Goto, Sessions
<1> HIDE DEF r
<1>10. ReloadOnly => Fits(c, r)
  BY <1>6, <1>7, <1>8, RealOperations DEF Fits
<1> QED BY <1>3, <1>4, <1>5, <1>8, <1>9, <1>10, ClientMoves

-----------------------------------------------------------------------------
(* dispatch, up to its commit *)

LEMMA DispatchInv ==
  ASSUME IInv, NEW c \in Clients, Dispatch(c)
  PROVE  IInv'
<1>1. PICK op \in Ops :
        /\ op = client[c].op \/ (client[c].op = None /\ Fresh(op))
        /\ client' = [client EXCEPT ![c].op = op,
                        ![c].pc = "committing", ![c].read = client[c].version]
  BY DEF Dispatch
<1> DEFINE r == [client[c] EXCEPT !.op = op, !.pc = "committing", !.read = client[c].version]
<1>2. /\ r \in Sessions
      /\ r.pc = "committing" /\ r.op = op /\ r.version = client[c].version
      /\ r.read = client[c].version /\ r.state = client[c].state
  BY OneClient DEF Sessions, ClientPC
<1>3. client' = [client EXCEPT ![c] = r]
  BY <1>1, OneClient DEF Sessions
<1>4. OtherTyped' /\ StepsGrow /\ UNCHANGED <<store, steps, late, history>>
  BY OneClient DEF Dispatch, OtherTyped, StepsGrow
<1> HIDE DEF r
<1>5. Snapshot(r)
  BY <1>2, OneClient, RealOperations DEF Dispatch, At, Snapshot
<1>6. ASSUME ReloadOnly PROVE Fits(c, r)
  <2>1. JournalInv /\ client[c].pc = "ready"
    BY <1>6 DEF IInv, Dispatch, At
  <2>2. WillHaveSeen(r.version)
    BY <1>2, <1>4, <2>1 DEF JournalInv, WritersSawRecorded, Acting, SeenRecorded, WillHaveSeen, Recorded
  <2>3. CASE op = client[c].op
    <3>1. \A d \in Clients \ {c} : client[d].op # op
      BY <2>1, <2>3, RealOperations DEF JournalInv, OperationsApart
    <3>2. \A i \in DOMAIN history : op = history[i].op => client[c].version <= i
      BY <2>1, <2>3 DEF JournalInv, RetriesAreStale, Retryable
    <3>3. \A w \in late : op = w.op => client[c].version = w.version
      BY <2>1, <2>3 DEF JournalInv, OperationsApart, Retryable
    <3> QED BY <1>2, <2>2, <3>1, <3>2, <3>3 DEF Fits
  <2>4. CASE Fresh(op)
    BY <1>2, <2>2, <2>4 DEF Fits, Fresh
  <2> QED BY <1>1, <2>3, <2>4
<1> QED BY <1>2, <1>3, <1>4, <1>5, <1>6, ClientMoves

LEMMA ReduceReadInv ==
  ASSUME IInv, NEW c \in Clients, ReduceRead(c)
  PROVE  IInv'
<1> DEFINE r == [client[c] EXCEPT !.pc = "reducing", !.read = store.version]
<1>1. /\ r \in Sessions
      /\ r.pc = "reducing" /\ r.op = client[c].op /\ r.version = client[c].version
      /\ r.read = store.version /\ r.state = client[c].state
  BY OneClient DEF Sessions, ClientPC
<1>2. client' = [client EXCEPT ![c] = r]
  BY OneClient DEF ReduceRead, Sessions
<1>3. OtherTyped' /\ StepsGrow /\ UNCHANGED <<store, late, history>>
  BY OneClient DEF ReduceRead, OtherTyped, StepsGrow
<1> HIDE DEF r
<1>4. Snapshot(r)
  BY <1>1, OneClient DEF ReduceRead, At, Snapshot, Sessions
<1>5. ~ReloadOnly
  BY DEF ReduceRead, Commutative, ReloadOnly
<1> QED BY <1>1, <1>2, <1>3, <1>4, <1>5, ClientMoves

LEMMA ConflictInv ==
  ASSUME IInv, NEW c \in Clients, Conflict(c)
  PROVE  IInv'
<1>1. OtherTyped' /\ StepsGrow /\ UNCHANGED <<store, late, history>>
  BY OneClient DEF Conflict, OtherTyped, StepsGrow
<1>2. CASE Drop(c)
  BY <1>1, <1>2, DropFits, ClientMoves DEF Drop, NoSession
<1>3. CASE Rebases /\ client' = [client EXCEPT ![c].pc = "ready", ![c].version = store.version,
                                    ![c].state = store.state]
  <2> DEFINE r == [client[c] EXCEPT !.pc = "ready", !.version = store.version,
                                    !.state = store.state]
  <2>1. store.version \in Nat /\ store.state \in Seq(Ops)
    BY DEF IInv, TypeOK
  <2>2. /\ r \in Sessions
        /\ r.pc = "ready" /\ r.version = store.version /\ r.state = store.state
    BY <2>1, OneClient DEF Sessions, ClientPC
  <2>3. client' = [client EXCEPT ![c] = r]
    BY <1>3, OneClient DEF Sessions
  <2>4. store.version > 0
    BY OneClient, <2>1 DEF Conflict, At, Snapshot, Sessions
  <2> HIDE DEF r
  <2>5. Snapshot(r)
    BY <2>1, <2>2, <2>4 DEF Snapshot
  <2>6. ~ReloadOnly
    BY <1>3 DEF ReloadOnly
  <2> QED BY <1>1, <2>2, <2>3, <2>5, <2>6, ClientMoves
<1> QED BY <1>2, <1>3 DEF Conflict

LEMMA CrashInv ==
  ASSUME IInv, NEW c \in Clients, Crash(c)
  PROVE  IInv'
<1>1. OtherTyped' /\ StepsGrow /\ UNCHANGED <<store, late, history>>
  BY OneClient DEF Crash, OtherTyped, StepsGrow
<1> QED BY <1>1, DropFits, ClientMoves DEF Crash, Drop, NoSession

-----------------------------------------------------------------------------
(* dispatch, after its commit *)

LEMMA RecordInv ==
  ASSUME IInv, NEW c \in Clients, Record(c)
  PROVE  IInv'
<1> DEFINE r == [client[c] EXCEPT !.pc = IF client[c].turn = 0 THEN "ready" ELSE "savingTurn",
                                  !.version = client[c].read, !.op = None,
                                  !.state = Append(client[c].state, client[c].op)]
<1>1. /\ Produced(client[c].op, client[c].read)
      /\ client[c].read = store.version => store.state = Append(client[c].state, client[c].op)
  BY OneClient DEF Record, At, Snapshot
<1>2. client[c].op \in Ops /\ client[c].read \in 1 .. store.version
  BY <1>1, OneClient, RealOperations DEF Produced, Sessions, IInv, RowTellsHistory
<1>3. /\ r \in Sessions
      /\ r.pc \in {"ready", "savingTurn"} /\ r.op = None /\ r.version = client[c].read
      /\ r.state = Append(client[c].state, client[c].op)
  <2> DEFINE longer == Append(client[c].state, client[c].op)
             next == IF client[c].turn = 0 THEN "ready" ELSE "savingTurn"
  <2>1. longer \in Seq(Ops)
    BY <1>2, OneClient DEF Sessions
  <2>2. next \in {"ready", "savingTurn"}
    OBVIOUS
  <2>3. r = [client[c] EXCEPT !.pc = next, !.version = client[c].read, !.op = None, !.state = longer]
    OBVIOUS
  <2> HIDE DEF r, longer, next
  <2>4. /\ r \in Sessions
        /\ r.pc = next /\ r.op = None /\ r.version = client[c].read /\ r.state = longer
    BY <2>1, <2>2, <2>3, OneClient DEF Sessions, ClientPC
  <2> QED BY <2>2, <2>4 DEF longer
<1>4. client' = [client EXCEPT ![c] = r]
  BY OneClient DEF Record, Sessions
<1>5. StepsGrow
  BY <1>1, <1>2 DEF StepsGrow, Record
<1>6. OtherTyped' /\ UNCHANGED <<store, late, history>>
  BY OneClient DEF Record, OtherTyped
<1>7. WillHaveSeen(client[c].read)
  BY <1>1, <1>2, StepSeen DEF Record
<1> HIDE DEF r
<1>8. Snapshot(r)
  BY <1>1, <1>2, <1>3 DEF Snapshot
<1>9. Fits(c, r)
  BY <1>3, <1>7, RealOperations DEF Fits
<1> QED BY <1>3, <1>4, <1>5, <1>6, <1>8, <1>9, ClientMoves

LEMMA SaveTurnInv ==
  ASSUME IInv, NEW c \in Clients, SaveTurn(c)
  PROVE  IInv'
<1> DEFINE r == [client[c] EXCEPT !.pc = "ready", !.turn = client[c].turn + 1]
<1>1. /\ r \in Sessions
      /\ r.pc = "ready" /\ r.op = client[c].op /\ r.version = client[c].version
      /\ r.state = client[c].state
  <2>1. client[c].turn + 1 \in Nat
    BY OneClient DEF Sessions
  <2> QED BY <2>1, OneClient DEF Sessions, ClientPC
<1>2. client' = [client EXCEPT ![c] = r]
  BY OneClient DEF SaveTurn, Sessions
<1>3. OtherTyped' /\ StepsGrow /\ UNCHANGED <<store, steps, late, history>>
  BY OneClient DEF SaveTurn, OtherTyped, StepsGrow, Sessions
<1> HIDE DEF r
<1>4. Snapshot(r)
  BY <1>1, OneClient DEF SaveTurn, At, Snapshot
<1>5. ASSUME ReloadOnly PROVE r.op = None /\ SeenRecorded(r.version)
  BY <1>1, <1>5 DEF IInv, JournalInv, OperationsApart, WritersSawRecorded, Acting, Retryable, SaveTurn, At
<1>6. ReloadOnly => Fits(c, r)
  BY <1>1, <1>3, <1>5, ReadyFits
<1> QED BY <1>1, <1>2, <1>3, <1>4, <1>6, ClientMoves

\* The write that is under way has the state of its session object, one further.
LEMMA WriteFits ==
  ASSUME IInv, NEW c \in Clients,
         client[c].pc = IF Commutative(c) THEN "reducing" ELSE "committing"
  PROVE  LET w == Write(c) IN
         /\ w \in Writes
         /\ w.version \in 1 .. store.version
         /\ w.op \notin Commutes /\ w.version = store.version
              => w.state = Append(store.state, w.op)
         /\ w.op = client[c].op /\ w.op # None
         /\ w.state = Append(client[c].state, client[c].op)
         /\ ReloadOnly => w.version = client[c].version /\ client[c].pc = "committing"
         /\ client[c].version <= w.version
<1> DEFINE w == Write(c)
<1>1. client[c] \in Sessions /\ Snapshot(client[c]) /\ store.version \in Nat
  BY OneClient
<1>2. client[c].op \in Ops
  BY <1>1 DEF Snapshot, Sessions
<1>3. /\ w.version = client[c].read /\ w.op = client[c].op
      /\ w.state = Append(client[c].state, client[c].op)
  BY DEF Write
<1>4. w \in Writes
  <2>1. Append(client[c].state, client[c].op) \in Seq(Ops)
    BY <1>1, <1>2 DEF Sessions
  <2>2. client[c].read \in Nat /\ client[c].turn \in Nat
    BY <1>1 DEF Sessions
  <2> QED BY <1>2, <2>1, <2>2 DEF Write, Writes
<1>5. client[c].pc = "committing" \/ (client[c].pc = "reducing" /\ Commutative(c))
  OBVIOUS
<1> HIDE DEF w
<1>6. /\ w.version \in 1 .. store.version
      /\ client[c].version <= w.version
      /\ client[c].version \in Nat
  BY <1>1, <1>3, <1>5 DEF Snapshot, Sessions
<1> QED BY <1>1, <1>2, <1>3, <1>4, <1>5, <1>6, SessionAssumption
        DEF Snapshot, Commutative, ReloadOnly, w

\* A write without an answer waits, and matches as long as its client's would.
LEMMA CommitUnansweredInv ==
  ASSUME IInv, NEW c \in Clients, CommitUnanswered(c)
  PROVE  IInv'
<1> DEFINE w == Write(c)
           r == [client[c] EXCEPT !.pc = "ready"]
<1>1. /\ w \in Writes
      /\ w.version \in 1 .. store.version
      /\ w.op \notin Commutes /\ w.version = store.version
           => w.state = Append(store.state, w.op)
      /\ w.op = client[c].op /\ w.op # None
      /\ ReloadOnly => w.version = client[c].version /\ client[c].pc = "committing"
  BY WriteFits DEF CommitUnanswered
<1>2. /\ r \in Sessions
      /\ r.pc = "ready" /\ r.op = client[c].op /\ r.version = client[c].version
      /\ r.state = client[c].state
  BY OneClient DEF Sessions, ClientPC
<1>3. /\ client' = [client EXCEPT ![c] = r]
      /\ \A d \in Clients : client'[d] = IF d = c THEN r ELSE client[d]
      /\ client' \in [Clients -> Sessions]
  BY <1>2, OneClient DEF CommitUnanswered, Goto, Sessions, IInv, TypeOK
<1>4. late' = late \cup {w} /\ UNCHANGED <<store, steps, history>>
  BY DEF CommitUnanswered
<1>5. Snapshot(r)
  BY <1>2, OneClient DEF CommitUnanswered, Snapshot
<1> HIDE DEF w, r
<1>6. TypeOK'
  BY <1>1, <1>3, <1>4 DEF CommitUnanswered, IInv, TypeOK
<1>7. RowTellsHistory' /\ RecordedWasCommitted' /\ LateWrites'
  BY <1>1, <1>4 DEF IInv, RowTellsHistory, RecordedWasCommitted, LateWrites
<1>8. Snapshots'
  <2>1. \A d \in Clients : IF client'[d].pc = "idle" THEN client'[d] = NoSession
                                                     ELSE Snapshot(client'[d])
    BY <1>2, <1>3, <1>5 DEF IInv, Snapshots, At
  <2> QED BY <1>4, <2>1 DEF Snapshots, At, Snapshot, Produced
<1>9. ASSUME ReloadOnly PROVE JournalInv'
  <2>1. JournalInv /\ client[c].pc = "committing" /\ w.version = client[c].version
    BY <1>1, <1>9 DEF IInv
  <2>2. StateIsHistory' /\ PastIsRecorded'
    BY <1>4, <2>1 DEF JournalInv, StateIsHistory, PastIsRecorded, Recorded
  <2>3. \A v : SeenRecorded(v) => SeenRecorded(v)'
    BY <1>4 DEF SeenRecorded, Recorded
  <2>4. WritersSawRecorded'
    BY <1>2, <1>3, <1>4, <2>1, <2>3 DEF JournalInv, WritersSawRecorded, Acting
  <2>5. RetriesAreStale'
    BY <1>1, <1>2, <1>3, <1>4, <2>1 DEF JournalInv, RetriesAreStale, Retryable
  <2>6. OperationsApart'
    BY <1>1, <1>2, <1>3, <1>4, <2>1 DEF JournalInv, OperationsApart, Retryable, At
  <2> QED BY <2>2, <2>4, <2>5, <2>6 DEF JournalInv
<1> QED BY <1>6, <1>7, <1>8, <1>9 DEF IInv, ReloadOnly

-----------------------------------------------------------------------------
(* The state store's row changes *)

\* Nobody has a session of a row that does not exist.
LEMMA CreateStateInv ==
  ASSUME IInv, NEW c \in Clients, CreateState(c)
  PROVE  IInv'
<1>1. store.version = 0 /\ store.state = <<>> /\ store.by \in Ops \cup {None}
  BY DEF CreateState, IInv, RowTellsHistory, TypeOK
<1>2. history = <<>>
  <2>1. Len(history) = 0
    BY <1>1 DEF IInv, RowTellsHistory
  <2> DEFINE Commits == [op : Ops, actor : {Actor[d] : d \in Clients}, turn : Nat]
  <2>2. history \in Seq(Commits)
    BY DEF IInv, TypeOK
  <2> HIDE DEF Commits
  <2> QED BY <2>1, <2>2
<1>3. late = {}
  BY <1>1 DEF IInv, LateWrites
<1>4. \A d \in Clients : client[d] = NoSession
  BY <1>1 DEF IInv, Snapshots, Snapshot
<1>5. PICK turn \in {0, 1} :
        client' = [client EXCEPT ![c].pc = "openingTrajectory", ![c].version = 1, ![c].turn = turn]
  BY DEF CreateState
<1> DEFINE r == [client[c] EXCEPT !.pc = "openingTrajectory", !.version = 1, !.turn = turn]
<1>6. /\ r \in Sessions
      /\ r.pc = "openingTrajectory" /\ r.version = 1 /\ r.op = None /\ r.state = <<>>
  <2>1. client[c] \in Sessions /\ client[c].op = None /\ client[c].state = <<>>
    BY <1>4, OneClient DEF NoSession
  <2>2. turn \in Nat
    OBVIOUS
  <2>3. r \in Sessions /\ r.pc = "openingTrajectory" /\ r.version = 1
    BY <2>1, <2>2 DEF Sessions, ClientPC
  <2>4. r.op = client[c].op /\ r.state = client[c].state
    BY <2>1 DEF Sessions
  <2> HIDE DEF r
  <2> QED BY <2>1, <2>3, <2>4
<1>7. /\ client' \in [Clients -> Sessions]
      /\ \A d \in Clients : client'[d] = IF d = c THEN r ELSE NoSession
  BY <1>4, <1>5, <1>6 DEF IInv, TypeOK
<1> HIDE DEF r
<1>8. /\ store' = [store EXCEPT !.version = 1] /\ late' = {} /\ history' = <<>>
      /\ UNCHANGED <<meta, trajectory, steps, faults>>
  BY <1>2, <1>3 DEF CreateState
<1>9. store'.version = 1 /\ store'.state = <<>> /\ store'.by = store.by
  BY <1>1, <1>8 DEF IInv, TypeOK
<1>10. TypeOK'
  <2>1. store' \in [version : Nat, state : Seq(Ops), by : Ops \cup {None}]
    BY <1>8 DEF IInv, TypeOK
  <2>2. history' = history /\ late' = late
    BY <1>2, <1>3, <1>8
  <2> QED BY <1>7, <1>8, <2>1, <2>2 DEF IInv, TypeOK
<1>11. RowTellsHistory' /\ RecordedWasCommitted' /\ LateWrites'
  BY <1>2, <1>8, <1>9 DEF IInv, RowTellsHistory, RecordedWasCommitted, LateWrites
<1>12. Snapshots'
  BY <1>6, <1>7, <1>9 DEF Snapshots, At, Snapshot, NoSession
<1>13. JournalInv'
  <2>1. StateIsHistory' /\ PastIsRecorded' /\ RetriesAreStale'
    BY <1>8, <1>9 DEF StateIsHistory, PastIsRecorded, RetriesAreStale
  <2>2. WritersSawRecorded'
    BY <1>6, <1>7, <1>8 DEF WritersSawRecorded, Acting, NoSession
  <2>3. OperationsApart'
    BY <1>6, <1>7, <1>8 DEF OperationsApart, NoSession
  <2> QED BY <2>1, <2>2, <2>3 DEF JournalInv
<1> QED BY <1>10, <1>11, <1>12, <1>13 DEF IInv

\* The write landed; client d's session object, if it changed, is the writer's.
Written(w, d, r) ==
  \/ r = client[d]
  \/ /\ r \in Sessions
     /\ r.pc = "recording" /\ r.read = w.version + 1
     /\ r.op = w.op /\ r.op = client[d].op
     /\ r.version = client[d].version /\ r.version <= w.version
     /\ w.state = Append(r.state, w.op)

\* A write that matches takes effect: from its caller, or long after.
LEMMA PutWrite ==
  ASSUME IInv, NEW w \in Writes, Matches(w), Put(w),
         w.version \in 1 .. store.version,
         w.op \notin Commutes => w.state = Append(store.state, w.op),
         ReloadOnly => SeenRecorded(w.version)
                       /\ \A i \in DOMAIN history : w.op = history[i].op => w.version <= i,
         late' \subseteq late, UNCHANGED steps, OtherTyped',
         client' \in [Clients -> Sessions],
         \A d \in Clients : Written(w, d, client'[d])
  PROVE  IInv'
<1> DEFINE Commits == [op : Ops, actor : {Actor[c] : c \in Clients}, turn : Nat]
           new == [op |-> w.op, actor |-> w.actor, turn |-> w.turn]
<1>1. /\ w.version = store.version /\ store.version \in Nat /\ store.version > 0
      /\ w.op \in Ops /\ w.state \in Seq(Ops)
  BY DEF Matches, Writes
<1>2. new \in Commits /\ new.op = w.op
  BY DEF Writes
<1>3. history \in Seq(Commits) /\ history' = Append(history, new)
  BY DEF IInv, TypeOK, Put
<1>4. store' = [version |-> w.version + 1, state |-> w.state, by |-> w.op]
  BY DEF Put
<1>5. store'.version = store.version + 1 /\ store'.state = w.state /\ store'.by = w.op
  BY <1>1, <1>4
<1>6. Len(history) = store.version - 1
  BY <1>1 DEF IInv, RowTellsHistory
<1> HIDE DEF Commits, new
<1>7. /\ history' \in Seq(Commits) /\ history' # <<>>
      /\ Len(history') = store.version
      /\ DOMAIN history' = 1 .. store.version
      /\ DOMAIN history = 1 .. store.version - 1
      /\ \A i \in DOMAIN history : i \in DOMAIN history' /\ history'[i] = history[i]
      /\ history'[store.version] = new
      /\ Len(history) \in Nat
  BY <1>1, <1>2, <1>3, <1>6
<1>8. \A op, version : Produced(op, version) => Produced(op, version)'
  BY <1>7 DEF Produced
<1>9. TypeOK'
  <2>1. store' \in [version : Nat, state : Seq(Ops), by : Ops \cup {None}]
    <3>1. store.version + 1 \in Nat
      BY <1>1
    <3> QED BY <1>1, <1>4, <3>1
  <2>2. late' \subseteq Writes /\ steps' \in Seq([op : Ops, version : Nat])
    BY DEF IInv, TypeOK
  <2> QED BY <1>7, <2>1, <2>2 DEF TypeOK, OtherTyped, Commits
<1>10. RowTellsHistory'
  BY <1>1, <1>2, <1>5, <1>7 DEF RowTellsHistory
<1>11. LateWrites'
  <2>1. \A v \in late : v.version \in Nat
    BY DEF IInv, TypeOK, Writes
  <2> QED BY <1>1, <1>5, <2>1 DEF IInv, LateWrites
<1>12. RecordedWasCommitted'
  BY <1>7 DEF IInv, RecordedWasCommitted
<1>13. ASSUME NEW d \in Clients, client[d].pc # "idle"
       PROVE  client[d].version \in Nat /\ client[d].read \in Nat
              /\ Snapshot(client[d]) /\ client[d].version <= store.version
  BY <1>1, <1>13, OneClient DEF Sessions, Snapshot
<1>14. Snapshots'
  <2> SUFFICES ASSUME NEW d \in Clients
               PROVE  IF client'[d].pc = "idle" THEN client'[d] = NoSession
                      ELSE Snapshot(client[d])'
    BY DEF Snapshots, At
  <2>1. CASE client'[d] = client[d] /\ client[d].pc = "idle"
    BY <2>1, OneClient
  <2>2. CASE client'[d] = client[d] /\ client[d].pc # "idle"
    <3>1. \A op, version : Produced(op, version) => version - 1 \in 1 .. store.version - 1
      BY <1>7 DEF Produced
    <3> QED BY <1>1, <1>5, <1>8, <1>13, <2>2, <3>1 DEF Snapshot
  <2>3. CASE client'[d] # client[d]
    <3>1. Written(w, d, client'[d])
      OBVIOUS
    <3>2. client[d].pc # "idle"
      BY <1>1, <2>3, <3>1, OneClient, RealOperations DEF Written, NoSession
    <3>3. Produced(w.op, w.version + 1)'
      BY <1>1, <1>2, <1>5, <1>7 DEF Produced, Put
    <3> QED BY <1>1, <1>5, <1>13, <2>3, <3>1, <3>2, <3>3 DEF Written, Snapshot
  <2> QED BY <2>1, <2>2, <2>3
<1>15. ASSUME ReloadOnly PROVE JournalInv'
  <2>1. /\ JournalInv
        /\ SeenRecorded(w.version)
        /\ \A i \in DOMAIN history : w.op # history[i].op
        /\ w.state = Append(store.state, w.op)
    BY <1>1, <1>7, <1>15 DEF IInv, ReloadOnly
  <2>2. StateIsHistory'
    <3>1. store.state \in Seq(Ops) /\ Len(store.state) = Len(history)
      BY <2>1 DEF IInv, TypeOK, JournalInv, StateIsHistory
    <3>2. /\ Len(w.state) = store.version
          /\ \A i \in DOMAIN history : w.state[i] = store.state[i]
          /\ w.state[store.version] = w.op
      BY <1>1, <1>6, <1>7, <2>1, <3>1
    <3> QED BY <1>2, <1>5, <1>7, <2>1, <3>2 DEF JournalInv, StateIsHistory
  <2>3. PastIsRecorded'
    <3>1. store.by \in Recorded \cup {None}
      BY <1>1, <2>1 DEF SeenRecorded
    <3>2. history # <<>> => history[Len(history)].op \in Recorded
      BY <3>1, RealOperations, <1>7 DEF IInv, RowTellsHistory
    <3>3. \A i \in DOMAIN history : history[i].op \in Recorded
      BY <1>6, <1>7, <2>1, <3>2 DEF JournalInv, PastIsRecorded
    <3> QED BY <1>1, <1>7, <3>3 DEF PastIsRecorded, Recorded
  <2>4. WritersSawRecorded'
    <3>1. \A d \in Clients : Acting(d)' => client'[d].version # store'.version
      BY <1>1, <1>5, <1>13 DEF Acting, Written
    <3>2. \A v \in late : v.version # store'.version
      BY <1>1, <1>5 DEF IInv, LateWrites
    <3> QED BY <3>1, <3>2 DEF WritersSawRecorded, SeenRecorded
  <2>5. RetriesAreStale'
    <3>1. \A d \in Clients : Retryable(d)' => client'[d] = client[d] /\ client[d].version <= store.version
      BY <1>1, <1>13 DEF Retryable, Written
    <3>2. \A v \in late : v.version <= store.version
      BY <1>1 DEF IInv, LateWrites
    <3> QED BY <1>1, <1>7, <2>1, <3>1, <3>2 DEF JournalInv, RetriesAreStale, Retryable
  <2>6. OperationsApart'
    <3>1. \A d \in Clients : /\ client'[d].op = client[d].op
                             /\ Retryable(d)' => client'[d] = client[d]
                             /\ client'[d] # client[d] => client'[d].pc = "recording"
      BY DEF Retryable, Written
    <3> QED BY <2>1, <3>1 DEF JournalInv, OperationsApart, Retryable, At
  <2> QED BY <2>2, <2>3, <2>4, <2>5, <2>6 DEF JournalInv
<1> QED BY <1>9, <1>10, <1>11, <1>12, <1>14, <1>15 DEF IInv, ReloadOnly

LEMMA CommitInv ==
  ASSUME IInv, NEW c \in Clients, Commit(c)
  PROVE  IInv'
<1> DEFINE w == Write(c)
           r == [client[c] EXCEPT !.pc = "recording", !.read = client[c].read + 1]
<1>1. /\ w \in Writes
      /\ w.version \in 1 .. store.version
      /\ w.op \notin Commutes /\ w.version = store.version
           => w.state = Append(store.state, w.op)
      /\ w.op = client[c].op /\ w.op # None
      /\ w.state = Append(client[c].state, client[c].op)
      /\ ReloadOnly => w.version = client[c].version /\ client[c].pc = "committing"
      /\ client[c].version <= w.version
  BY WriteFits DEF Commit
<1>2. Matches(w) /\ Put(w) /\ w.version = store.version
  BY DEF Commit, Matches
<1>3. w.version = client[c].read
  BY DEF Write
<1>4. /\ r \in Sessions
      /\ r.pc = "recording" /\ r.read = client[c].read + 1 /\ r.op = client[c].op
      /\ r.version = client[c].version /\ r.state = client[c].state
  <2>1. client[c].read + 1 \in Nat
    BY OneClient DEF Sessions
  <2> QED BY <2>1, OneClient DEF Sessions, ClientPC
<1>5. /\ client' = [client EXCEPT ![c] = r]
      /\ client' \in [Clients -> Sessions]
      /\ \A d \in Clients : client'[d] = IF d = c THEN r ELSE client[d]
  BY <1>4, OneClient DEF Commit, Sessions, IInv, TypeOK
<1> HIDE DEF w, r
<1>6. \A d \in Clients : Written(w, d, client'[d])
  BY <1>1, <1>3, <1>4, <1>5 DEF Written
<1>7. ASSUME ReloadOnly
      PROVE  /\ SeenRecorded(w.version)
             /\ \A i \in DOMAIN history : w.op = history[i].op => w.version <= i
  BY <1>1, <1>7 DEF IInv, JournalInv, WritersSawRecorded, RetriesAreStale, Acting, Retryable
<1>8. late' \subseteq late /\ UNCHANGED steps /\ OtherTyped'
  BY OneClient DEF Commit, OtherTyped
<1> QED BY <1>1, <1>2, <1>5, <1>6, <1>7, <1>8, PutWrite

LEMMA LandInv ==
  ASSUME IInv, NEW w \in late, Land(w)
  PROVE  IInv'
<1>1. late' \subseteq late /\ UNCHANGED <<steps, client>> /\ OtherTyped'
  BY DEF Land, IInv, TypeOK, OtherTyped
<1>2. CASE Matches(w) /\ Put(w)
  <2>1. w \in Writes /\ client' \in [Clients -> Sessions]
    BY <1>1 DEF IInv, TypeOK
  <2>2. /\ w.version \in 1 .. store.version
        /\ w.op \notin Commutes => w.state = Append(store.state, w.op)
    BY <1>2 DEF IInv, LateWrites, Matches
  <2>3. ReloadOnly => /\ SeenRecorded(w.version)
                      /\ \A i \in DOMAIN history : w.op = history[i].op => w.version <= i
    BY DEF IInv, JournalInv, WritersSawRecorded, RetriesAreStale
  <2>4. \A d \in Clients : Written(w, d, client'[d])
    BY <1>1 DEF Written
  <2> QED BY <1>1, <1>2, <2>1, <2>2, <2>3, <2>4, PutWrite
<1>3. CASE UNCHANGED <<store, history>>
  <2>1. TypeOK' /\ RowTellsHistory' /\ Snapshots' /\ LateWrites' /\ RecordedWasCommitted'
    BY <1>1, <1>3 DEF IInv, TypeOK, OtherTyped, RowTellsHistory, Snapshots, At, Snapshot, Produced,
                      LateWrites, RecordedWasCommitted
  <2>2. ReloadOnly => JournalInv'
    BY <1>1, <1>3 DEF IInv, JournalInv, StateIsHistory, PastIsRecorded, WritersSawRecorded,
                      RetriesAreStale, OperationsApart, SeenRecorded, Acting, Retryable, Recorded, At
  <2> QED BY <2>1, <2>2 DEF IInv, ReloadOnly
<1> QED BY <1>2, <1>3 DEF Land

-----------------------------------------------------------------------------
(* The invariant is inductive *)

LEMMA StutterInv ==
  ASSUME IInv, UNCHANGED vars
  PROVE  IInv'
<1>1. TypeOK' /\ RowTellsHistory' /\ Snapshots' /\ LateWrites' /\ RecordedWasCommitted'
  BY DEF vars, IInv, TypeOK, RowTellsHistory, Snapshots, At, Snapshot, Produced, LateWrites,
         RecordedWasCommitted
<1>2. ReloadOnly => JournalInv'
  BY DEF vars, IInv, JournalInv, StateIsHistory, PastIsRecorded, WritersSawRecorded,
         RetriesAreStale, OperationsApart, SeenRecorded, Acting, Retryable, Recorded, At
<1> QED BY <1>1, <1>2 DEF IInv, ReloadOnly

LEMMA NextInv ==
  ASSUME IInv, [Next]_vars
  PROVE  IInv'
<1>1. ASSUME NEW c \in Clients, ClientStep(c) PROVE IInv'
  BY <1>1, OpenTrajectoryInv, SaveMetaInv, LoadMetaInv, RepairLoadInv, RepairCheckInv, RepairInv,
     CommitInv, ReduceReadInv, ConflictInv, RecordInv, SaveTurnInv DEF ClientStep
<1>2. ASSUME NEW c \in Clients, ClientAction(c) PROVE IInv'
  BY <1>1, <1>2, CreateStateInv, LoadStateInv, DispatchInv, CommitUnansweredInv, CrashInv
  DEF ClientAction
<1>3. ASSUME NEW w \in late, Land(w) PROVE IInv'
  BY <1>3, LandInv
<1>4. CASE UNCHANGED vars
  BY <1>4, StutterInv
<1> QED BY <1>2, <1>3, <1>4 DEF Next

\* The parts of the invariant hold together in every state of every behaviour of
\* createSession, loadSession and dispatch.
THEOREM Inductive == Spec => []IInv
<1> QED BY InitInv, NextInv, PTL DEF Spec

\* A step of the trajectory names an operation and the version it produced,
\* whether the dispatch that committed wrote it or a load that repaired: for any
\* number of clients, with rebases, commutative actions and late writes.
THEOREM RecordIsTruthful == Spec => []RecordedWasCommitted
<1>1. IInv => RecordedWasCommitted
  BY DEF IInv
<1> QED BY <1>1, Inductive, PTL

-----------------------------------------------------------------------------
(* Who changes the row *)

LEMMA RowSteps ==
  ASSUME IInv, [Next]_vars
  PROVE  \/ UNCHANGED <<store, history>>
         \/ \E c \in Clients : CreateState(c)
         \/ \E c \in Clients : Commit(c)
         \/ \E w \in late : Land(w) /\ Matches(w) /\ Put(w)
<1>1. ASSUME NEW c \in Clients, ClientStep(c)
      PROVE  UNCHANGED <<store, history>> \/ Commit(c)
  BY <1>1 DEF ClientStep, OpenTrajectory, SaveMeta, LoadMeta, RepairLoad, RepairCheck, Repair,
              ReduceRead, Conflict, Record, SaveTurn
<1>2. ASSUME NEW c \in Clients, ClientAction(c)
      PROVE  UNCHANGED <<store, history>> \/ CreateState(c) \/ Commit(c)
  BY <1>1, <1>2 DEF ClientAction, LoadState, Dispatch, CommitUnanswered, Crash
<1>3. ASSUME NEW w \in late, Land(w)
      PROVE  UNCHANGED <<store, history>> \/ (Matches(w) /\ Put(w))
  BY <1>3 DEF Land
<1>4. CASE UNCHANGED vars
  BY <1>4 DEF vars
<1> QED BY <1>2, <1>3, <1>4 DEF Next

\* What a commit writes, wherever it comes from, if it is not commutative.
LEMMA CommitAppends ==
  ASSUME IInv, NEW w \in Writes, Matches(w), Put(w),
         w.op \notin Commutes /\ w.version = store.version => w.state = Append(store.state, w.op),
         store'.by \notin Commutes \cup {None}
  PROVE  store'.state = Append(store.state, store'.by)
<1>1. store'.by = w.op /\ store'.state = w.state
  BY DEF Put
<1> QED BY <1>1 DEF Matches

\* The version check makes a commit build on the state as it stands: an action
\* that is not commutative overwrites nothing, with any number of clients, retries,
\* rebases and late writes.
THEOREM NothingOverwritten == Spec => ExclusiveAppends
<1>1. ASSUME IInv, [Next]_vars, store' # store, store'.by \notin Commutes \cup {None}
      PROVE  store'.state = Append(store.state, store'.by)
  <2>1. CASE \E c \in Clients : CreateState(c)
    <3>1. store'.by = store.by /\ store.version = 0
      BY <2>1 DEF CreateState, IInv, TypeOK
    <3>2. Len(history) = 0
      BY <3>1, <1>1 DEF IInv, RowTellsHistory
    <3>3. store.by \in Ops => history # <<>>
      BY <1>1, SessionAssumption DEF IInv, RowTellsHistory
    <3>4. history # <<>> => Len(history) > 0
      <4> DEFINE Commits == [op : Ops, actor : {Actor[c] : c \in Clients}, turn : Nat]
      <4>1. history \in Seq(Commits)
        BY <1>1 DEF IInv, TypeOK
      <4> HIDE DEF Commits
      <4> QED BY <4>1
    <3> QED BY <1>1, <3>1, <3>2, <3>3, <3>4 DEF IInv, TypeOK
  <2>2. CASE \E c \in Clients : Commit(c)
    <3>1. PICK c \in Clients : Commit(c)
      BY <2>2
    <3> DEFINE w == Write(c)
    <3>2. /\ w \in Writes
          /\ w.op \notin Commutes /\ w.version = store.version => w.state = Append(store.state, w.op)
      BY <1>1, <3>1, WriteFits DEF Commit
    <3>3. Matches(w) /\ Put(w)
      BY <3>1 DEF Commit
    <3> HIDE DEF w
    <3> QED BY <1>1, <3>2, <3>3, CommitAppends
  <2>3. CASE \E w \in late : Land(w) /\ Matches(w) /\ Put(w)
    <3>1. PICK w \in late : Matches(w) /\ Put(w)
      BY <2>3
    <3>2. /\ w \in Writes
          /\ w.op \notin Commutes /\ w.version = store.version => w.state = Append(store.state, w.op)
      BY <1>1, <3>1 DEF IInv, TypeOK, LateWrites
    <3> QED BY <1>1, <3>1, <3>2, CommitAppends
  <2> QED BY <1>1, <2>1, <2>2, <2>3, RowSteps
<1>2. IInv /\ [Next]_vars =>
        [store' # store /\ store'.by \notin Commutes \cup {None}
           => store'.state = Append(store.state, store'.by)]_vars
  BY <1>1
<1> QED BY <1>2, Inductive, PTL DEF Spec, ExclusiveAppends

-----------------------------------------------------------------------------
(* The journal *)

\* Without commutative actions, an operation takes effect when it is in the
\* journal nowhere and all the others are recorded.
LEMMA JournalApplies ==
  ASSUME IInv, ReloadOnly, NEW w \in Writes, Matches(w), Put(w), UNCHANGED steps,
         w.version \in 1 .. store.version,
         w.version = store.version => w.state = Append(store.state, w.op),
         SeenRecorded(w.version),
         \A i \in DOMAIN history : w.op = history[i].op => w.version <= i
  PROVE  Journal!Next
<1>1. JournalInv
  BY DEF IInv
<1>2. /\ w.version = store.version /\ w.op \in Ops /\ store'.state = w.state
      /\ store.version \in Nat
  BY OneClient DEF Matches, Writes, Put
<1>3. Len(history) = store.version - 1
  BY <1>2 DEF IInv, RowTellsHistory
<1>4. /\ DOMAIN store.state = DOMAIN history
      /\ \A i \in DOMAIN history : store.state[i] = history[i].op
  BY <1>1, RealOperations DEF IInv, TypeOK, JournalInv, StateIsHistory
<1>5. w.op \notin Journal!Journaled
  BY <1>2, <1>3, <1>4, RealOperations DEF Journal!Journaled
<1>6. Journal!Journaled \subseteq Recorded
  <2>1. \A i \in DOMAIN history : i < Len(history) => history[i].op \in Recorded
    BY <1>1 DEF JournalInv, PastIsRecorded
  <2>2. history # <<>> => history[Len(history)].op \in Recorded
    BY <1>2, RealOperations DEF SeenRecorded, IInv, RowTellsHistory
  <2>3. \A i \in DOMAIN history : history[i].op \in Recorded
    BY <2>1, <2>2, RealOperations
  <2> QED BY <1>4, <2>3 DEF Journal!Journaled
<1>7. store'.state = Append(store.state, w.op) /\ Recorded' = Recorded
  BY <1>2 DEF Recorded
<1> QED BY <1>2, <1>5, <1>6, <1>7 DEF Journal!Next, Journal!Apply

\* A step of the trajectory is of an operation that the journal has.
LEMMA JournalRecords ==
  ASSUME IInv, ReloadOnly, NEW op, NEW version,
         Produced(op, version), AddStep(op, version), UNCHANGED store
  PROVE  Journal!Next
<1>1. op \in Ops /\ op \in Journal!Journaled
  <2>1. StateIsHistory
    BY DEF IInv, JournalInv
  <2>2. DOMAIN store.state = DOMAIN history
    BY <2>1, RealOperations DEF IInv, TypeOK, StateIsHistory
  <2> QED BY <2>1, <2>2, RealOperations DEF Produced, StateIsHistory, Journal!Journaled
<1>2. Recorded' = Recorded \cup {op}
  <2> DEFINE new == [op |-> op, version |-> version]
  <2>1. steps' = Append(steps, new) /\ new.op = op
    BY DEF AddStep
  <2> HIDE DEF new
  <2>2. steps \in Seq([op : Ops, version : Nat])
    BY DEF IInv, TypeOK
  <2>3. /\ DOMAIN steps' = (DOMAIN steps) \cup {Len(steps) + 1}
        /\ \A k \in DOMAIN steps : steps'[k] = steps[k]
        /\ steps'[Len(steps) + 1] = new
    BY <2>1, <2>2
  <2> QED BY <2>1, <2>3 DEF Recorded
<1> QED BY <1>1, <1>2 DEF Journal!Next, Journal!Record

LEMMA JournalStep ==
  ASSUME IInv, ReloadOnly, [Next]_vars
  PROVE  [Journal!Next]_Journal!vars
<1>1. UNCHANGED <<store, steps>> => [Journal!Next]_Journal!vars
  BY DEF Journal!vars, Recorded
<1>2. ASSUME NEW c \in Clients, ClientStep(c)
      PROVE  UNCHANGED <<store, steps>> \/ Repair(c) \/ Record(c) \/ Commit(c)
  BY <1>2 DEF ClientStep, OpenTrajectory, SaveMeta, LoadMeta, RepairLoad, RepairCheck,
              ReduceRead, Conflict, SaveTurn
<1>3. ASSUME NEW c \in Clients, ClientAction(c)
      PROVE  UNCHANGED <<store, steps>> \/ Repair(c) \/ Record(c) \/ Commit(c) \/ CreateState(c)
  BY <1>2, <1>3 DEF ClientAction, LoadState, Dispatch, CommitUnanswered, Crash
<1>4. ASSUME NEW c \in Clients, Repair(c) PROVE Journal!Next
  <2>1. Produced(client[c].anchor, client[c].read)
    BY <1>4, OneClient DEF Repair, At, Snapshot
  <2> QED BY <1>4, <2>1, JournalRecords DEF Repair
<1>5. ASSUME NEW c \in Clients, Record(c) PROVE Journal!Next
  <2>1. Produced(client[c].op, client[c].read)
    BY <1>5, OneClient DEF Record, At, Snapshot
  <2> QED BY <1>5, <2>1, JournalRecords DEF Record
<1>6. ASSUME NEW c \in Clients, Commit(c) PROVE Journal!Next
  <2> DEFINE w == Write(c)
  <2>1. /\ w \in Writes /\ w.version \in 1 .. store.version
        /\ w.version = store.version => w.state = Append(store.state, w.op)
        /\ w.op = client[c].op /\ w.version = client[c].version /\ client[c].pc = "committing"
    BY <1>6, WriteFits DEF Commit, ReloadOnly
  <2>2. Matches(w) /\ Put(w) /\ UNCHANGED steps
    BY <1>6 DEF Commit
  <2> HIDE DEF w
  <2>3. /\ SeenRecorded(w.version)
        /\ \A i \in DOMAIN history : w.op = history[i].op => w.version <= i
    BY <2>1 DEF IInv, JournalInv, WritersSawRecorded, RetriesAreStale, Acting, Retryable
  <2> QED BY <2>1, <2>2, <2>3, JournalApplies
<1>7. ASSUME NEW c \in Clients, CreateState(c) PROVE UNCHANGED Journal!vars
  BY <1>7 DEF CreateState, Journal!vars, Recorded, IInv, TypeOK
<1>8. ASSUME NEW w \in late, Matches(w), Put(w), UNCHANGED steps PROVE Journal!Next
  <2>1. /\ w \in Writes /\ w.version \in 1 .. store.version
        /\ w.version = store.version => w.state = Append(store.state, w.op)
    BY DEF IInv, TypeOK, LateWrites, ReloadOnly
  <2>2. /\ SeenRecorded(w.version)
        /\ \A i \in DOMAIN history : w.op = history[i].op => w.version <= i
    BY DEF IInv, JournalInv, WritersSawRecorded, RetriesAreStale
  <2> QED BY <1>8, <2>1, <2>2, JournalApplies
<1>9. ASSUME NEW w \in late, Land(w) PROVE [Journal!Next]_Journal!vars
  BY <1>1, <1>8, <1>9 DEF Land
<1>10. CASE UNCHANGED vars
  BY <1>1, <1>10 DEF vars
<1> QED BY <1>1, <1>3, <1>4, <1>5, <1>6, <1>7, <1>9, <1>10 DEF Next

\* Where no action is declared commutative and a client reloads after a conflict,
\* a session implements its journal, with crashes, retries under the same
\* operation id and writes that land long after their caller gave up: every
\* operation takes effect once, on top of everything before it, and only when all
\* before it is recorded.
THEOREM SessionRefinesJournal == ReloadOnly /\ Spec => ImplementsJournal
<1>1. Init => Journal!Init
  BY DEF Init, Journal!Init, Recorded
<1>2. IInv /\ ReloadOnly /\ [Next]_vars => [Journal!Next]_Journal!vars
  BY JournalStep
<1>3. SUFFICES ASSUME ReloadOnly PROVE Spec => ImplementsJournal
  OBVIOUS
<1>4. IInv /\ [Next]_vars => [Journal!Next]_Journal!vars
  BY <1>2, <1>3
<1> QED BY <1>1, <1>4, Inductive, PTL DEF Spec, ImplementsJournal, Journal!Spec

-----------------------------------------------------------------------------
(* Turns *)

\* The types that the order of the turns takes.
LEMMA TurnTypes ==
  ASSUME IInv
  PROVE  /\ meta.turn \in Nat /\ meta.saved \in BOOLEAN /\ store.version \in Nat
         /\ \A c \in Clients : client[c].turn \in Nat
         /\ Len(history) \in Nat /\ DOMAIN history = 1 .. Len(history)
         /\ \A c \in Clients : store.version = 0 => ~Playing(c) /\ At(c, "idle")
<1>1. \A c \in Clients : client[c] \in Sessions
  BY DEF IInv, TypeOK
<1>2. \A c \in Clients : store.version = 0 => client[c].pc = "idle"
  <2> SUFFICES ASSUME NEW c \in Clients, store.version = 0, client[c].pc # "idle" PROVE FALSE
    OBVIOUS
  <2>1. client[c].version \in 1 .. store.version
    BY OneClient DEF Snapshot
  <2> QED BY <2>1
<1> QED BY <1>1, <1>2, RealOperations DEF IInv, TypeOK, Sessions, Playing, At

\* A step of a client that neither moves nor stops moving, and keeps its turn.
LEMMA StaysInTurn ==
  ASSUME TurnsInOrder, NEW c \in Clients, UNCHANGED <<meta, history, late>>,
         store.version > 0 => store'.version > 0,
         \A d \in Clients : d # c => client'[d] = client[d],
         client'[c].pc \in {"recording", "savingTurn"} <=> Moving(c),
         client'[c].pc = "savingTurn" => At(c, "savingTurn") \/ client[c].turn # 0,
         client'[c].pc \notin {"idle", "loadingMeta"} =>
           /\ Playing(c) /\ client'[c].turn = client[c].turn
           /\ client'[c].pc \in {"openingTrajectory", "savingMeta"} <=> Creating(c),
         client'[c].pc \in {"committing", "reducing"} => MayAct(c)
  PROVE  TurnsInOrder'
<1>1. \A d \in Clients : client'[d].pc \in {"committing", "reducing"} =>
        client'[d].turn = 0 \/ Current(client'[d].turn) = Actor[d]
  BY DEF TurnsInOrder, MayAct, Playing
<1>2. meta.saved => \A d \in Clients : client'[d].pc \notin {"openingTrajectory", "savingMeta"}
  BY DEF TurnsInOrder, Creating
<1>3. BeforeMeta => BeforeMeta'
  BY DEF BeforeMeta, Playing, Creating
<1>4. WithoutTurns => WithoutTurns'
  BY DEF WithoutTurns, Playing, At
<1>5. WithTurns => WithTurns'
  <2> SUFFICES ASSUME WithTurns PROVE WithTurns'
    OBVIOUS
  <2>1. \A d \in Clients : client'[d].pc \in {"recording", "savingTurn"} <=> Moving(d)
    BY DEF Moving
  <2>2. \A d \in Clients : client'[d].pc \notin {"idle", "loadingMeta"} =>
          Playing(d) /\ client'[d].turn = client[d].turn
    BY DEF Playing
  <2>3. \A d \in Clients : Moving(d) => Playing(d)
    BY DEF Moving, Playing
  <2>4. \A d \in Clients : Moving(d) => client'[d].turn = client[d].turn
    BY <2>1, <2>2
  <2>5. \A d \in Clients : Playing(d)' => Playing(d) /\ client'[d].turn = client[d].turn
    BY <2>2 DEF Playing
  <2>6. \A d \in Clients : Moving(d)' <=> Moving(d)
    BY <2>1 DEF Moving
  <2> QED BY <2>3, <2>4, <2>5, <2>6 DEF WithTurns
<1>6. (\A d \in Clients : client[d].pc \in {"committing", "reducing"} => MayAct(d))'
  BY <1>1 DEF MayAct
<1>7. (\A d \in Clients : ~Creating(d))' \/ ~meta.saved
  BY <1>2 DEF Creating
<1> QED BY <1>3, <1>4, <1>5, <1>6, <1>7 DEF TurnsInOrder

\* Most steps of a client are such steps.
LEMMA TurnlessSteps ==
  ASSUME IInv, TurnsInOrder, NEW c \in Clients,
         \/ OpenTrajectory(c) \/ LoadState(c) \/ RepairLoad(c) \/ RepairCheck(c) \/ Repair(c)
         \/ Dispatch(c) \/ ReduceRead(c) \/ Conflict(c) \/ Record(c)
         \/ LoadMeta(c) /\ Drop(c)
  PROVE  TurnsInOrder'
<1>1. client \in [Clients -> Sessions] /\ client[c] \in Sessions /\ client[c].turn \in Nat
  BY TurnTypes DEF IInv, TypeOK
<1>2. UNCHANGED <<meta, history, late, store>>
  BY DEF OpenTrajectory, LoadState, RepairLoad, RepairCheck, Repair, Dispatch, ReduceRead,
         Conflict, Record, LoadMeta
<1>3. \A d \in Clients : d # c => client'[d] = client[d]
  BY <1>1 DEF OpenTrajectory, LoadState, RepairLoad, RepairCheck, Repair, Dispatch, ReduceRead,
         Conflict, Record, Drop, Goto
<1>4. CASE OpenTrajectory(c) \/ RepairLoad(c) \/ RepairCheck(c) \/ Repair(c)
  <2>1. /\ client'[c].turn = client[c].turn
        /\ \/ At(c, "openingTrajectory") /\ client'[c].pc = "savingMeta"
           \/ /\ client[c].pc \in {"repairLoading", "repairChecking", "repairing"}
              /\ client'[c].pc \in {"repairChecking", "repairing", "ready"}
    BY <1>1, <1>4 DEF OpenTrajectory, RepairLoad, RepairCheck, Repair, Goto, At, Sessions
  <2> QED BY <1>2, <1>3, <2>1, StaysInTurn DEF At, Moving, Playing, Creating
<1>5. CASE LoadState(c) \/ (LoadMeta(c) /\ Drop(c))
  <2>1. client[c].pc \in {"idle", "ready", "loadingMeta"}
    BY <1>5 DEF LoadState, LoadMeta, At
  <2>2. client'[c].pc \in {"idle", "loadingMeta"}
    <3>1. CASE LoadState(c)
      BY <1>1, <3>1 DEF LoadState, NoSession
    <3>2. CASE Drop(c)
      BY <1>1, <3>2 DEF Drop, NoSession
    <3> QED BY <1>5, <3>1, <3>2
  <2> QED BY <1>2, <1>3, <2>1, <2>2, StaysInTurn DEF At, Moving, Playing
<1>6. CASE Dispatch(c)
  <2>1. /\ client'[c].turn = client[c].turn /\ MayAct(c)
        /\ At(c, "ready") /\ client'[c].pc = "committing"
    <3>1. PICK op \in Ops :
            client' = [client EXCEPT ![c].op = op, ![c].pc = "committing",
                                     ![c].read = client[c].version]
      BY <1>6 DEF Dispatch
    <3>2. client'[c].turn = client[c].turn /\ client'[c].pc = "committing"
      BY <1>1, <3>1 DEF Sessions
    <3> QED BY <1>6, <3>2 DEF Dispatch
  <2> QED BY <1>2, <1>3, <2>1, StaysInTurn DEF At, Moving, Playing, Creating
<1>7. CASE ReduceRead(c) \/ Conflict(c)
  <2>1. /\ client[c].pc \in {"committing", "reducing"}
        /\ \/ client'[c].pc = "idle"
           \/ client'[c].pc \in {"reducing", "ready"} /\ client'[c].turn = client[c].turn
    <3>1. client[c].pc \in {"committing", "reducing"}
      BY <1>7 DEF ReduceRead, Conflict, At
    <3>2. CASE Drop(c)
      BY <1>1, <3>1, <3>2 DEF Drop, NoSession
    <3>3. CASE client' = [client EXCEPT ![c].pc = "reducing", ![c].read = store.version]
      BY <1>1, <3>1, <3>3 DEF Sessions
    <3>4. CASE client' = [client EXCEPT ![c].pc = "ready", ![c].version = store.version,
                                        ![c].state = store.state]
      BY <1>1, <3>1, <3>4 DEF Sessions
    <3> QED BY <1>7, <3>2, <3>3, <3>4 DEF ReduceRead, Conflict
  <2>2. MayAct(c)
    BY <2>1 DEF TurnsInOrder
  <2> QED BY <1>2, <1>3, <2>1, <2>2, StaysInTurn DEF Moving, Playing, Creating
<1>8. CASE Record(c)
  <2>1. /\ At(c, "recording") /\ client'[c].turn = client[c].turn
        /\ client'[c].pc = IF client[c].turn = 0 THEN "ready" ELSE "savingTurn"
    BY <1>1, <1>8 DEF Record, Sessions
  <2>2. CASE client[c].turn # 0
    BY <1>2, <1>3, <2>1, <2>2, StaysInTurn DEF At, Moving, Playing, Creating
  <2>3. CASE client[c].turn = 0
    <3>1. meta.saved /\ meta.turn = 0 /\ WithoutTurns
      <4>1. Playing(c) /\ ~Creating(c)
        BY <2>1 DEF At, Playing, Creating
      <4>2. meta.saved
        BY <4>1 DEF TurnsInOrder, BeforeMeta
      <4>3. WithTurns => client[c].turn \in 1 .. meta.turn
        BY <4>1 DEF WithTurns
      <4> QED BY <2>3, <4>2, <4>3 DEF TurnsInOrder
    <3>2. client'[c].pc = "ready" /\ client'[c].turn = 0
      BY <2>1, <2>3
    <3>3. WithoutTurns'
      BY <1>2, <1>3, <3>1, <3>2 DEF WithoutTurns, Playing, At
    <3>4. (\A d \in Clients : client[d].pc \in {"committing", "reducing"} => MayAct(d))'
      BY <1>3, <3>2 DEF TurnsInOrder, MayAct
    <3>5. (\A d \in Clients : ~Creating(d))'
      BY <1>3, <3>1, <3>2 DEF TurnsInOrder, Creating
    <3> QED BY <1>2, <3>1, <3>3, <3>4, <3>5 DEF TurnsInOrder
  <2> QED BY <2>2, <2>3
<1> QED BY <1>4, <1>5, <1>6, <1>7, <1>8

\* The session is created: nobody has it yet.
LEMMA CreateStateTurns ==
  ASSUME IInv, TurnsInOrder, NEW c \in Clients, CreateState(c) PROVE TurnsInOrder'
<1>1. store.version = 0 /\ UNCHANGED <<meta, history, late>>
  BY DEF CreateState
<1>2. ~meta.saved /\ BeforeMeta
  BY <1>1 DEF TurnsInOrder
<1>3. \A d \in Clients : ~Playing(d) /\ At(d, "idle")
  BY <1>1, TurnTypes
<1>4. client \in [Clients -> Sessions] /\ client[c] \in Sessions
  BY DEF IInv, TypeOK
<1>5. PICK turn \in {0, 1} :
        client' = [client EXCEPT ![c].pc = "openingTrajectory", ![c].version = 1, ![c].turn = turn]
  BY DEF CreateState
<1>6. /\ client'[c].pc = "openingTrajectory" /\ client'[c].turn \in {0, 1}
      /\ \A d \in Clients : d # c => client'[d] = client[d]
  BY <1>4, <1>5 DEF Sessions
<1>7. BeforeMeta'
  BY <1>1, <1>2, <1>3, <1>6 DEF BeforeMeta, Playing, Creating
<1>8. (\A d \in Clients : client[d].pc \in {"committing", "reducing"} => MayAct(d))'
  BY <1>3, <1>6 DEF MayAct, At
<1> QED BY <1>1, <1>2, <1>7, <1>8 DEF TurnsInOrder

LEMMA SaveMetaTurns ==
  ASSUME IInv, TurnsInOrder, NEW c \in Clients, SaveMeta(c) PROVE TurnsInOrder'
<1>1. /\ At(c, "savingMeta") /\ Creating(c) /\ Playing(c) /\ UNCHANGED <<history, late, store>>
      /\ meta' = [saved |-> TRUE, turn |-> client[c].turn]
  BY DEF SaveMeta, At, Creating, Playing
<1>2. ~meta.saved /\ BeforeMeta
  BY <1>1 DEF TurnsInOrder
<1>3. /\ client[c].turn \in {0, 1} /\ \A d \in Clients : d # c => ~Playing(d)
      /\ history = <<>> /\ Len(history) = 0
  BY <1>1, <1>2 DEF BeforeMeta
<1>4. store.version > 0
  BY <1>1, TurnTypes
<1>5. client \in [Clients -> Sessions] /\ client[c] \in Sessions
  BY DEF IInv, TypeOK
<1>6. /\ client'[c].pc = "ready" /\ client'[c].turn = client[c].turn
      /\ \A d \in Clients : d # c => client'[d] = client[d]
  BY <1>5 DEF SaveMeta, Goto, Sessions
<1>7. meta'.saved /\ meta'.turn = client[c].turn
  BY <1>1
<1>8. \A d \in Clients : d # c => client'[d].pc \in {"idle", "loadingMeta"}
  BY <1>3, <1>6 DEF Playing
<1>9. client[c].turn = 0 => WithoutTurns'
  BY <1>1, <1>3, <1>6, <1>8 DEF WithoutTurns, Playing, At
<1>10. client[c].turn # 0 => WithTurns'
  <2> SUFFICES ASSUME client[c].turn = 1 PROVE WithTurns'
    BY <1>3
  <2>1. \A d \in Clients : ~Moving(d)'
    BY <1>6, <1>8 DEF Moving
  <2> QED BY <1>1, <1>3, <1>6, <1>7, <1>8, <2>1 DEF WithTurns, Playing
<1>11. (\A d \in Clients : ~Creating(d))'
  BY <1>6, <1>8 DEF Creating
<1>12. (\A d \in Clients : client[d].pc \in {"committing", "reducing"} => MayAct(d))'
  BY <1>6, <1>8 DEF MayAct
<1> QED BY <1>1, <1>4, <1>7, <1>9, <1>10, <1>11, <1>12 DEF TurnsInOrder

\* A session object is loaded with the turn that is saved.
LEMMA LoadMetaTurns ==
  ASSUME IInv, TurnsInOrder, OneClientEach, NEW c \in Clients, LoadMeta(c)
  PROVE  TurnsInOrder'
<1>1. CASE Drop(c)
  BY <1>1, TurnlessSteps
<1>2. CASE meta.saved /\ client' = [client EXCEPT ![c].pc = "repairLoading", ![c].turn = meta.turn]
  <2>1. At(c, "loadingMeta") /\ UNCHANGED <<meta, history, late, store>>
    BY DEF LoadMeta
  <2>2. client \in [Clients -> Sessions] /\ client[c] \in Sessions
    BY DEF IInv, TypeOK
  <2>3. /\ client'[c].pc = "repairLoading" /\ client'[c].turn = meta.turn
        /\ \A d \in Clients : d # c => client'[d] = client[d]
    BY <1>2, <2>2 DEF Sessions
  <2>4. WithoutTurns /\ meta.turn = 0 => WithoutTurns'
    BY <2>1, <2>3 DEF WithoutTurns, Playing, At
  <2>5. ASSUME WithTurns, meta.turn # 0 PROVE WithTurns'
    <3>1. meta.turn \in 1 .. meta.turn /\ meta.turn \in Nat
      BY <2>5, TurnTypes
    <3>2. \A d \in Clients : Moving(d)' <=> Moving(d)
      BY <2>1, <2>3 DEF Moving, At
    <3>3. \A d \in Clients : Moving(d) => d # c /\ client'[d] = client[d]
      BY <2>1, <2>3 DEF Moving, At
    <3>4. \A i \in DOMAIN history : i >= meta.turn => history[i].actor # Actor[c]
      <4> SUFFICES ASSUME NEW i \in DOMAIN history, i >= meta.turn, history[i].actor = Actor[c]
                   PROVE  FALSE
        OBVIOUS
      <4>1. i = meta.turn /\ Len(history) = meta.turn
        BY <2>5, <3>1, TurnTypes DEF WithTurns
      <4>2. PICK d \in Clients : Moving(d)
        BY <2>5, <4>1 DEF WithTurns
      <4>3. Actor[d] = Actor[c]
        BY <2>5, <4>1, <4>2 DEF WithTurns
      <4> QED BY <3>3, <4>2, <4>3 DEF OneClientEach
    <3>5. \A d \in Clients : Playing(d)' /\ d # c => Playing(d) /\ client'[d] = client[d]
      BY <2>3 DEF Playing
    <3> QED BY <2>1, <2>3, <2>5, <3>1, <3>2, <3>3, <3>4, <3>5 DEF WithTurns
  <2>6. (\A d \in Clients : client[d].pc \in {"committing", "reducing"} => MayAct(d))'
    BY <2>3 DEF TurnsInOrder, MayAct
  <2>7. (\A d \in Clients : ~Creating(d))'
    BY <1>2, <2>3 DEF TurnsInOrder, Creating
  <2> QED BY <1>2, <2>1, <2>4, <2>5, <2>6, <2>7 DEF TurnsInOrder
<1> QED BY <1>1, <1>2 DEF LoadMeta

\* Whoever may act is the mover of the saved turn, and has not moved it.
LEMMA CommitTurns ==
  ASSUME IInv, TurnsInOrder, OneClientEach, NEW c \in Clients, Commit(c)
  PROVE  TurnsInOrder'
<1>1. /\ client[c].pc \in {"committing", "reducing"} /\ MayAct(c)
      /\ UNCHANGED <<meta, late>> /\ Matches(Write(c)) /\ Put(Write(c))
  BY DEF Commit, TurnsInOrder
<1>2. Playing(c) /\ ~Creating(c) /\ ~Moving(c)
  BY <1>1 DEF Playing, Creating, Moving
<1>3. meta.saved /\ meta.turn \in Nat /\ client[c].turn \in Nat
  BY <1>2, TurnTypes DEF TurnsInOrder, BeforeMeta
<1>4. client \in [Clients -> Sessions] /\ client[c] \in Sessions
  BY DEF IInv, TypeOK
<1>5. /\ client'[c].pc = "recording" /\ client'[c].turn = client[c].turn
      /\ \A d \in Clients : d # c => client'[d] = client[d]
  BY <1>4 DEF Commit, Sessions
<1>6. /\ DOMAIN history = 1 .. Len(history) /\ Len(history) \in Nat
      /\ DOMAIN history' = 1 .. (Len(history) + 1) /\ Len(history') = Len(history) + 1
      /\ \A i \in DOMAIN history : history'[i] = history[i]
      /\ history'[Len(history) + 1].actor = Actor[c]
      /\ history'[Len(history) + 1].turn = client[c].turn
  <2> DEFINE Moves == [op : Ops, actor : {Actor[d] : d \in Clients}, turn : Nat]
             new == [op |-> client[c].op, actor |-> Actor[c], turn |-> client[c].turn]
  <2>1. /\ history' = Append(history, new)
        /\ new.actor = Actor[c] /\ new.turn = client[c].turn
    BY <1>1 DEF Put, Write
  <2>2. history \in Seq(Moves)
    BY DEF IInv, TypeOK
  <2> HIDE DEF Moves, new
  <2> QED BY <2>1, <2>2
<1>7. store'.version > 0
  BY <1>1, <1>3, TurnTypes DEF Put, Matches, TurnsInOrder
<1>8. (\A d \in Clients : client[d].pc \in {"committing", "reducing"} => MayAct(d))'
  BY <1>5 DEF TurnsInOrder, MayAct
<1>9. (\A d \in Clients : ~Creating(d))'
  BY <1>3, <1>5 DEF TurnsInOrder, Creating
<1>10. CASE meta.turn = 0
  <2>1. WithoutTurns /\ client[c].turn = 0
    BY <1>2, <1>3, <1>10 DEF TurnsInOrder, WithoutTurns
  <2>2. WithoutTurns'
    BY <1>5, <1>6, <2>1 DEF WithoutTurns, Playing, At
  <2> QED BY <1>1, <1>3, <1>7, <1>8, <1>9, <1>10, <2>2 DEF TurnsInOrder
<1>11. CASE meta.turn # 0
  <2>1. WithTurns /\ client[c].turn \in 1 .. meta.turn /\ Current(client[c].turn) = Actor[c]
    BY <1>1, <1>2, <1>3, <1>11 DEF TurnsInOrder, WithTurns, MayAct
  <2>2. client[c].turn \notin DOMAIN history
    BY <1>2, <1>3, <2>1 DEF WithTurns
  <2>3. client[c].turn = meta.turn /\ Len(history) + 1 = meta.turn
    BY <1>3, <1>6, <2>1, <2>2 DEF WithTurns
  <2>4. \A d \in Clients : ~Moving(d)
    BY <1>3, <1>6, <2>1, <2>3 DEF WithTurns
  <2>5. /\ Moving(c)' /\ \A d \in Clients : Moving(d)' => d = c
        /\ \A d \in Clients : Playing(d)' /\ d # c => Playing(d) /\ client'[d] = client[d]
    BY <1>5, <2>4 DEF Moving, Playing
  <2>6. \A i \in DOMAIN history' :
          /\ history'[i].turn = i /\ history'[i].actor = Current(i)
          /\ i = meta.turn => history'[i].actor = Actor[c]
          /\ i # meta.turn => i \in DOMAIN history /\ history'[i] = history[i]
    BY <1>6, <2>1, <2>3 DEF WithTurns
  <2>7. ASSUME NEW d \in Clients, Playing(d)', NEW i \in DOMAIN history',
               history'[i].actor = Actor[d], i >= client'[d].turn
        PROVE  Moving(d)'
    <3>1. CASE d = c
      BY <2>5, <3>1
    <3>2. CASE d # c /\ i = meta.turn
      BY <2>6, <2>7, <3>2 DEF OneClientEach
    <3>3. CASE d # c /\ i # meta.turn
      BY <2>1, <2>4, <2>5, <2>6, <2>7, <3>3 DEF WithTurns
    <3> QED BY <3>1, <3>2, <3>3
  <2>8. \A d \in Clients : Playing(d)' => client'[d].turn \in 1 .. meta.turn
    BY <1>5, <2>1, <2>5 DEF WithTurns
  <2>9. WithTurns'
    <3>1. meta' = meta
      BY <1>1
    <3> QED BY <1>5, <1>6, <2>1, <2>3, <2>5, <2>6, <2>7, <2>8, <3>1 DEF WithTurns
  <2> QED BY <1>1, <1>3, <1>7, <1>8, <1>9, <1>11, <2>9 DEF TurnsInOrder
<1> QED BY <1>10, <1>11

\* The mover saves the next turn: nobody else is at a move.
LEMMA SaveTurnTurns ==
  ASSUME IInv, TurnsInOrder, OneClientEach, NEW c \in Clients, SaveTurn(c)
  PROVE  TurnsInOrder'
<1>1. At(c, "savingTurn") /\ Moving(c) /\ Playing(c) /\ ~Creating(c)
  BY DEF SaveTurn, At, Moving, Playing, Creating
<1>2. meta.saved /\ meta.turn # 0 /\ WithTurns
  BY <1>1 DEF TurnsInOrder, BeforeMeta, WithoutTurns
<1>3. /\ client[c].turn = meta.turn /\ Len(history) = meta.turn /\ Actor[c] = Current(meta.turn)
      /\ meta.turn \in Nat
  BY <1>1, <1>2, TurnTypes DEF WithTurns
<1>4. client \in [Clients -> Sessions] /\ client[c] \in Sessions
  BY DEF IInv, TypeOK
<1>5. /\ client'[c].pc = "ready" /\ client'[c].turn = meta.turn + 1
      /\ \A d \in Clients : d # c => client'[d] = client[d]
  BY <1>3, <1>4 DEF SaveTurn, Sessions
<1>6. meta'.saved /\ meta'.turn = meta.turn + 1 /\ UNCHANGED <<store, history, late>>
  BY <1>3 DEF SaveTurn
<1>7. \A d \in Clients : Moving(d) => d = c
  BY <1>2, <1>3 DEF WithTurns, OneClientEach
<1>8. \A d \in Clients : ~Moving(d)'
  BY <1>5, <1>7 DEF Moving
<1>9. \A d \in Clients : Playing(d)' /\ d # c => Playing(d) /\ client'[d] = client[d]
  BY <1>5 DEF Playing
<1>10. \A d \in Clients : Playing(d)' => client'[d].turn \in 1 .. (meta.turn + 1)
  BY <1>2, <1>3, <1>5, <1>9 DEF WithTurns
<1>11. ASSUME NEW d \in Clients, Playing(d)', NEW i \in DOMAIN history,
              history[i].actor = Actor[d], i >= client'[d].turn
       PROVE  FALSE
  <2>1. CASE d = c
    BY <1>3, <1>5, <1>11, <2>1, TurnTypes
  <2>2. CASE d # c
    BY <1>2, <1>7, <1>9, <1>11, <2>2 DEF WithTurns
  <2> QED BY <2>1, <2>2
<1>12. WithTurns'
  BY <1>2, <1>3, <1>6, <1>8, <1>10, <1>11 DEF WithTurns
<1>13. (\A d \in Clients : client[d].pc \in {"committing", "reducing"} => MayAct(d))'
  BY <1>5 DEF TurnsInOrder, MayAct
<1>14. (\A d \in Clients : ~Creating(d))'
  BY <1>2, <1>5 DEF TurnsInOrder, Creating
<1> QED BY <1>3, <1>6, <1>12, <1>13, <1>14, <1>2 DEF TurnsInOrder

LEMMA TurnsNext ==
  ASSUME OneClientEach
  PROVE  IInv /\ (faults = 0 => TurnsInOrder) /\ [Next]_vars => (faults = 0 => TurnsInOrder)'
<1> SUFFICES ASSUME IInv, faults = 0 => TurnsInOrder, [Next]_vars, faults' = 0
             PROVE  TurnsInOrder'
  OBVIOUS
<1>1. faults \in Nat
  BY DEF IInv, TypeOK
<1>2. faults' = faults \/ faults' = faults + 1
  BY DEF Next, ClientAction, ClientStep, CreateState, OpenTrajectory, SaveMeta, LoadState, LoadMeta,
         RepairLoad, RepairCheck, Repair, Dispatch, Commit, ReduceRead, Conflict,
         CommitUnanswered, Land, Record, SaveTurn, Crash, vars
<1>3. faults = 0 /\ TurnsInOrder /\ late = {}
  BY <1>1, <1>2 DEF TurnsInOrder
<1>4. ASSUME NEW c \in Clients, ClientAction(c) PROVE TurnsInOrder'
  <2>1. ~CommitUnanswered(c) /\ ~Crash(c)
    BY <1>3 DEF CommitUnanswered, Crash
  <2> QED BY <1>3, <1>4, <2>1, TurnlessSteps, CreateStateTurns, SaveMetaTurns, LoadMetaTurns,
             CommitTurns, SaveTurnTurns DEF ClientAction, ClientStep
<1>5. CASE UNCHANGED vars
  BY <1>3, <1>5 DEF vars, TurnsInOrder, MayAct, BeforeMeta, WithTurns, WithoutTurns, Creating,
     Playing, Moving, At
<1> QED BY <1>3, <1>4, <1>5 DEF Next

\* Where each participant has one client and nothing fails, the players move in turn, one
\* move each, for any number of players: conflicts, rebases, reloads and commutative actions
\* included, although the turn is kept apart from the state and saved after it.
THEOREM PlayersMoveInTurn ==
  ASSUME OneClientEach PROVE Spec => []OneMovePerTurn
<1>1. Init => TurnsInOrder
  BY DEF Init, TurnsInOrder, BeforeMeta, MayAct, Playing, NoSession
<1>2. IInv /\ (faults = 0 => TurnsInOrder) /\ [Next]_vars => (faults = 0 => TurnsInOrder)'
  BY TurnsNext
<1>3. IInv /\ (faults = 0 => TurnsInOrder) => OneMovePerTurn
  BY TurnTypes DEF TurnsInOrder, BeforeMeta, WithTurns, WithoutTurns, OneMovePerTurn
<1> QED BY <1>1, <1>2, <1>3, Inductive, PTL DEF Spec
=============================================================================
