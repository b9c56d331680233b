----------------------------- MODULE AdminProofs -----------------------------
(***************************************************************************)
(* Proofs about what administrators do: the settings and their dual        *)
(* control (ConfigApproval), and roles, permissions and their cache (the   *)
(* access service of Services), for every set of settings, administrators, *)
(* users, roles, servers and concurrent requests, and any faults but where *)
(* a theorem says otherwise.                                               *)
(***************************************************************************)
EXTENDS Services, TLAPS

-----------------------------------------------------------------------------
(* Requests and rows *)

\* What InOrder takes of the tables, as a request finds them after a step.
LEMMA RequestMoves ==
  ASSUME IInv, NEW q \in Requests, NEW r \in Request,
         req' = [req EXCEPT ![q] = r],
         UNCHANGED <<value, rows, applied, forgotten>>,
         log \subseteq log', log' \subseteq Record,
         cache' \in [Servers -> Values \cup {None}],
         history' \in Seq([key : Keys, previous : Values, new : Values, by : Admins]),
         calls' \in 0..MaxCalls,
         InOrder(r)',
         Approving(r) => Approving(req[q]) /\ req[q].row = r.row
  PROVE  IInv'
<1>1. /\ req' \in [Requests -> Request]
      /\ \A p \in Requests : req'[p] = IF p = q THEN r ELSE req[p]
  BY DEF IInv, TypeOK
<1>2. TypeOK'
  BY <1>1 DEF IInv, TypeOK
<1>3. \A k, v, a : Recorded(k, v, a) => Recorded(k, v, a)'
  BY DEF Recorded
<1>4. ValuesFit' /\ WritesInOrder'
  BY <1>3 DEF IInv, ValuesFit, WritesInOrder
<1>5. RequestsInOrder'
  <2>1. ASSUME NEW p \in Requests, p # q PROVE InOrder(req[p])'
    <3>1. InOrder(req[p]) /\ req'[p] = req[p]
      BY <1>1, <2>1 DEF IInv, RequestsInOrder
    <3> QED BY <1>3, <3>1 DEF InOrder, KindsInOrder, Approving
  <2>2. InOrder(req[q])'
    BY <1>1 DEF InOrder, KindsInOrder, Approving, Recorded
  <2> QED BY <2>1, <2>2 DEF RequestsInOrder
<1>6. OneApplier'
  BY <1>1 DEF IInv, OneApplier, Approving
<1> QED BY <1>2, <1>4, <1>5, <1>6 DEF IInv

\* The request that has been answered.
Answered(q) ==
  [req[q] EXCEPT !.at = "idle", !.kind = "update", !.by = None,
                 !.key = Flag, !.value = Off, !.row = 0, !.seen = Off]

\* It is at nothing, and keeps its server.
LEMMA AnsweredInOrder ==
  ASSUME TypeOK, NEW q \in Requests, NEW r, r = Answered(q)
  PROVE  r \in Request /\ InOrder(r) /\ InOrder(r)' /\ ~Approving(r)
<1>1. req[q] \in Request
  BY DEF TypeOK
<1>2. r \in Request /\ r.at = "idle" /\ r.kind = "update" /\ r.row = 0
  <2>1. Flag \in Keys /\ Off \in Values /\ MaxRows \in Nat /\ 0 \in 0..MaxRows
    BY ConfigAssumption
  <2> QED BY <1>1, <2>1 DEF Answered, Request, PC, Kind
<1> QED BY <1>2 DEF InOrder, KindsInOrder, Approving

\* A request that ends and leaves the rows, the values and the writes alone.
LEMMA DoneMoves ==
  ASSUME IInv, NEW q \in Requests, Done(q),
         UNCHANGED <<value, rows, applied, forgotten>>,
         log \subseteq log', log' \subseteq Record,
         cache' \in [Servers -> Values \cup {None}],
         history' \in Seq([key : Keys, previous : Values, new : Values, by : Admins]),
         calls' \in 0..MaxCalls
  PROVE  IInv'
<1> SUFFICES ASSUME NEW r, r = Answered(q) PROVE IInv'
  OBVIOUS
<1>1. r \in Request /\ InOrder(r)' /\ ~Approving(r)
  BY AnsweredInOrder DEF IInv
<1>2. req' = [req EXCEPT ![q] = r]
  BY DEF Done, Answered, IInv, TypeOK
<1> QED BY <1>1, <1>2, RequestMoves

\* A request that goes on: what is left to show is that it may be where it goes to.
LEMMA GotoMoves ==
  ASSUME IInv, NEW q \in Requests, NEW at \in PC,
         req[q].at # "idle", Goto(q, at),
         UNCHANGED <<value, rows, applied, forgotten>>,
         log \subseteq log', log' \subseteq Record,
         cache' \in [Servers -> Values \cup {None}],
         history' \in Seq([key : Keys, previous : Values, new : Values, by : Admins]),
         calls' \in 0..MaxCalls,
         KindsInOrder([req[q] EXCEPT !.at = at]),
         at \in {"flag", "filling", "looking", "inserting", "auditing", "writing"} =>
           Valid(req[q].key, req[q].value),
         at = "writing" => Recorded(req[q].key, req[q].value, req[q].by)',
         req[q].kind = "approve" /\ at = "settling" => rows[req[q].row].by # req[q].by,
         req[q].kind = "approve" /\ at \in Applying => Approving(req[q]),
         req[q].kind = "approve" /\ at \in {"invalidating", "noting"} =>
           req[q].at \in {"invalidating", "noting"}
  PROVE  IInv'
<1> SUFFICES ASSUME NEW r, r = [req[q] EXCEPT !.at = at] PROVE IInv'
  OBVIOUS
<1>1. req[q] \in Request /\ InOrder(req[q])
  BY DEF IInv, TypeOK, RequestsInOrder
<1>2. /\ r \in Request /\ r.at = at /\ r.kind = req[q].kind /\ r.by = req[q].by
      /\ r.key = req[q].key /\ r.value = req[q].value /\ r.row = req[q].row
      /\ KindsInOrder(r)
  BY <1>1 DEF Request
<1>3. req' = [req EXCEPT ![q] = r]
  BY DEF Goto, IInv, TypeOK
<1>4. InOrder(r)'
  <2>1. KindsInOrder(r)'
    BY <1>2 DEF KindsInOrder
  <2>3. (r.at # "idle" => r.by \in Admins /\ MayChange(r.by, r.key))'
    BY <1>1, <1>2 DEF InOrder
  <2>4. (IF r.kind \in {"approve", "reject"}
         THEN r.row \in DOMAIN rows /\ r.key = rows[r.row].key /\ r.value = rows[r.row].value
         ELSE r.row = 0)'
    BY <1>1, <1>2 DEF InOrder
  <2>5. (r.kind = "approve" /\ r.at \in Applying \cup {"settling"} => rows[r.row].by # r.by)'
    BY <1>1, <1>2 DEF InOrder, Approving
  <2>6. (Approving(r) => rows[r.row].status \in {"approved", "expired"})'
    BY <1>1, <1>2 DEF InOrder, Approving
  <2>7. (Approving(r) /\ r.at \in {"invalidating", "noting"} => \E w \in applied : w.row = r.row)'
    BY <1>1, <1>2 DEF InOrder, Approving
  <2>8. req'[q] = r
    BY <1>3 DEF IInv, TypeOK
  <2> QED BY <1>2, <2>1, <2>3, <2>4, <2>5, <2>6, <2>7, <2>8 DEF InOrder, Valid, Recorded
<1>5. Approving(r) => Approving(req[q]) /\ req[q].row = r.row
  BY <1>2 DEF Approving
<1> QED BY <1>2, <1>3, <1>4, <1>5, RequestMoves

-----------------------------------------------------------------------------
(* The accesses that move one request *)

LEMMA BeginMoves ==
  ASSUME IInv, NEW q \in Requests, NEW kind \in Kind, NEW a \in Admins, NEW k \in Keys,
         NEW v \in Values, NEW i \in 0..MaxRows,
         NEW at \in {"entry", "recording", "reviewing"},
         Begin(q, kind, a, k, v, i, at),
         IF kind \in {"approve", "reject"}
         THEN at # "entry" /\ i \in DOMAIN rows /\ k = rows[i].key /\ v = rows[i].value
         ELSE at = "entry" /\ i = 0
  PROVE  IInv'
<1> SUFFICES ASSUME NEW r,
                    r = [req[q] EXCEPT !.at = at, !.kind = kind, !.by = a, !.key = k,
                                       !.value = v, !.row = i]
             PROVE  IInv'
  OBVIOUS
<1>1. req[q] \in Request
  BY DEF IInv, TypeOK
<1>2. /\ r \in Request /\ r.at = at /\ r.kind = kind /\ r.by = a
      /\ r.key = k /\ r.value = v /\ r.row = i
  BY <1>1 DEF Request, PC
<1>3. req' = [req EXCEPT ![q] = r] /\ MayChange(a, k)
  BY DEF Begin, IInv, TypeOK
<1>4. /\ UNCHANGED <<value, rows, log, history, cache, applied, forgotten>>
      /\ calls' \in 0..MaxCalls
  BY ConfigAssumption DEF Begin, notes, IInv, TypeOK
<1>5. kind \in {"approve", "reject", "update", "preview", "propose"}
  BY DEF Kind
<1>6. InOrder(r)' /\ ~Approving(r)
  BY <1>2, <1>3, <1>4, <1>5 DEF InOrder, KindsInOrder, Approving, Applying
<1> QED BY <1>2, <1>3, <1>4, <1>6, RequestMoves DEF IInv, TypeOK

LEMMA ArriveMoves ==
  ASSUME IInv, NEW q \in Requests, Arrive(q) PROVE IInv'
<1>1. 0 \in 0..MaxRows /\ DOMAIN rows \subseteq 0..MaxRows /\ rows \in Seq(Row)
  BY ConfigAssumption DEF IInv, TypeOK
<1>2. CASE \E a \in Admins, k \in Keys, v \in Values : BeginUpdate(q, a, k, v)
  BY <1>1, <1>2, BeginMoves DEF BeginUpdate, Kind
<1>3. CASE \E a \in Admins, k \in Keys, v \in Values, kind \in {"update", "preview", "propose"} :
             BeginTool(q, kind, a, k, v)
  BY <1>1, <1>3, BeginMoves DEF BeginTool, Kind
<1>4. CASE \E a \in Admins, i \in DOMAIN rows, kind \in {"approve", "reject"} :
             BeginDecision(q, kind, a, i) \/ BeginReviewTool(q, kind, a, i)
  <2>1. PICK a \in Admins, i \in DOMAIN rows, kind \in {"approve", "reject"} :
          BeginDecision(q, kind, a, i) \/ BeginReviewTool(q, kind, a, i)
    BY <1>4
  <2>2. rows[i] \in Row
    BY <1>1
  <2>3. rows[i].key \in Keys /\ rows[i].value \in Values
    BY <2>2 DEF Row
  <2> QED BY <1>1, <2>1, <2>3, BeginMoves DEF BeginDecision, BeginReviewTool, Kind
<1> QED BY <1>2, <1>3, <1>4 DEF Arrive

LEMMA RecordDecisionMoves ==
  ASSUME IInv, NEW q \in Requests, RecordDecision(q) PROVE IInv'
<1>1. req[q] \in Request /\ InOrder(req[q]) /\ req[q].at = "recording"
  BY DEF IInv, TypeOK, RequestsInOrder, RecordDecision
<1>2. /\ UNCHANGED <<value, rows, history, cache, calls, applied, forgotten>>
      /\ TypeOK
  BY DEF RecordDecision, notes, IInv
<1>3. CASE /\ log' = log \cup {[about |-> "decision", row |-> req[q].row, key |-> req[q].key,
                                value |-> req[q].value, by |-> req[q].by]}
           /\ Goto(q, "reviewing")
  <2>1. log \subseteq log' /\ log' \subseteq Record
    BY <1>1, <1>2, <1>3 DEF Request, Record, InOrder, TypeOK
  <2>2. KindsInOrder([req[q] EXCEPT !.at = "reviewing"])
    BY <1>1 DEF InOrder, KindsInOrder, Request
  <2>3. "reviewing" \in PC /\ "reviewing" \notin Applying
    BY DEF PC, Applying
  <2> QED BY <1>1, <1>2, <1>3, <2>1, <2>2, <2>3, GotoMoves DEF TypeOK
<1>4. CASE Done(q) /\ UNCHANGED log
  BY <1>2, <1>4, DoneMoves DEF TypeOK
<1> QED BY <1>3, <1>4 DEF RecordDecision

LEMMA LoadEntryMoves ==
  ASSUME IInv, NEW q \in Requests, LoadEntry(q) PROVE IInv'
<1>1. /\ req[q] \in Request /\ InOrder(req[q]) /\ req[q].at = "entry"
      /\ TypeOK /\ UNCHANGED <<value, rows, log, history, cache, calls, applied, forgotten>>
  BY DEF IInv, TypeOK, RequestsInOrder, LoadEntry, notes
<1>2. CASE Done(q)
  BY <1>1, <1>2, DoneMoves DEF TypeOK
<1>3. ASSUME Refuse(q) PROVE IInv'
  <2>1. CASE req[q].kind = "approve"
    <3>1. Goto(q, "reopening") /\ "reopening" \in PC
      BY <1>3, <2>1 DEF Refuse, PC
    <3>2. KindsInOrder([req[q] EXCEPT !.at = "reopening"])
      BY <1>1, <2>1 DEF KindsInOrder, Request
    <3>3. Approving(req[q])
      BY <1>1, <2>1 DEF Approving, Applying
    <3> QED BY <1>1, <3>1, <3>2, <3>3, GotoMoves DEF TypeOK
  <2>2. CASE req[q].kind # "approve"
    BY <1>2, <1>3, <2>2 DEF Refuse
  <2> QED BY <2>1, <2>2
<1>4. ASSUME Valid(req[q].key, req[q].value), AfterEntry(q) # "idle",
             req' = [req EXCEPT ![q].at = AfterEntry(q), ![q].seen = value[req[q].key]]
      PROVE  IInv'
  <2> SUFFICES ASSUME NEW r, NEW at,
                      at = AfterEntry(q),
                      r = [req[q] EXCEPT !.at = at, !.seen = value[req[q].key]]
               PROVE  IInv'
    OBVIOUS
  <2>1. /\ req[q].kind = "preview" => at = "flag"
        /\ req[q].kind = "update" => at \in {"flag", "auditing"}
        /\ req[q].kind = "propose" => at = "looking"
        /\ req[q].kind = "approve" => at = "auditing"
    BY <1>4 DEF AfterEntry
  <2>2. req[q].kind \in {"update", "preview", "propose", "approve"}
    BY <1>1 DEF InOrder, KindsInOrder, Request, Kind
  <2>3. /\ r \in Request /\ r.at = at /\ r.kind = req[q].kind /\ r.by = req[q].by
        /\ r.key = req[q].key /\ r.value = req[q].value /\ r.row = req[q].row
    BY <1>1, <2>1, <2>2 DEF Request, PC, TypeOK
  <2>4. req' = [req EXCEPT ![q] = r]
    BY <1>1, <1>4 DEF TypeOK
  <2>5. Approving(req[q]) <=> req[q].kind = "approve"
    BY <1>1 DEF Approving, Applying
  <2>6. InOrder(r)'
    BY <1>1, <1>4, <2>1, <2>2, <2>3, <2>5 DEF InOrder, KindsInOrder, Valid, Approving, Applying
  <2> QED BY <1>1, <2>3, <2>4, <2>5, <2>6, RequestMoves DEF TypeOK, Approving
<1> QED BY <1>2, <1>3, <1>4 DEF LoadEntry

\* The switch has been consulted.
LEMMA DecideMoves ==
  ASSUME IInv, NEW q \in Requests, NEW needed \in BOOLEAN, Decide(q, needed),
         req[q].at \in {"flag", "filling"},
         UNCHANGED <<value, rows, log, history, calls, applied, forgotten>>,
         cache' \in [Servers -> Values \cup {None}]
  PROVE  IInv'
<1>1. req[q] \in Request /\ InOrder(req[q]) /\ TypeOK
  BY DEF IInv, TypeOK, RequestsInOrder
<1>2. CASE Done(q)
  BY <1>1, <1>2, DoneMoves DEF TypeOK
<1>3. ASSUME NEW at \in {"looking", "auditing"}, Goto(q, at), req[q].kind # "preview" PROVE IInv'
  <2>1. req[q].kind = "update" /\ Valid(req[q].key, req[q].value) /\ at \in PC
    BY <1>1, <1>3 DEF InOrder, KindsInOrder, PC
  <2>2. KindsInOrder([req[q] EXCEPT !.at = at])
    BY <1>1, <2>1 DEF KindsInOrder, Request
  <2> QED BY <1>1, <1>3, <2>1, <2>2, GotoMoves DEF TypeOK
<1> QED BY <1>2, <1>3 DEF Decide

LEMMA FlagMoves ==
  ASSUME IInv, NEW q \in Requests, FlagCached(q) \/ FlagRead(q) \/ FillCache(q) PROVE IInv'
<1>1. /\ req[q] \in Request /\ InOrder(req[q]) /\ TypeOK
      /\ UNCHANGED <<value, rows, log, history, calls, applied, forgotten>>
  BY DEF IInv, TypeOK, RequestsInOrder, FlagCached, FlagRead, FillCache, notes
<1>2. CASE FlagCached(q)
  BY <1>1, <1>2, DecideMoves DEF FlagCached, TypeOK
<1>3. CASE FlagRead(q) /\ Decide(q, TRUE)
  BY <1>1, <1>3, DecideMoves DEF FlagRead, TypeOK
<1>4. ASSUME FlagRead(q), req' = [req EXCEPT ![q].at = "filling", ![q].seen = value[Flag]]
      PROVE  IInv'
  <2> SUFFICES ASSUME NEW r, r = [req[q] EXCEPT !.at = "filling", !.seen = value[Flag]]
               PROVE  IInv'
    OBVIOUS
  <2>1. req[q].at = "flag" /\ req[q].kind \in {"update", "preview"}
    BY <1>1, <1>4 DEF FlagRead, InOrder, KindsInOrder
  <2>2. /\ r \in Request /\ r.at = "filling" /\ r.kind = req[q].kind /\ r.by = req[q].by
        /\ r.key = req[q].key /\ r.value = req[q].value /\ r.row = req[q].row
    BY <1>1, ConfigAssumption DEF Request, PC, TypeOK
  <2>3. req' = [req EXCEPT ![q] = r]
    BY <1>1, <1>4 DEF TypeOK
  <2>4. InOrder(r)' /\ ~Approving(r)
    BY <1>1, <2>1, <2>2 DEF InOrder, KindsInOrder, Valid, Approving
  <2>5. UNCHANGED cache
    BY <1>4 DEF FlagRead
  <2> QED BY <1>1, <2>2, <2>3, <2>4, <2>5, RequestMoves DEF TypeOK
<1>5. CASE FillCache(q)
  <2>1. cache' \in [Servers -> Values \cup {None}]
    BY <1>1, <1>5 DEF FillCache, Request, TypeOK
  <2> QED BY <1>1, <1>5, <2>1, DecideMoves DEF FillCache
<1> QED BY <1>2, <1>3, <1>4, <1>5 DEF FlagRead

LEMMA LookForPendingMoves ==
  ASSUME IInv, NEW q \in Requests, LookForPending(q) PROVE IInv'
<1>1. /\ req[q] \in Request /\ InOrder(req[q]) /\ req[q].at = "looking" /\ TypeOK
      /\ UNCHANGED <<value, rows, log, history, cache, calls, applied, forgotten>>
  BY DEF IInv, TypeOK, RequestsInOrder, LookForPending, notes
<1>2. CASE Done(q)
  BY <1>1, <1>2, DoneMoves DEF TypeOK
<1>3. CASE Goto(q, "inserting")
  <2>1. "inserting" \in PC /\ "inserting" \notin Applying /\ Valid(req[q].key, req[q].value)
    BY <1>1 DEF PC, Applying, InOrder
  <2>2. KindsInOrder([req[q] EXCEPT !.at = "inserting"])
    BY <1>1 DEF InOrder, KindsInOrder, Request
  <2> QED BY <1>1, <1>3, <2>1, <2>2, GotoMoves DEF TypeOK
<1> QED BY <1>2, <1>3 DEF LookForPending

LEMMA ReviewReadMoves ==
  ASSUME IInv, NEW q \in Requests, ReviewRead(q) PROVE IInv'
<1>1. /\ req[q] \in Request /\ InOrder(req[q]) /\ req[q].at = "reviewing" /\ TypeOK
      /\ UNCHANGED <<value, rows, log, history, cache, calls, applied, forgotten>>
  BY DEF IInv, TypeOK, RequestsInOrder, ReviewRead, notes
<1>2. CASE Done(q)
  BY <1>1, <1>2, DoneMoves DEF TypeOK
<1>3. ASSUME NEW at \in {"expiring", "settling"}, Goto(q, at), at = "settling" => MayDecide(q)
      PROVE  IInv'
  <2>1. at \in PC /\ at \notin Applying
    BY DEF PC, Applying
  <2>2. KindsInOrder([req[q] EXCEPT !.at = at])
    BY <1>1 DEF InOrder, KindsInOrder, Request
  <2> QED BY <1>1, <1>3, <2>1, <2>2, GotoMoves DEF TypeOK, MayDecide
<1> QED BY <1>2, <1>3 DEF ReviewRead

LEMMA NotWrittenMoves ==
  ASSUME IInv, NEW q \in Requests, NotWritten(q),
         req[q].at \in {"auditing", "writing"},
         UNCHANGED <<value, rows, log, history, cache, calls, applied, forgotten>>
  PROVE  IInv'
<1>1. req[q] \in Request /\ InOrder(req[q]) /\ TypeOK
  BY DEF IInv, TypeOK, RequestsInOrder
<1>2. CASE Done(q)
  BY <1>1, <1>2, DoneMoves DEF TypeOK
<1>3. ASSUME req[q].kind = "approve", Goto(q, "reopening") PROVE IInv'
  <2>1. KindsInOrder([req[q] EXCEPT !.at = "reopening"]) /\ "reopening" \in PC
    BY <1>1, <1>3 DEF KindsInOrder, Request, PC
  <2>2. Approving(req[q])
    BY <1>3 DEF Approving, Applying
  <2> QED BY <1>1, <1>3, <2>1, <2>2, GotoMoves DEF TypeOK
<1> QED BY <1>2, <1>3 DEF NotWritten

LEMMA RecordChangeMoves ==
  ASSUME IInv, NEW q \in Requests, RecordChange(q) PROVE IInv'
<1>1. /\ req[q] \in Request /\ InOrder(req[q]) /\ req[q].at = "auditing" /\ TypeOK
      /\ UNCHANGED <<value, rows, history, cache, calls, applied, forgotten>>
  BY DEF IInv, TypeOK, RequestsInOrder, RecordChange, notes
<1>2. req[q].kind \in {"update", "approve"} /\ Valid(req[q].key, req[q].value)
  BY <1>1 DEF InOrder, KindsInOrder
<1>3. Approving(req[q]) <=> req[q].kind = "approve"
  BY <1>1 DEF Approving, Applying
<1>4. ASSUME log' = log \cup {[about |-> "change", row |-> 0, key |-> req[q].key,
                               value |-> req[q].value, by |-> req[q].by]},
             Goto(q, "writing")
      PROVE  IInv'
  <2>1. log \subseteq log' /\ log' \subseteq Record
    BY <1>1, <1>4, ConfigAssumption DEF Request, Record, InOrder, TypeOK
  <2>2. KindsInOrder([req[q] EXCEPT !.at = "writing"]) /\ "writing" \in PC
    BY <1>1, <1>2 DEF KindsInOrder, Request, PC
  <2>3. /\ req'[q].key = req[q].key /\ req'[q].value = req[q].value
        /\ req'[q].by = req[q].by
    BY <1>1, <1>4 DEF Goto, TypeOK, Request
  <2>4. Recorded(req[q].key, req[q].value, req[q].by)'
    <3> DEFINE e == [about |-> "change", row |-> 0, key |-> req[q].key,
                     value |-> req[q].value, by |-> req[q].by]
    <3>1. /\ e.about = "change" /\ e.key = req[q].key
          /\ e.value = req[q].value /\ e.by = req[q].by
      OBVIOUS
    <3>2. e \in log'
      BY <1>4
    <3> HIDE DEF e
    <3> QED BY <2>3, <3>1, <3>2 DEF Recorded
  <2> QED BY <1>1, <1>2, <1>3, <1>4, <2>1, <2>2, <2>4, GotoMoves DEF TypeOK
<1>5. CASE NotWritten(q) /\ UNCHANGED log
  BY <1>1, <1>5, NotWrittenMoves
<1> QED BY <1>4, <1>5 DEF RecordChange

LEMMA InvalidateMoves ==
  ASSUME IInv, NEW q \in Requests, Invalidate(q) PROVE IInv'
<1>1. /\ req[q] \in Request /\ InOrder(req[q]) /\ req[q].at = "invalidating" /\ TypeOK
      /\ UNCHANGED <<value, rows, log, history, calls, applied, forgotten>>
      /\ Goto(q, "noting")
  BY DEF IInv, TypeOK, RequestsInOrder, Invalidate, notes
<1>2. cache' \in [Servers -> Values \cup {None}]
  BY <1>1 DEF Invalidate, TypeOK
<1>3. KindsInOrder([req[q] EXCEPT !.at = "noting"]) /\ "noting" \in PC
  BY <1>1 DEF InOrder, KindsInOrder, Request, PC
<1>4. Approving(req[q]) <=> req[q].kind = "approve"
  BY <1>1 DEF Approving, Applying
<1> QED BY <1>1, <1>2, <1>3, <1>4, GotoMoves DEF TypeOK

LEMMA NoteHistoryMoves ==
  ASSUME IInv, NEW q \in Requests, NoteHistory(q) PROVE IInv'
<1>1. /\ req[q] \in Request /\ TypeOK /\ Done(q) /\ InOrder(req[q]) /\ req[q].at = "noting"
      /\ UNCHANGED <<value, rows, log, cache, calls, applied, forgotten>>
  BY DEF IInv, TypeOK, NoteHistory, notes, RequestsInOrder
<1>2. history' \in Seq([key : Keys, previous : Values, new : Values, by : Admins])
  <2> DEFINE Note == [key : Keys, previous : Values, new : Values, by : Admins]
             note == [key |-> req[q].key, previous |-> req[q].seen,
                      new |-> req[q].value, by |-> req[q].by]
  <2>1. note \in Note
    BY <1>1 DEF Request, InOrder
  <2>2. history \in Seq(Note)
    BY <1>1 DEF TypeOK
  <2>3. history' = Append(history, note) \/ history' = history
    BY DEF NoteHistory
  <2> HIDE DEF Note, note
  <2>4. history' \in Seq(Note)
    BY <2>1, <2>2, <2>3
  <2> QED BY <2>4 DEF Note
<1> QED BY <1>1, <1>2, DoneMoves DEF TypeOK

LEMMA CrashMoves ==
  ASSUME IInv, NEW q \in Requests, Crash(q) PROVE IInv'
<1> SUFFICES ASSUME NEW r, r = Answered(q) PROVE IInv'
  OBVIOUS
<1>1. /\ TypeOK /\ req[q] \in Request /\ InOrder(req[q])
      /\ UNCHANGED <<value, rows, log, history, cache, calls, applied>>
  BY DEF IInv, TypeOK, RequestsInOrder, Crash
<1>2. forgotten' \subseteq DOMAIN rows
  BY <1>1 DEF TypeOK, InOrder, Crash
<1>3. r \in Request /\ InOrder(r)' /\ ~Approving(r)
  BY <1>1, AnsweredInOrder
<1>4. /\ req' \in [Requests -> Request]
      /\ \A p \in Requests : req'[p] = IF p = q THEN r ELSE req[p]
  BY <1>1, <1>3 DEF Crash, Done, Answered, TypeOK
<1>5. TypeOK' /\ ValuesFit' /\ WritesInOrder'
  BY <1>1, <1>2, <1>4 DEF IInv, TypeOK, ValuesFit, WritesInOrder, Recorded
<1>6. RequestsInOrder'
  <2>1. ASSUME NEW p \in Requests, p # q PROVE InOrder(req[p])'
    <3>1. InOrder(req[p]) /\ req'[p] = req[p]
      BY <1>4, <2>1 DEF IInv, RequestsInOrder
    <3> QED BY <1>1, <3>1 DEF InOrder, KindsInOrder, Approving, Recorded
  <2>2. InOrder(req[q])'
    BY <1>3, <1>4 DEF InOrder, KindsInOrder, Approving, Recorded
  <2> QED BY <2>1, <2>2 DEF RequestsInOrder
<1>7. OneApplier'
  BY <1>3, <1>4 DEF IInv, OneApplier, Approving
<1> QED BY <1>5, <1>6, <1>7 DEF IInv

-----------------------------------------------------------------------------
(* The accesses that change a row *)

\* A row in the place of another of the same change.
SameChange(old, new) == new.key = old.key /\ new.value = old.value /\ new.by = old.by

LEMMA RowReplaced ==
  ASSUME TypeOK, NEW i \in DOMAIN rows, NEW new \in Row, SameChange(rows[i], new),
         rows' = [rows EXCEPT ![i] = new]
  PROVE  /\ rows' \in Seq(Row) /\ Len(rows') = Len(rows) /\ DOMAIN rows' = DOMAIN rows
         /\ \A j \in DOMAIN rows : rows'[j] = IF j = i THEN new ELSE rows[j]
         /\ \A j \in DOMAIN rows : rows[j] \in Row /\ SameChange(rows[j], rows'[j])
<1>1. rows \in Seq(Row)
  BY DEF TypeOK
<1>2. rows' \in Seq(Row) /\ Len(rows') = Len(rows) /\ DOMAIN rows' = DOMAIN rows
  BY <1>1
<1>3. \A j \in DOMAIN rows : rows'[j] = IF j = i THEN new ELSE rows[j]
  BY <1>1
<1>4. \A j \in DOMAIN rows : rows[j] \in Row
  BY <1>1
<1> QED BY <1>2, <1>3, <1>4 DEF SameChange

\* The other requests and the writes do not mind, unless a request applies that row.
LEMMA RowMoves ==
  ASSUME IInv, NEW i \in DOMAIN rows, NEW new \in Row, SameChange(rows[i], new),
         rows' = [rows EXCEPT ![i] = new],
         UNCHANGED <<value, log, history, cache, calls, applied>>,
         forgotten' \subseteq DOMAIN rows,
         req' \in [Requests -> Request],
         \A p \in Requests :
           \/ req'[p] = req[p] /\ (AppliesRow(p, i) => new.status \in {"approved", "expired"})
           \/ InOrder(req[p])',
         OneApplier'
  PROVE  IInv'
<1>1. /\ rows' \in Seq(Row) /\ Len(rows') = Len(rows) /\ DOMAIN rows' = DOMAIN rows
      /\ \A j \in DOMAIN rows : rows'[j] = IF j = i THEN new ELSE rows[j]
      /\ \A j \in DOMAIN rows : SameChange(rows[j], rows'[j])
  BY RowReplaced DEF IInv
<1>2. TypeOK'
  BY <1>1 DEF IInv, TypeOK
<1>3. ValuesFit'
  BY <1>1 DEF IInv, ValuesFit, SameChange, Valid
<1>4. WritesInOrder'
  <2>1. \A k, v, a : Recorded(k, v, a) => Recorded(k, v, a)'
    BY DEF Recorded
  <2> QED BY <1>1, <2>1 DEF IInv, WritesInOrder, SameChange
<1>5. RequestsInOrder'
  <2> SUFFICES ASSUME NEW p \in Requests, req'[p] = req[p],
                      AppliesRow(p, i) => new.status \in {"approved", "expired"}
               PROVE  InOrder(req[p])'
    BY DEF RequestsInOrder
  <2> SUFFICES ASSUME NEW r, r = req[p], r = req'[p] PROVE InOrder(r)'
    BY DEF InOrder, KindsInOrder, Approving, Recorded
  <2>1. InOrder(r) /\ (Approving(r) /\ r.row = i => new.status \in {"approved", "expired"})
    BY DEF IInv, RequestsInOrder, AppliesRow
  <2>2. (IF r.kind \in {"approve", "reject"}
         THEN r.row \in DOMAIN rows /\ r.key = rows[r.row].key /\ r.value = rows[r.row].value
         ELSE r.row = 0)'
    BY <1>1, <2>1 DEF InOrder, SameChange
  <2>3. (r.kind = "approve" /\ r.at \in Applying \cup {"settling"} => rows[r.row].by # r.by)'
    BY <1>1, <2>1 DEF InOrder, SameChange
  <2>4. (Approving(r) => rows[r.row].status \in {"approved", "expired"})'
    BY <1>1, <2>1 DEF InOrder, Approving
  <2> QED BY <2>1, <2>2, <2>3, <2>4 DEF InOrder, KindsInOrder, Recorded, Approving, Valid
<1> QED BY <1>2, <1>3, <1>4, <1>5 DEF IInv

LEMMA LapseMoves ==
  ASSUME IInv, NEW i \in DOMAIN rows, Lapse(i) PROVE IInv'
<1> SUFFICES ASSUME NEW new, new = [rows[i] EXCEPT !.lapsed = TRUE] PROVE IInv'
  OBVIOUS
<1>1. rows \in Seq(Row) /\ rows[i] \in Row /\ TypeOK
  BY DEF IInv, TypeOK
<1>2. new \in Row /\ SameChange(rows[i], new) /\ new.status = rows[i].status
  BY <1>1 DEF Row, SameChange
<1>3. rows' = [rows EXCEPT ![i] = new]
  BY <1>1 DEF Lapse
<1>4. UNCHANGED <<value, log, history, cache, calls, applied, forgotten, req>>
  BY DEF Lapse, notes
<1>5. \A p \in Requests : AppliesRow(p, i) => new.status \in {"approved", "expired"}
  BY <1>2 DEF IInv, RequestsInOrder, InOrder, AppliesRow
<1>6. OneApplier'
  BY <1>4 DEF IInv, OneApplier, Approving
<1> QED BY <1>1, <1>2, <1>3, <1>4, <1>5, <1>6, RowMoves DEF TypeOK

\* A request that ends with a change of its row.
LEMMA RowDoneMoves ==
  ASSUME IInv, NEW q \in Requests, req[q].row \in DOMAIN rows, NEW new \in Row,
         SameChange(rows[req[q].row], new),
         rows' = [rows EXCEPT ![req[q].row] = new],
         Done(q), UNCHANGED <<value, log, history, cache, calls, applied>>,
         forgotten' \subseteq DOMAIN rows,
         \/ new.status \in {"approved", "expired"}
         \/ \A p \in Requests \ {q} : ~AppliesRow(p, req[q].row)
  PROVE  IInv'
<1> SUFFICES ASSUME NEW r, r = Answered(q) PROVE IInv'
  OBVIOUS
<1>1. TypeOK /\ r \in Request /\ InOrder(r)' /\ ~Approving(r)
  BY AnsweredInOrder DEF IInv
<1>2. /\ req' \in [Requests -> Request]
      /\ \A p \in Requests : req'[p] = IF p = q THEN r ELSE req[p]
  BY <1>1 DEF Done, Answered, TypeOK
<1>3. InOrder(req[q])'
  BY <1>1, <1>2 DEF InOrder, KindsInOrder, Approving, Recorded
<1>4. OneApplier'
  BY <1>1, <1>2 DEF IInv, OneApplier, Approving
<1> QED BY <1>1, <1>2, <1>3, <1>4, RowMoves

LEMMA MarkExpiredMoves ==
  ASSUME IInv, NEW q \in Requests, MarkExpired(q) PROVE IInv'
<1> SUFFICES ASSUME NEW new, new = [rows[req[q].row] EXCEPT !.status = "expired"] PROVE IInv'
  OBVIOUS
<1>1. /\ TypeOK /\ req[q] \in Request /\ InOrder(req[q]) /\ req[q].at = "expiring" /\ Done(q)
      /\ UNCHANGED <<value, log, history, cache, calls, applied, forgotten>>
  BY DEF IInv, TypeOK, RequestsInOrder, MarkExpired, notes
<1>2. rows \in Seq(Row) /\ req[q].row \in DOMAIN rows
  BY <1>1 DEF TypeOK, InOrder, KindsInOrder
<1>3. rows[req[q].row] \in Row
  BY <1>2
<1>4. new \in Row /\ SameChange(rows[req[q].row], new) /\ new.status = "expired"
  BY <1>3 DEF Row, RowStatus, SameChange
<1>5. rows' = [rows EXCEPT ![req[q].row] = new]
  BY <1>2 DEF MarkExpired
<1> QED BY <1>1, <1>2, <1>4, <1>5, RowDoneMoves DEF TypeOK

\* The conditional update: nobody applies a row that is pending.
LEMMA SettleRowMoves ==
  ASSUME IInv, NEW q \in Requests, SettleRow(q) PROVE IInv'
<1> DEFINE i == req[q].row
<1>1. /\ TypeOK /\ req[q] \in Request /\ InOrder(req[q]) /\ req[q].at = "settling"
      /\ UNCHANGED <<value, log, history, cache, calls, applied>>
  BY DEF IInv, TypeOK, RequestsInOrder, SettleRow
<1>2. rows \in Seq(Row) /\ i \in DOMAIN rows /\ req[q].kind \in {"approve", "reject"}
  BY <1>1 DEF TypeOK, InOrder, KindsInOrder
<1>3. rows[i] \in Row /\ req[q].by \in Admins /\ req[q].row = i
  BY <1>1, <1>2 DEF InOrder
<1> HIDE DEF i
<1>4. CASE Done(q) /\ UNCHANGED <<rows, forgotten>>
  BY <1>1, <1>4, DoneMoves DEF TypeOK
<1>5. ASSUME StillPending(i),
             rows' = [rows EXCEPT ![i].status = Verdict(q), ![i].reviewer = req[q].by],
             \/ /\ IF req[q].kind = "approve" THEN Goto(q, "entry") ELSE Done(q)
                /\ UNCHANGED forgotten
             \/ Done(q) /\ forgotten' = forgotten \cup {i}
      PROVE  IInv'
  <2> SUFFICES ASSUME NEW new,
                      new = [rows[i] EXCEPT !.status = Verdict(q), !.reviewer = req[q].by]
               PROVE  IInv'
    OBVIOUS
  <2>1. /\ new \in Row /\ SameChange(rows[i], new)
        /\ new.status = IF req[q].kind = "approve" THEN "approved" ELSE "rejected"
    BY <1>3 DEF Row, RowStatus, SameChange, Verdict
  <2>2. rows' = [rows EXCEPT ![i] = new] /\ forgotten' \subseteq DOMAIN rows
    BY <1>1, <1>2, <1>5 DEF TypeOK
  <2>3. \A p \in Requests : ~AppliesRow(p, i)
    BY <1>5 DEF IInv, RequestsInOrder, InOrder, AppliesRow, StillPending
  <2>4. CASE Done(q)
    BY <1>1, <1>2, <1>3, <2>1, <2>2, <2>3, <2>4, RowDoneMoves
  <2>5. CASE req[q].kind = "approve" /\ Goto(q, "entry")
    <3> SUFFICES ASSUME NEW r, r = [req[q] EXCEPT !.at = "entry"] PROVE IInv'
      OBVIOUS
    <3>1. /\ r \in Request /\ r.at = "entry" /\ r.kind = "approve" /\ r.by = req[q].by
          /\ r.key = req[q].key /\ r.value = req[q].value /\ r.row = i
      BY <1>1, <1>3, <2>5 DEF Request, PC
    <3>2. /\ req' \in [Requests -> Request]
          /\ \A p \in Requests : req'[p] = IF p = q THEN r ELSE req[p]
      BY <1>1, <2>5, <3>1 DEF Goto, TypeOK
    <3>3. /\ DOMAIN rows' = DOMAIN rows /\ rows'[i] = new
      BY <1>1, <1>2, <2>1, <2>2, RowReplaced
    <3>4. InOrder(r)'
      <4>1. i \in DOMAIN rows' /\ r.row = i /\ rows'[i] = new
        BY <1>2, <3>1, <3>3
      <4>2. /\ r.by \in Admins /\ MayChange(r.by, r.key) /\ rows[i].by # r.by
            /\ r.key = rows[i].key /\ r.value = rows[i].value
        BY <1>1, <1>3, <2>5, <3>1 DEF InOrder
      <4>3. r.key = new.key /\ r.value = new.value /\ new.by # r.by /\ new.status = "approved"
        BY <2>1, <2>5, <4>2 DEF SameChange
      <4> QED BY <3>1, <4>1, <4>2, <4>3 DEF InOrder, KindsInOrder, Approving
    <3>5. InOrder(req[q])'
      BY <3>2, <3>4 DEF InOrder, KindsInOrder, Approving, Recorded
    <3>6. OneApplier'
      <4> SUFFICES ASSUME NEW p \in Requests, NEW o \in Requests,
                          Approving(req'[p]), Approving(req'[o]), req'[p].row = req'[o].row
                   PROVE  p = o
        BY DEF OneApplier, Approving
      <4>1. \A u \in Requests \ {q} : req'[u] = req[u] /\ ~(Approving(req[u]) /\ req[u].row = i)
        BY <2>3, <3>2 DEF AppliesRow
      <4>2. req'[q].row = i
        BY <3>1, <3>2
      <4> QED BY <4>1, <4>2 DEF IInv, OneApplier
    <3> QED BY <1>1, <1>2, <2>1, <2>2, <2>3, <3>2, <3>5, <3>6, RowMoves
  <2> QED BY <1>5, <2>4, <2>5
<1> QED BY <1>4, <1>5 DEF SettleRow, i

LEMMA ReopenMoves ==
  ASSUME IInv, NEW q \in Requests, Reopen(q) PROVE IInv'
<1>1. /\ TypeOK /\ req[q] \in Request /\ InOrder(req[q]) /\ req[q].at = "reopening" /\ Done(q)
      /\ UNCHANGED <<value, log, history, cache, calls, applied>>
  BY DEF IInv, TypeOK, RequestsInOrder, Reopen
<1>2. Approving(req[q])
  BY <1>1 DEF InOrder, KindsInOrder, Approving, Applying
<1>3. rows \in Seq(Row) /\ req[q].row \in DOMAIN rows
  BY <1>1, <1>2 DEF TypeOK, InOrder, Approving
<1>4. forgotten' \subseteq DOMAIN rows
  BY <1>1, <1>3 DEF TypeOK, Reopen
<1>5. rows[req[q].row] \in Row
  BY <1>3
<1>6. \A p \in Requests \ {q} : ~AppliesRow(p, req[q].row)
  BY <1>2 DEF IInv, OneApplier, AppliesRow
<1>7. ASSUME NEW new,
             new = IF rows[req[q].row].status = "approved"
                   THEN [rows[req[q].row] EXCEPT !.status = "pending", !.reviewer = None]
                   ELSE rows[req[q].row]
      PROVE  /\ new \in Row /\ SameChange(rows[req[q].row], new)
             /\ ReopenRow(q) => rows' = [rows EXCEPT ![req[q].row] = new]
  <2>1. rows = [rows EXCEPT ![req[q].row] = rows[req[q].row]]
    BY <1>3
  <2>2. new \in Row /\ SameChange(rows[req[q].row], new)
    BY <1>5, <1>7 DEF Row, RowStatus, SameChange
  <2>3. CASE rows[req[q].row].status = "approved"
    BY <1>3, <1>7, <2>2, <2>3 DEF ReopenRow
  <2>4. CASE rows[req[q].row].status # "approved"
    BY <1>7, <2>1, <2>2, <2>4 DEF ReopenRow
  <2> QED BY <2>3, <2>4
<1>8. CASE ReopenRow(q)
  BY <1>1, <1>3, <1>4, <1>6, <1>7, <1>8, RowDoneMoves
<1>9. CASE UNCHANGED rows
  <2>1. rows' = [rows EXCEPT ![req[q].row] = rows[req[q].row]]
    BY <1>3, <1>9
  <2>2. SameChange(rows[req[q].row], rows[req[q].row])
    BY DEF SameChange
  <2> QED BY <1>1, <1>3, <1>4, <1>5, <1>6, <2>1, <2>2, RowDoneMoves
<1> QED BY <1>8, <1>9 DEF Reopen

LEMMA InsertRowMoves ==
  ASSUME IInv, NEW q \in Requests, InsertRow(q) PROVE IInv'
<1>1. /\ TypeOK /\ req[q] \in Request /\ InOrder(req[q]) /\ req[q].at = "inserting" /\ Done(q)
      /\ UNCHANGED <<value, log, history, cache, calls, applied, forgotten>>
  BY DEF IInv, TypeOK, RequestsInOrder, InsertRow, notes
<1>2. CASE UNCHANGED rows
  BY <1>1, <1>2, DoneMoves DEF TypeOK
<1>3. ASSUME NEW new, Len(rows) < MaxRows, rows' = Append(rows, new),
             new = [key |-> req[q].key, value |-> req[q].value, by |-> req[q].by,
                    status |-> "pending", reviewer |-> None, lapsed |-> FALSE]
      PROVE  IInv'
  <2>1. new \in Row /\ Valid(new.key, new.value)
    BY <1>1, <1>3 DEF Request, Row, RowStatus, InOrder
  <2>2. /\ rows \in Seq(Row) /\ MaxRows \in Nat
        /\ \A j \in DOMAIN rows : rows[j] \in Row
    BY <1>1, ConfigAssumption DEF TypeOK
  <2>3. /\ rows' \in Seq(Row) /\ Len(rows') <= MaxRows
        /\ DOMAIN rows' = DOMAIN rows \cup {Len(rows) + 1}
        /\ \A j \in DOMAIN rows : rows'[j] = rows[j]
        /\ rows'[Len(rows) + 1] = new
    BY <1>3, <2>1, <2>2
  <2> SUFFICES ASSUME NEW r, r = Answered(q) PROVE IInv'
    OBVIOUS
  <2>4. r \in Request /\ InOrder(r)' /\ ~Approving(r)
    BY <1>1, AnsweredInOrder
  <2>5. /\ req' \in [Requests -> Request]
        /\ \A p \in Requests : req'[p] = IF p = q THEN r ELSE req[p]
    BY <1>1, <2>4 DEF Done, Answered, TypeOK
  <2>6. TypeOK'
    BY <1>1, <2>3, <2>5 DEF TypeOK
  <2>7. ValuesFit'
    BY <1>1, <2>1, <2>3 DEF IInv, ValuesFit, Valid
  <2>8. \A k, v, a : Recorded(k, v, a) => Recorded(k, v, a)'
    BY <1>1 DEF Recorded
  <2>9. WritesInOrder'
    BY <1>1, <2>3, <2>8 DEF IInv, WritesInOrder
  <2>10. RequestsInOrder'
    <3>1. ASSUME NEW p \in Requests, p # q PROVE InOrder(req[p])'
      <4> SUFFICES ASSUME NEW o, o = req[p], o = req'[p] PROVE InOrder(o)'
        BY <2>5, <3>1 DEF InOrder, KindsInOrder, Approving, Recorded
      <4>1. InOrder(o)
        BY DEF IInv, RequestsInOrder
      <4> QED BY <1>1, <2>3, <2>8, <4>1 DEF InOrder, KindsInOrder, Approving, Valid
    <3>2. InOrder(req[q])'
      BY <2>4, <2>5 DEF InOrder, KindsInOrder, Approving, Recorded
    <3> QED BY <3>1, <3>2 DEF RequestsInOrder
  <2>11. OneApplier'
    BY <2>4, <2>5 DEF IInv, OneApplier, Approving
  <2> QED BY <2>6, <2>7, <2>9, <2>10, <2>11 DEF IInv
<1> QED BY <1>2, <1>3 DEF InsertRow

-----------------------------------------------------------------------------
(* The write *)

\* A value that was recorded and fits is written, and its writer goes on or ends.
LEMMA WriteMoves ==
  ASSUME IInv, NEW q \in Requests, req[q].at = "writing", NEW w,
         w = [row |-> req[q].row, key |-> req[q].key, value |-> req[q].value, by |-> req[q].by],
         value' = [value EXCEPT ![req[q].key] = req[q].value],
         applied' = applied \cup {w},
         UNCHANGED <<rows, log, history, cache, calls, forgotten>>,
         NEW r \in Request, req' = [req EXCEPT ![q] = r], InOrder(r)',
         Approving(r) => Approving(req[q]) /\ req[q].row = r.row
  PROVE  IInv'
<1>1. TypeOK /\ req[q] \in Request /\ InOrder(req[q])
  BY DEF IInv, TypeOK, RequestsInOrder
<1>2. /\ req' \in [Requests -> Request]
      /\ \A p \in Requests : req'[p] = IF p = q THEN r ELSE req[p]
  BY <1>1 DEF TypeOK
<1>3. /\ w \in Write /\ w.row = req[q].row /\ w.key = req[q].key
      /\ w.value = req[q].value /\ w.by = req[q].by
  BY <1>1 DEF Request, Write, InOrder
<1>4. TypeOK'
  BY <1>1, <1>2, <1>3 DEF TypeOK, Request
<1>5. ValuesFit'
  BY <1>1 DEF IInv, ValuesFit, TypeOK, InOrder, Valid
<1>6. \A k, v, a : Recorded(k, v, a) => Recorded(k, v, a)'
  BY DEF Recorded
<1>7. WritesInOrder'
  <2>1. Recorded(w.key, w.value, w.by) /\ MayChange(w.by, w.key)
    BY <1>1, <1>3 DEF InOrder
  <2>2. w.row # 0 => /\ w.row \in DOMAIN rows /\ w.by # rows[w.row].by
                     /\ w.key = rows[w.row].key /\ w.value = rows[w.row].value
    BY <1>1, <1>3 DEF InOrder, KindsInOrder, Applying
  <2>3. ASSUME NEW u \in applied PROVE Recorded(u.key, u.value, u.by)'
    BY <1>6, <2>3 DEF IInv, WritesInOrder
  <2>4. Recorded(w.key, w.value, w.by)'
    BY <1>6, <2>1
  <2> QED BY <2>1, <2>2, <2>3, <2>4 DEF IInv, WritesInOrder
<1>8. RequestsInOrder'
  <2>1. ASSUME NEW p \in Requests, p # q PROVE InOrder(req[p])'
    <3> SUFFICES ASSUME NEW o, o = req[p], o = req'[p] PROVE InOrder(o)'
      BY <1>2, <2>1 DEF InOrder, KindsInOrder, Approving, Recorded
    <3>1. InOrder(o)
      BY DEF IInv, RequestsInOrder
    <3> QED BY <1>6, <3>1 DEF InOrder, KindsInOrder, Approving, Valid
  <2>2. InOrder(req[q])'
    BY <1>2 DEF InOrder, KindsInOrder, Approving, Recorded
  <2> QED BY <2>1, <2>2 DEF RequestsInOrder
<1>9. OneApplier'
  BY <1>2 DEF IInv, OneApplier, Approving
<1> QED BY <1>4, <1>5, <1>7, <1>8, <1>9 DEF IInv

LEMMA WriteValueMoves ==
  ASSUME IInv, NEW q \in Requests, WriteValue(q) PROVE IInv'
<1>1. /\ TypeOK /\ req[q] \in Request /\ InOrder(req[q]) /\ req[q].at = "writing"
      /\ req[q].kind \in {"update", "approve"}
      /\ UNCHANGED <<rows, log, history, cache, calls, forgotten>>
  BY DEF IInv, TypeOK, RequestsInOrder, InOrder, KindsInOrder, WriteValue
<1>2. CASE NotWritten(q) /\ UNCHANGED <<value, applied>>
  BY <1>1, <1>2, NotWrittenMoves
<1>3. ASSUME NEW w,
             w = [row |-> req[q].row, key |-> req[q].key, value |-> req[q].value, by |-> req[q].by],
             value' = [value EXCEPT ![req[q].key] = req[q].value],
             applied' = applied \cup {w},
             Goto(q, "invalidating") \/ NotWritten(q)
      PROVE  IInv'
  <2>1. w \in applied' /\ w.row = req[q].row
    BY <1>3
  <2>2. CASE Done(q)
    <3> SUFFICES ASSUME NEW r, r = Answered(q) PROVE IInv'
      OBVIOUS
    <3>1. r \in Request /\ InOrder(r)' /\ ~Approving(r)
      BY <1>1, AnsweredInOrder
    <3>2. req' = [req EXCEPT ![q] = r]
      BY <1>1, <2>2 DEF Done, Answered, TypeOK
    <3> QED BY <1>1, <1>3, <3>1, <3>2, WriteMoves
  <2>3. ASSUME NEW at \in {"invalidating", "reopening"}, Goto(q, at),
               at = "reopening" => req[q].kind = "approve"
        PROVE  IInv'
    <3> SUFFICES ASSUME NEW r, r = [req[q] EXCEPT !.at = at] PROVE IInv'
      OBVIOUS
    <3>1. /\ r \in Request /\ r.at = at /\ r.kind = req[q].kind /\ r.by = req[q].by
          /\ r.key = req[q].key /\ r.value = req[q].value /\ r.row = req[q].row
      BY <1>1 DEF Request, PC
    <3>2. req' = [req EXCEPT ![q] = r]
      BY <1>1, <2>3 DEF Goto, TypeOK
    <3>3. Approving(req[q]) <=> req[q].kind = "approve"
      BY <1>1 DEF Approving, Applying
    <3>4. InOrder(r)'
      BY <1>1, <2>1, <2>3, <3>1, <3>3 DEF InOrder, KindsInOrder, Approving
    <3> QED BY <1>1, <1>3, <3>1, <3>2, <3>3, <3>4, WriteMoves DEF Approving
  <2> QED BY <1>3, <2>2, <2>3 DEF NotWritten
<1> QED BY <1>2, <1>3 DEF WriteValue

-----------------------------------------------------------------------------
(* The invariant *)

LEMMA ExpireCacheMoves ==
  ASSUME IInv, NEW s \in Servers, ExpireCache(s) PROVE IInv'
<1>1. TypeOK /\ UNCHANGED <<value, rows, log, history, req, calls, applied, forgotten>>
  BY DEF IInv, ExpireCache, notes
<1>2. TypeOK'
  BY <1>1 DEF TypeOK, ExpireCache
<1> QED BY <1>1, <1>2 DEF IInv, ValuesFit, RequestsInOrder, OneApplier, WritesInOrder,
           InOrder, KindsInOrder, Approving, Recorded

LEMMA StutterKeeps ==
  ASSUME IInv, UNCHANGED vars PROVE IInv'
BY DEF IInv, vars, notes, TypeOK, ValuesFit, RequestsInOrder, OneApplier, WritesInOrder,
       InOrder, KindsInOrder, Approving, Recorded

LEMMA InitInv == Init => IInv
<1> SUFFICES ASSUME Init PROVE IInv
  OBVIOUS
<1>1. /\ \A k \in Keys : value[k] \in Accepts[k]
      /\ rows = <<>> /\ log = {} /\ history = <<>> /\ calls = 0
      /\ cache = [s \in Servers |-> None] /\ applied = {} /\ forgotten = {}
  BY DEF Init
<1>2. MaxRows \in Nat /\ MaxCalls \in Nat /\ Flag \in Keys /\ Off \in Values
  BY ConfigAssumption
<1>3. /\ req \in [Requests -> Request]
      /\ \A q \in Requests : req[q].at = "idle" /\ req[q].kind = "update" /\ req[q].row = 0
  <2> DEFINE Idle == {[at |-> "idle", kind |-> "update", by |-> None, server |-> s, key |-> Flag,
                       value |-> Off, row |-> 0, seen |-> Off] : s \in Servers}
  <2>1. \A r \in Idle : r \in Request /\ r.at = "idle" /\ r.kind = "update" /\ r.row = 0
    BY <1>2 DEF Request, PC, Kind
  <2>2. req \in [Requests -> Idle]
    BY DEF Init
  <2> HIDE DEF Idle
  <2> QED BY <2>1, <2>2
<1>4. TypeOK
  <2>1. value \in [Keys -> Values]
    BY DEF Init
  <2> QED BY <1>1, <1>2, <1>3, <2>1 DEF TypeOK
<1>5. ValuesFit /\ WritesInOrder
  BY <1>1 DEF ValuesFit, WritesInOrder, Valid
<1>6. RequestsInOrder /\ OneApplier
  BY <1>3 DEF RequestsInOrder, OneApplier, InOrder, KindsInOrder, Approving
<1> QED BY <1>4, <1>5, <1>6 DEF IInv

LEMMA StepMoves ==
  ASSUME IInv, NEW q \in Requests, Step(q) PROVE IInv'
BY RecordDecisionMoves, LoadEntryMoves, FlagMoves, LookForPendingMoves, InsertRowMoves,
   ReviewReadMoves, MarkExpiredMoves, SettleRowMoves, RecordChangeMoves, WriteValueMoves,
   InvalidateMoves, NoteHistoryMoves, ReopenMoves DEF Step

LEMMA NextKeepsInv == IInv /\ [Next]_vars => IInv'
BY ArriveMoves, StepMoves, CrashMoves, ExpireCacheMoves, LapseMoves, StutterKeeps DEF Next

\* Whatever interleaves and fails, every request in progress is about what its row says and
\* is its requester's to make, and nothing has been written that was not recorded
\* (governed-config.ts, config-approval.ts, setConfigWithHistory).
THEOREM Inductive == Spec => []IInv
BY InitInv, NextKeepsInv, PTL DEF Spec

\* Every variable keeps its type.
THEOREM TypeCorrect == Spec => []TypeOK
<1>1. IInv => TypeOK
  BY DEF IInv
<1> QED BY <1>1, Inductive, PTL

\* No change request is put in force by its requester, by somebody whose tiers do not hold
\* its key, or with another value than the one requested.
THEOREM IndependentApproval == Spec => []IndependentlyApproved
<1>1. IInv => IndependentlyApproved
  BY DEF IInv, WritesInOrder, IndependentlyApproved
<1> QED BY <1>1, Inductive, PTL

-----------------------------------------------------------------------------
(* Rows and the requests that apply them *)

\* Where an approval that has not written stands, or one that could not.
Unwritten == {"entry", "auditing", "writing", "reopening"}

\* A step of q that touches no row and writes no value: q applies no row it did not apply,
\* and the row it no longer applies is in force, or known to be forgotten.
ForcesNothing(q) ==
  /\ UNCHANGED <<rows, applied>> /\ forgotten \subseteq forgotten'
  /\ \A p \in Requests \ {q} : req'[p] = req[p]
  /\ Approving(req'[q]) =>
       /\ Approving(req[q]) /\ req'[q].row = req[q].row
       /\ req'[q].at \in Unwritten => req[q].at \in Unwritten
  /\ Approving(req[q]) =>
       \/ Approving(req'[q]) /\ req'[q].row = req[q].row
       \/ \E w \in applied : w.row = req[q].row
       \/ req[q].row \in forgotten'

\* What Goto and Done do to the requests.
LEMMA GotoEffect ==
  ASSUME TypeOK, NEW q \in Requests, NEW at, Goto(q, at)
  PROVE  /\ \A p \in Requests \ {q} : req'[p] = req[p]
         /\ req'[q].at = at /\ req'[q].row = req[q].row /\ req'[q].kind = req[q].kind
BY DEF TypeOK, Goto, Request

LEMMA DoneEffect ==
  ASSUME TypeOK, NEW q \in Requests, Done(q)
  PROVE  /\ \A p \in Requests \ {q} : req'[p] = req[p]
         /\ req'[q].at = "idle" /\ req'[q].row = 0 /\ req'[q].kind = "update"
BY DEF TypeOK, Done, Request

LEMMA ForcelessSteps ==
  ASSUME IInv, NEW q \in Requests,
         \/ Arrive(q) \/ Crash(q) \/ RecordDecision(q) \/ LoadEntry(q)
         \/ FlagCached(q) \/ FlagRead(q) \/ FillCache(q) \/ LookForPending(q)
         \/ ReviewRead(q) \/ RecordChange(q) \/ Invalidate(q) \/ NoteHistory(q)
  PROVE  ForcesNothing(q)
<1>1. TypeOK /\ req[q] \in Request /\ InOrder(req[q])
  BY DEF IInv, TypeOK, RequestsInOrder
<1>2. CASE Arrive(q)
  <2>1. ASSUME NEW kind, NEW a, NEW k, NEW v, NEW i, NEW at \in {"entry", "recording", "reviewing"},
               Begin(q, kind, a, k, v, i, at), at = "entry" => kind # "approve"
        PROVE  ForcesNothing(q)
    <3>1. /\ \A p \in Requests \ {q} : req'[p] = req[p]
          /\ req'[q].at = at /\ req'[q].kind = kind /\ req[q].at = "idle"
          /\ UNCHANGED <<rows, applied, forgotten>>
      BY <1>1, <2>1 DEF Begin, notes, TypeOK, Request
    <3> QED BY <2>1, <3>1 DEF ForcesNothing, Approving, Applying
  <2>2. CASE \E a \in Admins, k \in Keys, v \in Values :
               \/ BeginUpdate(q, a, k, v)
               \/ \E kind \in {"update", "preview", "propose"} : BeginTool(q, kind, a, k, v)
    BY <2>1, <2>2 DEF BeginUpdate, BeginTool
  <2>3. CASE \E a \in Admins, i \in DOMAIN rows, kind \in {"approve", "reject"} :
               BeginDecision(q, kind, a, i) \/ BeginReviewTool(q, kind, a, i)
    BY <2>1, <2>3 DEF BeginDecision, BeginReviewTool
  <2> QED BY <1>2, <2>2, <2>3 DEF Arrive
<1>3. CASE Crash(q)
  BY <1>1, <1>3, DoneEffect DEF Crash, ForcesNothing, Approving
<1>4. CASE RecordDecision(q)
  <2>1. req[q].at = "recording" /\ UNCHANGED <<rows, applied, forgotten>>
    BY <1>4 DEF RecordDecision, notes
  <2> QED BY <1>1, <1>4, <2>1, GotoEffect, DoneEffect
      DEF RecordDecision, ForcesNothing, Approving, Applying
<1>5. CASE LoadEntry(q)
  <2>1. /\ req[q].at = "entry" /\ UNCHANGED <<rows, applied, forgotten>>
        /\ AfterEntry(q) \in {"flag", "idle", "looking", "auditing"}
        /\ req[q].kind = "approve" => AfterEntry(q) = "auditing"
    BY <1>1, <1>5 DEF LoadEntry, AfterEntry, notes, Request, Kind
  <2>2. CASE req' = [req EXCEPT ![q].at = AfterEntry(q), ![q].seen = value[req[q].key]]
    <3>1. /\ \A p \in Requests \ {q} : req'[p] = req[p]
          /\ req'[q].at = AfterEntry(q) /\ req'[q].row = req[q].row
          /\ req'[q].kind = req[q].kind
      BY <1>1, <2>2 DEF TypeOK, Request
    <3> QED BY <2>1, <3>1 DEF ForcesNothing, Approving, Applying, Unwritten
  <2>3. CASE Refuse(q)
    BY <1>1, <2>1, <2>3, GotoEffect, DoneEffect
    DEF Refuse, ForcesNothing, Approving, Applying, Unwritten
  <2>4. CASE Valid(req[q].key, req[q].value) /\ AfterEntry(q) = "idle" /\ Done(q)
    BY <1>1, <2>1, <2>4, DoneEffect DEF ForcesNothing, Approving, Applying
  <2> QED BY <1>5, <2>2, <2>3, <2>4 DEF LoadEntry
<1>6. CASE FlagCached(q) \/ FlagRead(q) \/ FillCache(q)
  <2>1. /\ req[q].at \in {"flag", "filling"} /\ req[q].kind # "approve"
        /\ UNCHANGED <<rows, applied, forgotten>>
    BY <1>1, <1>6 DEF FlagCached, FlagRead, FillCache, notes, InOrder, KindsInOrder
  <2>2. CASE \E needed \in BOOLEAN : Decide(q, needed)
    BY <1>1, <2>1, <2>2, GotoEffect, DoneEffect DEF Decide, ForcesNothing, Approving
  <2>3. CASE req' = [req EXCEPT ![q].at = "filling", ![q].seen = value[Flag]]
    BY <1>1, <2>1, <2>3 DEF TypeOK, Request, ForcesNothing, Approving
  <2> QED BY <1>6, <2>2, <2>3 DEF FlagCached, FlagRead, FillCache
<1>7. CASE LookForPending(q)
  <2>1. /\ req[q].at = "looking" /\ req[q].kind # "approve"
        /\ UNCHANGED <<rows, applied, forgotten>>
    BY <1>1, <1>7 DEF LookForPending, notes, InOrder, KindsInOrder
  <2> QED BY <1>1, <1>7, <2>1, GotoEffect, DoneEffect DEF LookForPending, ForcesNothing, Approving
<1>8. CASE ReviewRead(q)
  <2>1. /\ req[q].at = "reviewing" /\ UNCHANGED <<rows, applied, forgotten>>
        /\ Done(q) \/ Goto(q, "expiring") \/ Goto(q, "settling")
    BY <1>8 DEF ReviewRead, notes
  <2> QED BY <1>1, <2>1, GotoEffect, DoneEffect DEF ForcesNothing, Approving, Applying
<1>9. CASE RecordChange(q)
  <2>1. /\ req[q].at = "auditing" /\ UNCHANGED <<rows, applied, forgotten>>
        /\ Goto(q, "writing") \/ NotWritten(q)
    BY <1>9 DEF RecordChange, notes
  <2> QED BY <1>1, <2>1, GotoEffect, DoneEffect
      DEF NotWritten, ForcesNothing, Approving, Applying, Unwritten
<1>10. CASE Invalidate(q)
  <2>1. /\ req[q].at = "invalidating" /\ Goto(q, "noting")
        /\ UNCHANGED <<rows, applied, forgotten>>
    BY <1>10 DEF Invalidate, notes
  <2> QED BY <1>1, <2>1, GotoEffect DEF ForcesNothing, Approving, Applying, Unwritten
<1>11. CASE NoteHistory(q)
  <2>1. /\ req[q].at = "noting" /\ Done(q) /\ UNCHANGED <<rows, applied, forgotten>>
    BY <1>11 DEF NoteHistory, notes
  <2> QED BY <1>1, <2>1, DoneEffect DEF ForcesNothing, Approving, InOrder
<1> QED BY <1>2, <1>3, <1>4, <1>5, <1>6, <1>7, <1>8, <1>9, <1>10, <1>11

-----------------------------------------------------------------------------
(* What is in force *)

\* Where a row's status is decided, and what a value is written for: only the requests
\* that settle, mark, reopen, insert or write are left.
LEMMA ForcelessKeepsOutOfForce ==
  ASSUME OutOfForce, NotYetWritten, NEW q \in Requests, ForcesNothing(q)
  PROVE  OutOfForce' /\ NotYetWritten'
<1>1. \A p \in Requests : Approving(req'[p]) =>
        /\ Approving(req[p]) /\ req'[p].row = req[p].row
        /\ req'[p].at \in Unwritten => req[p].at \in Unwritten
  BY DEF ForcesNothing
<1>2. UNCHANGED <<rows, applied>>
  BY DEF ForcesNothing
<1> QED BY <1>1, <1>2 DEF OutOfForce, NotYetWritten, AppliesRow, Approving, Unwritten

\* Nobody has written for a row, nor applies it, that is new or pending.
LEMMA OutOfForceMoves ==
  ASSUME IInv, OutOfForce, NotYetWritten, "lost" \notin Faults, NEW q \in Requests,
         MarkExpired(q) \/ SettleRow(q) \/ Reopen(q) \/ InsertRow(q) \/ WriteValue(q)
  PROVE  OutOfForce' /\ NotYetWritten'
<1>1. /\ TypeOK /\ req[q] \in Request /\ InOrder(req[q])
      /\ rows \in Seq(Row) /\ \A j \in DOMAIN rows : rows[j] \in Row
  BY DEF IInv, TypeOK, RequestsInOrder
<1> DEFINE i == req[q].row
<1>2. CASE MarkExpired(q)
  <2>1. /\ \A p \in Requests \ {q} : req'[p] = req[p]
        /\ ~Approving(req'[q]) /\ applied' = applied
    BY <1>1, <1>2, DoneEffect DEF MarkExpired, notes, Approving
  <2>2. /\ DOMAIN rows' = DOMAIN rows
        /\ \A j \in DOMAIN rows : rows'[j].status \in {rows[j].status, "expired"}
    BY <1>1, <1>2 DEF MarkExpired, Row
  <2> QED BY <2>1, <2>2 DEF OutOfForce, NotYetWritten, AppliesRow, Approving
<1>3. CASE SettleRow(q)
  <2>1. i \in DOMAIN rows /\ applied' = applied /\ req[q].at = "settling"
    BY <1>1, <1>3 DEF SettleRow, InOrder, KindsInOrder
  <2>2. CASE Done(q) /\ UNCHANGED rows
    <3>1. ForcesNothing(q)
      BY <1>1, <1>3, <2>1, <2>2, DoneEffect DEF SettleRow, ForcesNothing, Approving, Applying
    <3> QED BY <3>1, ForcelessKeepsOutOfForce
  <2>3. CASE /\ StillPending(i)
             /\ rows' = [rows EXCEPT ![i].status = Verdict(q), ![i].reviewer = req[q].by]
             /\ IF req[q].kind = "approve" THEN Goto(q, "entry") ELSE Done(q)
    <3>1. /\ DOMAIN rows' = DOMAIN rows /\ rows'[i].status = Verdict(q)
          /\ \A j \in DOMAIN rows \ {i} : rows'[j] = rows[j]
      BY <1>1, <2>1, <2>3 DEF Row
    <3>2. /\ \A p \in Requests \ {q} : req'[p] = req[p]
          /\ Approving(req'[q]) => req'[q].row = i /\ req[q].kind = "approve"
      BY <1>1, <2>3, GotoEffect, DoneEffect DEF Approving
    <3>3. (\A w \in applied : w.row # i) /\ \A p \in Requests : ~AppliesRow(p, i)
      BY <2>1, <2>3 DEF OutOfForce, StillPending
    <3>4. NotYetWritten'
      BY <2>1, <3>2, <3>3 DEF NotYetWritten, Approving
    <3>5. OutOfForce'
      <4> SUFFICES ASSUME NEW j \in DOMAIN rows, rows'[j].status \in {"pending", "rejected"}
                   PROVE  /\ \A w \in applied : w.row # j
                          /\ \A p \in Requests : ~(Approving(req'[p]) /\ req'[p].row = j)
        BY <2>1, <3>1 DEF OutOfForce, AppliesRow, Approving
      <4>1. CASE j = i
        <5>1. req[q].kind # "approve"
          BY <3>1, <4>1 DEF Verdict
        <5> QED BY <3>2, <3>3, <4>1, <5>1 DEF AppliesRow
      <4>2. CASE j # i
        BY <3>1, <3>2, <4>2 DEF OutOfForce, AppliesRow
      <4> QED BY <4>1, <4>2
    <3> QED BY <3>4, <3>5
  <2> QED BY <1>3, <2>2, <2>3 DEF SettleRow
<1>4. CASE Reopen(q)
  <2>1. req[q].at = "reopening" /\ Done(q) /\ applied' = applied
    BY <1>4 DEF Reopen
  <2>2. Approving(req[q]) /\ i \in DOMAIN rows
    BY <1>1, <2>1 DEF InOrder, KindsInOrder, Approving, Applying
  <2>3. (\A w \in applied : w.row # i) /\ \A p \in Requests \ {q} : ~AppliesRow(p, i)
    BY <2>1, <2>2 DEF NotYetWritten, IInv, OneApplier, AppliesRow
  <2>4. /\ \A p \in Requests \ {q} : req'[p] = req[p]
        /\ ~Approving(req'[q])
    BY <1>1, <2>1, DoneEffect DEF Approving
  <2>5. /\ DOMAIN rows' = DOMAIN rows
        /\ \A j \in DOMAIN rows \ {i} : rows'[j] = rows[j]
    BY <1>1, <1>4, <2>2 DEF Reopen, ReopenRow
  <2> QED BY <2>1, <2>3, <2>4, <2>5 DEF OutOfForce, NotYetWritten, AppliesRow, Approving
<1>5. CASE InsertRow(q)
  <2>1. /\ req[q].at = "inserting" /\ Done(q) /\ applied' = applied
    BY <1>5 DEF InsertRow, notes
  <2>2. /\ \A p \in Requests \ {q} : req'[p] = req[p]
        /\ ~Approving(req'[q])
    BY <1>1, <2>1, DoneEffect DEF Approving
  <2>3. /\ \A j \in DOMAIN rows : j \in DOMAIN rows' /\ rows'[j] = rows[j]
        /\ 0 \notin DOMAIN rows'
    <3>1. ASSUME NEW new, rows' = Append(rows, new)
          PROVE  /\ \A j \in DOMAIN rows : j \in DOMAIN rows' /\ rows'[j] = rows[j]
                 /\ 0 \notin DOMAIN rows'
      BY <1>1, <3>1
    <3> QED BY <1>1, <1>5, <3>1 DEF InsertRow
  <2>4. \A w \in applied : w.row = 0 \/ w.row \in DOMAIN rows
    BY DEF IInv, WritesInOrder
  <2>5. \A p \in Requests : Approving(req[p]) => req[p].row \in DOMAIN rows
    BY DEF IInv, RequestsInOrder, InOrder, Approving
  <2> QED BY <2>1, <2>2, <2>3, <2>4, <2>5 DEF OutOfForce, NotYetWritten, AppliesRow, Approving
<1>6. CASE WriteValue(q)
  <2>1. req[q].at = "writing" /\ UNCHANGED <<rows, forgotten>>
    BY <1>6 DEF WriteValue
  <2>2. CASE NotWritten(q) /\ UNCHANGED applied
    <3>1. ForcesNothing(q)
      BY <1>1, <2>1, <2>2, GotoEffect, DoneEffect
      DEF NotWritten, ForcesNothing, Approving, Applying, Unwritten
    <3> QED BY <3>1, ForcelessKeepsOutOfForce
  <2>3. ASSUME NEW w, w.row = i, applied' = applied \cup {w}, Goto(q, "invalidating")
        PROVE  OutOfForce' /\ NotYetWritten'
    <3>1. /\ \A p \in Requests \ {q} : req'[p] = req[p]
          /\ req'[q].at = "invalidating" /\ req'[q].row = i /\ req'[q].kind = req[q].kind
      BY <1>1, <2>3, GotoEffect
    <3>2. \A j \in DOMAIN rows : j = i => Approving(req[q])
      BY <1>1, <2>1 DEF InOrder, KindsInOrder, Approving, Applying
    <3>3. \A p \in Requests \ {q} : Approving(req[p]) => req[p].row # i
      <4>1. \A p \in Requests : Approving(req[p]) => req[p].row \in DOMAIN rows
        BY DEF IInv, RequestsInOrder, InOrder, Approving
      <4> QED BY <3>2, <4>1 DEF IInv, OneApplier
    <3>4. OutOfForce'
      BY <2>1, <2>3, <3>1, <3>2 DEF OutOfForce, AppliesRow, Approving, Applying
    <3>5. NotYetWritten'
      BY <2>1, <2>3, <3>1, <3>3 DEF NotYetWritten, Approving
    <3> QED BY <3>4, <3>5
  <2> QED BY <1>6, <2>2, <2>3 DEF WriteValue
<1> QED BY <1>2, <1>3, <1>4, <1>5, <1>6

LEMMA LapseKeeps ==
  ASSUME IInv, NEW i \in DOMAIN rows, Lapse(i)
  PROVE  /\ UNCHANGED <<req, applied, forgotten>> /\ DOMAIN rows' = DOMAIN rows
         /\ \A j \in DOMAIN rows : rows'[j].status = rows[j].status
<1>1. rows \in Seq(Row) /\ \A j \in DOMAIN rows : rows[j] \in Row
  BY DEF IInv, TypeOK
<1> QED BY <1>1 DEF Lapse, notes, Row

LEMMA OutOfForceInit == Init => OutOfForce /\ NotYetWritten
BY DEF Init, OutOfForce, NotYetWritten

LEMMA OutOfForceNext ==
  ASSUME "lost" \notin Faults
  PROVE  IInv /\ OutOfForce /\ NotYetWritten /\ [Next]_vars => (OutOfForce /\ NotYetWritten)'
<1> SUFFICES ASSUME IInv, OutOfForce, NotYetWritten, [Next]_vars
             PROVE  OutOfForce' /\ NotYetWritten'
  OBVIOUS
<1>1. ASSUME NEW q \in Requests, Arrive(q) \/ Step(q) \/ Crash(q)
      PROVE  OutOfForce' /\ NotYetWritten'
  BY <1>1, ForcelessSteps, ForcelessKeepsOutOfForce, OutOfForceMoves DEF Step
<1>2. ASSUME NEW i \in DOMAIN rows, Lapse(i) PROVE OutOfForce' /\ NotYetWritten'
  BY <1>2, LapseKeeps DEF OutOfForce, NotYetWritten, AppliesRow, Approving
<1>3. CASE UNCHANGED <<rows, req, applied>>
  BY <1>3 DEF OutOfForce, NotYetWritten, AppliesRow, Approving
<1> QED BY <1>1, <1>2, <1>3 DEF Next, ExpireCache, notes, vars

\* A change request that is pending or rejected is not in force and nobody is about to put
\* it there, provided that a write that lands is answered: approveAndApply takes a write
\* without an answer for one that failed, and reopens a request that is in force.
THEOREM NothingUnapprovedInForce ==
  ASSUME "lost" \notin Faults PROVE Spec => []OutOfForce
<1>1. IInv /\ OutOfForce /\ NotYetWritten /\ [Next]_vars => (OutOfForce /\ NotYetWritten)'
  BY OutOfForceNext
<1> QED BY <1>1, OutOfForceInit, Inductive, PTL DEF Spec

-----------------------------------------------------------------------------
(* What is approved *)

LEMMA ForcelessKeepsApproved ==
  ASSUME ApprovedIsApplied, NEW q \in Requests, ForcesNothing(q) PROVE ApprovedIsApplied'
<1> SUFFICES ASSUME NEW i \in DOMAIN rows, rows[i].status = "approved"
             PROVE  \/ \E w \in applied : w.row = i
                    \/ \E p \in Requests : Approving(req'[p]) /\ req'[p].row = i
                    \/ i \in forgotten'
  BY DEF ForcesNothing, ApprovedIsApplied, AppliesRow, Approving
<1>1. ASSUME NEW p \in Requests, AppliesRow(p, i)
      PROVE  \/ \E w \in applied : w.row = i
             \/ Approving(req'[p]) /\ req'[p].row = i
             \/ i \in forgotten'
  BY <1>1 DEF ForcesNothing, AppliesRow
<1> QED BY <1>1 DEF ForcesNothing, ApprovedIsApplied

LEMMA ApprovedMoves ==
  ASSUME IInv, ApprovedIsApplied, NEW q \in Requests,
         MarkExpired(q) \/ SettleRow(q) \/ Reopen(q) \/ InsertRow(q) \/ WriteValue(q)
  PROVE  ApprovedIsApplied'
<1>1. /\ TypeOK /\ req[q] \in Request /\ InOrder(req[q])
      /\ rows \in Seq(Row) /\ \A j \in DOMAIN rows : rows[j] \in Row
  BY DEF IInv, TypeOK, RequestsInOrder
<1> DEFINE i == req[q].row
<1>2. ASSUME ~Approving(req[q]), \A p \in Requests \ {q} : req'[p] = req[p],
             applied' = applied, forgotten \subseteq forgotten',
             \A j \in DOMAIN rows' : rows'[j].status = "approved" =>
               \/ j \in DOMAIN rows /\ rows[j].status = "approved"
               \/ Approving(req'[q]) /\ req'[q].row = j
               \/ j \in forgotten'
      PROVE  ApprovedIsApplied'
  BY <1>2 DEF ApprovedIsApplied, AppliesRow, Approving
<1>3. CASE MarkExpired(q)
  <2>1. /\ \A p \in Requests \ {q} : req'[p] = req[p]
        /\ ~Approving(req[q]) /\ UNCHANGED <<applied, forgotten>>
    BY <1>1, <1>3, DoneEffect DEF MarkExpired, notes, Approving, Applying
  <2>2. /\ DOMAIN rows' = DOMAIN rows
        /\ \A j \in DOMAIN rows : rows'[j].status \in {rows[j].status, "expired"}
    BY <1>1, <1>3 DEF MarkExpired, Row
  <2> QED BY <1>2, <2>1, <2>2
<1>4. CASE SettleRow(q)
  <2>1. /\ i \in DOMAIN rows /\ applied' = applied /\ req[q].at = "settling"
        /\ ~Approving(req[q])
    BY <1>1, <1>4 DEF SettleRow, InOrder, KindsInOrder, Approving, Applying
  <2>2. CASE Done(q) /\ UNCHANGED <<rows, forgotten>>
    BY <1>1, <1>2, <2>1, <2>2, DoneEffect
  <2>3. ASSUME rows' = [rows EXCEPT ![i].status = Verdict(q), ![i].reviewer = req[q].by],
               \/ /\ IF req[q].kind = "approve" THEN Goto(q, "entry") ELSE Done(q)
                  /\ UNCHANGED forgotten
               \/ Done(q) /\ forgotten' = forgotten \cup {i}
        PROVE  ApprovedIsApplied'
    <3>1. /\ DOMAIN rows' = DOMAIN rows /\ rows'[i].status = Verdict(q)
          /\ \A j \in DOMAIN rows \ {i} : rows'[j] = rows[j]
      BY <1>1, <2>1, <2>3 DEF Row
    <3>2. \/ req[q].kind # "approve"
          \/ Approving(req'[q]) /\ req'[q].row = i
          \/ i \in forgotten'
      BY <1>1, <2>3, GotoEffect DEF Approving, Applying
    <3>3. \A p \in Requests \ {q} : req'[p] = req[p]
      BY <1>1, <2>3, GotoEffect, DoneEffect
    <3>4. forgotten \subseteq forgotten'
      BY <2>3
    <3>5. Verdict(q) = "approved" => req[q].kind = "approve"
      BY DEF Verdict
    <3> HIDE DEF i
    <3> QED BY <1>2, <2>1, <3>1, <3>2, <3>3, <3>4, <3>5
  <2> QED BY <1>4, <2>2, <2>3 DEF SettleRow
<1>5. CASE Reopen(q)
  <2>1. req[q].at = "reopening" /\ Done(q) /\ applied' = applied
    BY <1>5 DEF Reopen
  <2>2. i \in DOMAIN rows /\ \A p \in Requests \ {q} : req'[p] = req[p]
    BY <1>1, <2>1, DoneEffect DEF InOrder, KindsInOrder
  <2>3. /\ DOMAIN rows' = DOMAIN rows
        /\ \A j \in DOMAIN rows \ {i} : rows'[j] = rows[j]
        /\ i \in forgotten' \/ rows'[i].status # "approved"
        /\ forgotten \subseteq forgotten'
    BY <1>1, <1>5, <2>2 DEF Reopen, ReopenRow, Row
  <2>4. \A j \in DOMAIN rows \ {i} : ~AppliesRow(q, j)
    BY DEF AppliesRow
  <2> HIDE DEF i
  <2> QED BY <2>1, <2>2, <2>3, <2>4 DEF ApprovedIsApplied, AppliesRow, Approving
<1>6. CASE InsertRow(q)
  <2>1. /\ req[q].at = "inserting" /\ Done(q) /\ UNCHANGED <<applied, forgotten>>
    BY <1>6 DEF InsertRow, notes
  <2>2. ~Approving(req[q]) /\ \A p \in Requests \ {q} : req'[p] = req[p]
    BY <1>1, <2>1, DoneEffect DEF Approving, Applying
  <2>3. \A j \in DOMAIN rows' :
          \/ j \in DOMAIN rows /\ rows'[j] = rows[j]
          \/ rows'[j].status = "pending"
    <3>1. ASSUME NEW new, rows' = Append(rows, new), new.status = "pending"
          PROVE  \A j \in DOMAIN rows' :
                   \/ j \in DOMAIN rows /\ rows'[j] = rows[j]
                   \/ rows'[j].status = "pending"
      BY <1>1, <3>1
    <3> QED BY <1>6, <3>1 DEF InsertRow
  <2> QED BY <1>2, <2>1, <2>2, <2>3
<1>7. CASE WriteValue(q)
  <2>1. req[q].at = "writing" /\ UNCHANGED <<rows, forgotten>>
    BY <1>7 DEF WriteValue
  <2>2. CASE NotWritten(q) /\ UNCHANGED applied
    <3>1. ForcesNothing(q)
      BY <1>1, <2>1, <2>2, GotoEffect, DoneEffect
      DEF NotWritten, ForcesNothing, Approving, Applying, Unwritten
    <3> QED BY <3>1, ForcelessKeepsApproved
  <2>3. ASSUME NEW w, w.row = i, applied' = applied \cup {w}, Goto(q, "invalidating") \/ NotWritten(q)
        PROVE  ApprovedIsApplied'
    <3>1. \A p \in Requests \ {q} : req'[p] = req[p]
      BY <1>1, <2>3, GotoEffect, DoneEffect DEF NotWritten
    <3>2. \A j \in DOMAIN rows : j # i => ~AppliesRow(q, j)
      BY DEF AppliesRow
    <3> HIDE DEF i
    <3> QED BY <2>1, <2>3, <3>1, <3>2 DEF ApprovedIsApplied, AppliesRow, Approving
  <2> QED BY <1>7, <2>2, <2>3 DEF WriteValue
<1> QED BY <1>3, <1>4, <1>5, <1>6, <1>7

LEMMA ApprovedInit == Init => ApprovedIsApplied
BY DEF Init, ApprovedIsApplied

LEMMA ApprovedNext == IInv /\ ApprovedIsApplied /\ [Next]_vars => ApprovedIsApplied'
<1> SUFFICES ASSUME IInv, ApprovedIsApplied, [Next]_vars PROVE ApprovedIsApplied'
  OBVIOUS
<1>1. ASSUME NEW q \in Requests, Arrive(q) \/ Step(q) \/ Crash(q) PROVE ApprovedIsApplied'
  BY <1>1, ForcelessSteps, ForcelessKeepsApproved, ApprovedMoves DEF Step
<1>2. ASSUME NEW i \in DOMAIN rows, Lapse(i) PROVE ApprovedIsApplied'
  BY <1>2, LapseKeeps DEF ApprovedIsApplied, AppliesRow, Approving
<1>3. CASE UNCHANGED <<rows, req, applied, forgotten>>
  BY <1>3 DEF ApprovedIsApplied, AppliesRow, Approving
<1> QED BY <1>1, <1>2, <1>3 DEF Next, ExpireCache, notes, vars

\* A change request that is approved is in force, or its approver is at work on it, or has
\* died or failed at reopening it (approveAndApply).
THEOREM ApprovedNotForgotten == Spec => []ApprovedIsApplied
<1>1. IInv /\ ApprovedIsApplied /\ [Next]_vars => ApprovedIsApplied'
  BY ApprovedNext
<1> QED BY <1>1, ApprovedInit, Inductive, PTL DEF Spec

-----------------------------------------------------------------------------
(* Roles, permissions and their cache.  v1: now, v2: user, v3: roles,      *)
(* v4: group, v5: cache, v6: req, v7: gone, v8: calls.                     *)

\* Only the access steps change its variables.
LEMMA AccessAlone ==
  ASSUME running = "access"
  PROVE  /\ ServicesInit => Access!Init
         /\ [ServicesNext]_<<running, vars, slots>> =>
              running' = running /\ [Access!Next]_(Access!vars)
  BY DEF ServicesInit, ServicesNext, In, slots, Access!vars

\* The bounds are natural numbers.
LEMMA AccessBounds ==
  ForAccess.MaxTime \in Nat \ {0} /\ ForAccess.TTL \in Nat /\ ForAccess.MaxCalls \in Nat
  BY ServicesAssumption DEF Access!AccessAssumption

\* The constants of AdminAccess.
LEMMA AccessConstantsFit ==
  /\ None \notin ForAccess.Roles
  /\ ForAccess.Protected \subseteq ForAccess.Roles
  /\ ForAccess.Free \in ForAccess.Roles \ ForAccess.Protected
  /\ ForAccess.Inherits \in [ForAccess.Roles -> SUBSET ForAccess.Roles]
  /\ ForAccess.GroupPerms \in [ForAccess.Groups -> SUBSET ForAccess.Perms]
  /\ ForAccess.RoleOf \in [ForAccess.Users -> ForAccess.Roles \cup {None}]
  /\ ForAccess.PermsOf \in [ForAccess.Roles -> SUBSET ForAccess.Perms]
  /\ ForAccess.Holders \in [ForAccess.Groups -> SUBSET ForAccess.Users]
  /\ ForAccess.Absent \subseteq ForAccess.Roles
  /\ \A r \in ForAccess.Absent :
       ForAccess.PermsOf[r] = {} /\ \A u \in ForAccess.Users : ForAccess.RoleOf[u] # r
  /\ \A ask \in ForAccess.Asks : ask[1] \in ForAccess.Users /\ ask[2] \in Access!AllOps
  BY ServicesAssumption DEF Access!AccessAssumption

\* The records of AdminAccess.
AccessUser == [role : ForAccess.Roles \cup {None}, good : BOOLEAN]
AccessRole == [is : {"new", "there", "deleted"}, perms : SUBSET ForAccess.Perms]
AccessGroup == [active : BOOLEAN, holders : SUBSET ForAccess.Users]
AccessEntry == [perms : SUBSET ForAccess.Perms, until : 0..(ForAccess.MaxTime + ForAccess.TTL)]
AccessReq ==
  [pc : Access!PC, actor : ForAccess.Users \cup {None}, server : ForAccess.Servers \cup {None},
   op : Access!AllOps \cup {None}, start : 0..ForAccess.MaxTime, role : ForAccess.Roles \cup {None},
   perms : SUBSET ForAccess.Perms, held : SUBSET ForAccess.Groups,
   target : ForAccess.Roles \cup {None}, touched : SUBSET ForAccess.Perms, good : BOOLEAN]
AccessNote == [what : Access!Facts, at : 1..ForAccess.MaxTime]

\* What the invariant says of the tables.
AccessTables ==
  /\ v1 \in 1..ForAccess.MaxTime /\ v8 \in 0..ForAccess.MaxCalls
  /\ v2 \in [ForAccess.Users -> AccessUser] /\ v3 \in [ForAccess.Roles -> AccessRole]
  /\ v4 \in [ForAccess.Groups -> AccessGroup] /\ v7 \subseteq AccessNote
  /\ Access!OnlyRolesThatExist
  /\ \A u \in ForAccess.Users, r \in ForAccess.Roles : r = v2[u].role => Access!Usable(r)
  /\ Access!Clean(ForAccess.Free)
  /\ \A r \in ForAccess.Roles \ ForAccess.Protected : \A i \in ForAccess.Inherits[r] : Access!Clean(i)
  /\ \A u \in ForAccess.Users : v2[u].role = None => v2[u].good

\* What it says of a cache entry.
AccessCached(e, u) ==
  /\ e.until <= v1 + ForAccess.TTL
  /\ e.perms \subseteq Access!Authority
  /\ \A p \in e.perms : Access!FoundedSince(u, p, e.until - ForAccess.TTL)

AccessCaches ==
  /\ v5 \in [ForAccess.Servers -> [ForAccess.Users -> AccessEntry]]
  /\ \A s \in ForAccess.Servers, u \in ForAccess.Users, e \in AccessEntry :
       e = v5[s][u] => AccessCached(e, u)

\* What it says of a request: what it is about, the roles it relies on, the standing of
\* its actor, and what it has found.
AccessPlaced(r) ==
  r.pc # "idle" =>
    /\ r.actor \in ForAccess.Users /\ r.server \in ForAccess.Servers /\ r.op \in Access!AllOps
    /\ r.op.kind \in Access!KindsAt(r.pc)
    /\ (r.pc \in {"direct", "inherited"} => r.role \in ForAccess.Roles)
    /\ (r.pc \in {"new", "current"} /\ r.op.kind = "assign" => r.target \in ForAccess.Roles)
AccessClean(r) ==
  /\ (r.pc \in {"direct", "inherited"} => Access!Usable(r.role))
  /\ (r.pc \in {"count", "audit", "write", "source", "second"} =>
        r.touched \subseteq Access!Authority)
  /\ (r.pc \in {"audit", "write"} /\ r.op.kind \in {"add", "remove"} =>
        r.op.perm \in Access!Authority)
  /\ (r.pc \in {"audit", "write", "source"} /\ r.op.kind = "duplicate" => Access!Clean(r.op.role))
  /\ (r.pc = "current" => v3[r.op.role].perms \subseteq r.touched \cup Access!Authority)
  /\ (r.pc \in {"audit", "write"} /\ r.op.kind = "assign" => Access!Clean(r.op.role))
  /\ (r.pc \in {"current", "audit", "write"} /\ r.op.kind = "assign" =>
        r.op.role \notin ForAccess.Protected)
AccessGood(r) ==
  /\ (r.pc # "idle" /\ v2[r.actor].good => r.good)
  /\ (r.pc \in {"target", "new", "current", "source", "count", "audit", "write", "second"}
        /\ r.op.kind \notin {"grant", "revoke"} => r.good)
AccessFound(r) ==
  r.pc \in {"user", "direct", "inherited", "grants", "groups"} =>
    /\ r.start \in 1..v1
    /\ \A p \in r.perms : Access!FoundedSince(r.actor, p, r.start)
    /\ (r.pc \in {"direct", "inherited"} => Access!RoleSince(r.actor, r.role, r.start))
    /\ (r.pc = "groups" => \A g \in r.held : Access!HeldSince(r.actor, g, r.start))
AccessKept(r) ==
  /\ r.perms \subseteq Access!Authority
  /\ AccessPlaced(r) /\ AccessClean(r) /\ AccessGood(r) /\ AccessFound(r)

AccessRequests ==
  /\ v6 \in [Calls -> AccessReq]
  /\ \A q \in Calls, r \in AccessReq : r = v6[q] => AccessKept(r)

\* The invariant, by tables, caches and requests.
LEMMA AccessParts ==
  /\ Access!IInv <=> AccessTables /\ AccessCaches /\ AccessRequests
  /\ Access!IInv' <=> AccessTables' /\ AccessCaches' /\ AccessRequests'
<1>1. Access!IInv <=> AccessTables /\ AccessCaches /\ AccessRequests
  <2>1. ASSUME Access!IInv PROVE AccessTables
    <3>1. ASSUME NEW u \in ForAccess.Users, NEW r \in ForAccess.Roles, r = v2[u].role
          PROVE  Access!Usable(r)
      BY <2>1, <3>1, AccessConstantsFit DEF Access!IInv, Access!RolesAreClean
    <3> QED BY <2>1, <3>1 DEF Access!IInv, Access!TypeOK, Access!RolesAreClean, Access!StandingIsKept,
                AccessTables, AccessUser, AccessRole, AccessGroup, AccessNote
  <2>2. ASSUME Access!IInv PROVE AccessCaches
    <3>1. ASSUME NEW s \in ForAccess.Servers, NEW u \in ForAccess.Users
          PROVE  AccessCached(v5[s][u], u)
      BY <2>2, <3>1 DEF Access!IInv, Access!FoundSinceStart, AccessCached
    <3> QED BY <2>2, <3>1 DEF Access!IInv, Access!TypeOK, AccessCaches, AccessEntry
  <2>3. ASSUME Access!IInv PROVE AccessRequests
    <3>1. v6 \in [Calls -> AccessReq]
      BY <2>3 DEF Access!IInv, Access!TypeOK, AccessReq
    <3>2. ASSUME NEW q \in Calls PROVE AccessPlaced(v6[q])
      BY <2>3, <3>2 DEF Access!IInv, Access!TypeOK, AccessPlaced
    <3>3. ASSUME NEW q \in Calls PROVE AccessClean(v6[q])
      BY <2>3, <3>3 DEF Access!IInv, Access!RolesAreClean, AccessClean
    <3>4. ASSUME NEW q \in Calls PROVE AccessGood(v6[q])
      BY <2>3, <3>4 DEF Access!IInv, Access!StandingIsKept, AccessGood
    <3>5. ASSUME NEW q \in Calls PROVE AccessFound(v6[q])
      BY <2>3, <3>5 DEF Access!IInv, Access!FoundSinceStart, AccessFound
    <3>6. \A q \in Calls : AccessKept(v6[q])
      BY <2>3, <3>2, <3>3, <3>4, <3>5 DEF AccessKept, Access!IInv
    <3> QED BY <3>1, <3>6 DEF AccessRequests
  <2>4. ASSUME AccessTables, AccessCaches, AccessRequests PROVE Access!IInv
    <3>1. \A u \in ForAccess.Users : v2[u].role # None =>
            v2[u].role \in ForAccess.Roles /\ Access!Usable(v2[u].role)
      BY <2>4 DEF AccessTables, AccessUser
    <3>2. ASSUME NEW s \in ForAccess.Servers, NEW u \in ForAccess.Users
          PROVE  v5[s][u] \in AccessEntry /\ AccessCached(v5[s][u], u)
      BY <2>4, <3>2 DEF AccessCaches
    <3>3. ASSUME NEW q \in Calls
          PROVE  /\ AccessPlaced(v6[q]) /\ AccessClean(v6[q]) /\ AccessGood(v6[q]) /\ AccessFound(v6[q])
                 /\ v6[q].perms \subseteq Access!Authority
      BY <2>4, <3>3 DEF AccessRequests, AccessKept
    <3>4. Access!TypeOK
      BY <2>4, <3>3 DEF AccessTables, AccessCaches, AccessRequests, Access!TypeOK, AccessUser,
                        AccessRole, AccessGroup, AccessEntry, AccessReq, AccessNote, AccessPlaced
    <3>5. Access!RolesAreClean
      BY <2>4, <3>3, <3>1 DEF AccessTables, Access!RolesAreClean, AccessClean
    <3>6. Access!StandingIsKept
      BY <2>4, <3>3 DEF AccessTables, Access!StandingIsKept, AccessGood
    <3>7. Access!FoundSinceStart
      BY <3>3, <3>2 DEF AccessCached, Access!FoundSinceStart, AccessFound
    <3> QED BY <2>4, <3>3, <3>4, <3>5, <3>6, <3>7, <3>2 DEF AccessTables, AccessCached, Access!IInv
  <2> QED BY <2>1, <2>2, <2>3, <2>4
<1> QED BY <1>1, PTL

\* Whoever could do something at the start could do it by a permission of the authority.
LEMMA AuthorityBounds ==
  /\ \A u \in ForAccess.Users : ForAccess.RoleOf[u] # None =>
       /\ ForAccess.PermsOf[ForAccess.RoleOf[u]] \subseteq Access!Authority
       /\ \A i \in ForAccess.Inherits[ForAccess.RoleOf[u]] :
            ForAccess.PermsOf[i] \subseteq Access!Authority
  /\ ForAccess.PermsOf[ForAccess.Free] \subseteq Access!Authority
  /\ \A r \in ForAccess.Roles \ ForAccess.Protected : \A i \in ForAccess.Inherits[r] :
       ForAccess.PermsOf[i] \subseteq Access!Authority
  /\ \A g \in ForAccess.Groups : ForAccess.GroupPerms[g] \subseteq Access!Authority
<1>1. ASSUME NEW r, NEW i \in ForAccess.Inherits[r]
      PROVE  ForAccess.PermsOf[i] \subseteq Access!Inherited(r)
  BY DEF Access!Inherited
<1> DEFINE ofUsers == {ForAccess.PermsOf[ForAccess.RoleOf[u]] \cup Access!Inherited(ForAccess.RoleOf[u])
                       : u \in {v \in ForAccess.Users : ForAccess.RoleOf[v] # None}}
           ofRoles == {Access!Inherited(r) : r \in ForAccess.Roles \ ForAccess.Protected}
           ofGroups == {ForAccess.GroupPerms[g] : g \in ForAccess.Groups}
<1>2. /\ UNION ofUsers \subseteq Access!Authority /\ UNION ofRoles \subseteq Access!Authority
      /\ UNION ofGroups \subseteq Access!Authority
      /\ ForAccess.PermsOf[ForAccess.Free] \subseteq Access!Authority
  <2> DEFINE a == UNION ofUsers
             b == UNION ofRoles
             c == UNION ofGroups
             d == ForAccess.PermsOf[ForAccess.Free]
  <2>1. Access!Authority = ((a \cup d) \cup b) \cup c
    BY DEF Access!Authority
  <2> HIDE DEF a, b, c, d
  <2>2. a \subseteq Access!Authority /\ b \subseteq Access!Authority /\ c \subseteq Access!Authority
        /\ d \subseteq Access!Authority
    BY <2>1
  <2> HIDE DEF ofUsers, ofRoles, ofGroups
  <2> QED BY <2>2 DEF a, b, c, d
<1>3. ASSUME NEW u \in ForAccess.Users, ForAccess.RoleOf[u] # None
      PROVE  ForAccess.PermsOf[ForAccess.RoleOf[u]] \cup Access!Inherited(ForAccess.RoleOf[u]) \in ofUsers
  BY <1>3
<1>4. \A r \in ForAccess.Roles \ ForAccess.Protected : Access!Inherited(r) \in ofRoles
  OBVIOUS
<1>5. \A g \in ForAccess.Groups : ForAccess.GroupPerms[g] \in ofGroups
  OBVIOUS
<1> HIDE DEF ofUsers, ofRoles, ofGroups
<1>6. \A r : \A i \in ForAccess.Inherits[r] : \A p \in ForAccess.PermsOf[i] : p \in Access!Inherited(r)
  BY <1>1
<1>7. ASSUME NEW u \in ForAccess.Users, ForAccess.RoleOf[u] # None
      PROVE  /\ ForAccess.PermsOf[ForAccess.RoleOf[u]] \subseteq Access!Authority
             /\ Access!Inherited(ForAccess.RoleOf[u]) \subseteq Access!Authority
  BY <1>2, <1>3, <1>7
<1>8. \A r \in ForAccess.Roles \ ForAccess.Protected : Access!Inherited(r) \subseteq Access!Authority
  BY <1>4, <1>2
<1>9. \A g \in ForAccess.Groups : ForAccess.GroupPerms[g] \subseteq Access!Authority
  BY <1>5, <1>2
<1> QED BY <1>2, <1>6, <1>7, <1>8, <1>9

\* A request at nothing.
LEMMA BlankKept == Access!Blank \in AccessReq /\ AccessKept(Access!Blank) /\ AccessKept(Access!Blank)'
<1>1. Access!Blank \in AccessReq
  BY AccessBounds DEF Access!Blank, AccessReq, Access!PC
<1>2. Access!Blank.pc = "idle" /\ Access!Blank.perms = {}
  BY DEF Access!Blank
<1> QED BY <1>1, <1>2 DEF AccessKept, AccessPlaced, AccessClean, AccessGood, AccessFound

\* And a cache without an entry.
LEMMA NoEntryCached ==
  ASSUME NEW u, v1 \in Nat
  PROVE  Access!NoEntry \in AccessEntry /\ AccessCached(Access!NoEntry, u)
         /\ Access!NoEntry.perms = {} /\ Access!NoEntry.until = 0
  BY AccessBounds DEF Access!NoEntry, AccessEntry, AccessCached

\* The invariant holds at the start.
LEMMA AccessFirst == Access!Init => Access!IInv
<1> SUFFICES ASSUME Access!Init PROVE Access!IInv
  OBVIOUS
<1>1. /\ v2 = [u \in ForAccess.Users |-> [role |-> ForAccess.RoleOf[u], good |-> TRUE]]
      /\ v3 = [r \in ForAccess.Roles |-> [is |-> IF r \in ForAccess.Absent THEN "new" ELSE "there",
                                          perms |-> ForAccess.PermsOf[r]]]
      /\ v4 = [g \in ForAccess.Groups |-> [active |-> TRUE, holders |-> ForAccess.Holders[g]]]
      /\ v5 \in [ForAccess.Servers -> [ForAccess.Users -> {Access!NoEntry}]]
      /\ v6 = [q \in Calls |-> Access!Blank]
      /\ v1 = 1 /\ v7 = {} /\ v8 = 0
  BY DEF Access!Init
<1>2. AccessTables
  <2>1. v2 \in [ForAccess.Users -> AccessUser] /\ v3 \in [ForAccess.Roles -> AccessRole]
        /\ v4 \in [ForAccess.Groups -> AccessGroup] /\ v7 \subseteq AccessNote
    BY <1>1, AccessConstantsFit DEF AccessUser, AccessRole, AccessGroup
  <2>2. v1 \in 1..ForAccess.MaxTime /\ v8 \in 0..ForAccess.MaxCalls
    BY <1>1, AccessBounds
  <2>3. Access!OnlyRolesThatExist
    BY <1>1, AccessConstantsFit DEF Access!OnlyRolesThatExist
  <2>4. \A r \in ForAccess.Roles : Access!Clean(r) <=> ForAccess.PermsOf[r] \subseteq Access!Authority
    BY <1>1 DEF Access!Clean
  <2>5. ASSUME NEW u \in ForAccess.Users, v2[u].role # None PROVE Access!Usable(v2[u].role)
    <3>1. v2[u].role = ForAccess.RoleOf[u] /\ ForAccess.RoleOf[u] \in ForAccess.Roles
      BY <1>1, <2>5, AccessConstantsFit
    <3>2. ForAccess.Inherits[ForAccess.RoleOf[u]] \subseteq ForAccess.Roles
      BY <3>1, AccessConstantsFit
    <3> QED BY <2>4, <2>5, <3>1, <3>2, AuthorityBounds DEF Access!Usable
  <2>6. /\ Access!Clean(ForAccess.Free)
        /\ \A r \in ForAccess.Roles \ ForAccess.Protected : \A i \in ForAccess.Inherits[r] : Access!Clean(i)
    <3>1. \A r \in ForAccess.Roles : ForAccess.Inherits[r] \subseteq ForAccess.Roles
      BY AccessConstantsFit
    <3> QED BY <2>4, <3>1, AuthorityBounds, AccessConstantsFit
  <2>7. /\ \A u \in ForAccess.Users, r \in ForAccess.Roles : r = v2[u].role => Access!Usable(r)
        /\ \A u \in ForAccess.Users : v2[u].role = None => v2[u].good
    <3>1. \A u \in ForAccess.Users, r \in ForAccess.Roles : r = v2[u].role => Access!Usable(r)
      <4> SUFFICES ASSUME NEW u \in ForAccess.Users, NEW r \in ForAccess.Roles, r = v2[u].role
                   PROVE  Access!Usable(v2[u].role)
        BY Zenon
      <4>1. r # None
        BY AccessConstantsFit
      <4> QED BY <2>5, <4>1
    <3>2. \A u \in ForAccess.Users : v2[u].good
      BY <1>1
    <3> QED BY <3>1, <3>2
  <2> QED BY <2>1, <2>2, <2>3, <2>6, <2>7 DEF AccessTables
<1>3. AccessCaches
  <2>1. v1 \in Nat
    BY <1>1
  <2>2. ASSUME NEW s \in ForAccess.Servers, NEW u \in ForAccess.Users
        PROVE  v5[s][u] = Access!NoEntry
    BY <1>1
  <2>3. \A u : Access!NoEntry \in AccessEntry /\ AccessCached(Access!NoEntry, u)
    BY <2>1, NoEntryCached
  <2>4. v5 \in [ForAccess.Servers -> [ForAccess.Users -> AccessEntry]]
    <3>1. {Access!NoEntry} \subseteq AccessEntry
      BY <2>3
    <3>2. [ForAccess.Users -> {Access!NoEntry}] \subseteq [ForAccess.Users -> AccessEntry]
      BY <3>1
    <3> QED BY <1>1, <3>2
  <2> QED BY <2>2, <2>3, <2>4 DEF AccessCaches
<1>4. AccessRequests
  BY <1>1, BlankKept DEF AccessRequests
<1> QED BY <1>2, <1>3, <1>4, AccessParts

-----------------------------------------------------------------------------
(* Facts *)

\* What a fact says of the tables.
LEMMA TrueFacts ==
  /\ \A u, r : Access!True([fact |-> "role", user |-> u, role |-> r]) <=> v2[u].role = r
  /\ \A r, p : Access!True([fact |-> "permission", role |-> r, perm |-> p]) <=> p \in v3[r].perms
  /\ \A g, u : Access!True([fact |-> "holder", group |-> g, user |-> u]) <=> u \in v4[g].holders
  /\ \A g : Access!True([fact |-> "active", group |-> g]) <=> v4[g].active
<1>1. ASSUME NEW u, NEW r
      PROVE  Access!True([fact |-> "role", user |-> u, role |-> r]) <=> v2[u].role = r
  BY DEF Access!True
<1>2. ASSUME NEW r, NEW p
      PROVE  Access!True([fact |-> "permission", role |-> r, perm |-> p]) <=> p \in v3[r].perms
  BY DEF Access!True
<1>3. ASSUME NEW g, NEW u
      PROVE  Access!True([fact |-> "holder", group |-> g, user |-> u]) <=> u \in v4[g].holders
  BY DEF Access!True
<1>4. ASSUME NEW g PROVE Access!True([fact |-> "active", group |-> g]) <=> v4[g].active
  BY DEF Access!True
<1> QED BY <1>1, <1>2, <1>3, <1>4

\* And the same of the next state.
LEMMA TrueFactsNext ==
  /\ \A u, r : Access!True([fact |-> "role", user |-> u, role |-> r])' <=> v2'[u].role = r
  /\ \A r, p : Access!True([fact |-> "permission", role |-> r, perm |-> p])' <=> p \in v3'[r].perms
  /\ \A g, u : Access!True([fact |-> "holder", group |-> g, user |-> u])' <=> u \in v4'[g].holders
  /\ \A g : Access!True([fact |-> "active", group |-> g])' <=> v4'[g].active
<1>1. ASSUME NEW u, NEW r
      PROVE  Access!True([fact |-> "role", user |-> u, role |-> r])' <=> v2'[u].role = r
  BY DEF Access!True
<1>2. ASSUME NEW r, NEW p
      PROVE  Access!True([fact |-> "permission", role |-> r, perm |-> p])' <=> p \in v3'[r].perms
  BY DEF Access!True
<1>3. ASSUME NEW g, NEW u
      PROVE  Access!True([fact |-> "holder", group |-> g, user |-> u])' <=> u \in v4'[g].holders
  BY DEF Access!True
<1>4. ASSUME NEW g PROVE Access!True([fact |-> "active", group |-> g])' <=> v4'[g].active
  BY DEF Access!True
<1> QED BY <1>1, <1>2, <1>3, <1>4

\* The facts of the tables.
LEMMA FactForms ==
  /\ \A u \in ForAccess.Users, r \in ForAccess.Roles :
       [fact |-> "role", user |-> u, role |-> r] \in Access!Facts
  /\ \A r \in ForAccess.Roles, p \in ForAccess.Perms :
       [fact |-> "permission", role |-> r, perm |-> p] \in Access!Facts
  /\ \A g \in ForAccess.Groups, u \in ForAccess.Users :
       [fact |-> "holder", group |-> g, user |-> u] \in Access!Facts
  /\ \A g \in ForAccess.Groups : [fact |-> "active", group |-> g] \in Access!Facts
  BY DEF Access!Facts

\* A fact that a step ends is among those it loses.
LEMMA LostFacts ==
  ASSUME NEW f \in Access!Facts, Access!True(f), ~Access!True(f)'
  PROVE  f \in Access!Lost
<1>1. ASSUME NEW u \in ForAccess.Users, NEW r \in ForAccess.Roles,
             f = [fact |-> "role", user |-> u, role |-> r]
      PROVE  f \in Access!Lost
  <2>1. v2[u].role = r /\ v2'[u].role # r /\ r # None
    BY <1>1, TrueFacts, TrueFactsNext, AccessConstantsFit
  <2>2. f \in {[fact |-> "role", user |-> w, role |-> v2[w].role] :
                 w \in {v \in ForAccess.Users : v2[v].role \notin {None, v2'[v].role}}}
    BY <1>1, <2>1
  <2> QED BY <2>2 DEF Access!Lost
<1>2. ASSUME NEW r \in ForAccess.Roles, NEW p \in ForAccess.Perms,
             f = [fact |-> "permission", role |-> r, perm |-> p]
      PROVE  f \in Access!Lost
  <2>1. p \in v3[r].perms \ v3'[r].perms
    BY <1>2, TrueFacts, TrueFactsNext
  <2> DEFINE ended(x) == {[fact |-> "permission", role |-> x, perm |-> y] :
                            y \in v3[x].perms \ v3'[x].perms}
  <2>2. f \in ended(r)
    BY <1>2, <2>1
  <2>3. f \in UNION {ended(x) : x \in ForAccess.Roles}
    <3> HIDE DEF ended
    <3> QED BY <2>2
  <2> QED BY <2>3 DEF Access!Lost
<1>3. ASSUME NEW g \in ForAccess.Groups, NEW u \in ForAccess.Users,
             f = [fact |-> "holder", group |-> g, user |-> u]
      PROVE  f \in Access!Lost
  <2>1. u \in v4[g].holders \ v4'[g].holders
    BY <1>3, TrueFacts, TrueFactsNext
  <2> DEFINE ended(x) == {[fact |-> "holder", group |-> x, user |-> y] :
                            y \in v4[x].holders \ v4'[x].holders}
  <2>2. f \in ended(g)
    BY <1>3, <2>1
  <2>3. f \in UNION {ended(x) : x \in ForAccess.Groups}
    <3> HIDE DEF ended
    <3> QED BY <2>2
  <2> QED BY <2>3 DEF Access!Lost
<1>4. ASSUME NEW g \in ForAccess.Groups, f = [fact |-> "active", group |-> g]
      PROVE  f \in Access!Lost
  <2>1. v4[g].active /\ ~v4'[g].active
    BY <1>4, TrueFacts, TrueFactsNext
  <2>2. f \in {[fact |-> "active", group |-> x] :
                 x \in {h \in ForAccess.Groups : v4[h].active /\ ~v4'[h].active}}
    BY <1>4, <2>1
  <2> QED BY <2>2 DEF Access!Lost
<1> QED BY <1>1, <1>2, <1>3, <1>4 DEF Access!Facts

\* What was so since t is so still, or was until now.
LEMMA SinceStays ==
  ASSUME v1 \in Nat, Access!Remember \/ UNCHANGED <<v2, v3, v4, v7>>
  PROVE  \A f \in Access!Facts, t \in Int :
           t <= v1 /\ Access!Since(f, t) => Access!Since(f, t)'
<1>1. CASE UNCHANGED <<v2, v3, v4, v7>>
  <2>1. ASSUME NEW f \in Access!Facts PROVE Access!True(f) <=> Access!True(f)'
    BY <1>1 DEF Access!True
  <2> QED BY <1>1, <2>1 DEF Access!Since
<1>2. CASE Access!Remember
  <2> SUFFICES ASSUME NEW f \in Access!Facts, NEW t \in Int, t <= v1, Access!Since(f, t),
                      ~Access!True(f)'
               PROVE  \E e \in v7' : e.what = f /\ e.at >= t
    BY DEF Access!Since
  <2>1. CASE f \in Access!Lost
    <3>1. [what |-> f, at |-> v1] \in v7'
      BY <1>2, <2>1 DEF Access!Remember
    <3> QED BY <3>1
  <2>2. CASE f \notin Access!Lost
    <3>1. ~Access!True(f)
      BY <2>2, LostFacts
    <3>2. PICK e \in v7 : e.what = f /\ e.at >= t
      BY <3>1 DEF Access!Since
    <3>3. e \in v7'
      BY <1>2, <2>2, <3>2 DEF Access!Remember
    <3> QED BY <3>2, <3>3
  <2> QED BY <2>1, <2>2
<1> QED BY <1>1, <1>2

\* Recording what a step loses keeps the type of the record.
LEMMA RememberTyped ==
  ASSUME AccessTables, Access!Remember
  PROVE  v7' \subseteq AccessNote
<1>1. \A u \in ForAccess.Users : v2[u].role \in ForAccess.Roles \cup {None}
  BY DEF AccessTables, AccessUser
<1>2. \A r \in ForAccess.Roles : v3[r].perms \subseteq ForAccess.Perms
  BY DEF AccessTables, AccessRole
<1>3. \A g \in ForAccess.Groups : v4[g].holders \subseteq ForAccess.Users
  BY DEF AccessTables, AccessGroup
<1>4. Access!Lost \subseteq Access!Facts
  <2> DEFINE permissions(r) == {[fact |-> "permission", role |-> r, perm |-> p] :
                                  p \in v3[r].perms \ v3'[r].perms}
             holders(g) == {[fact |-> "holder", group |-> g, user |-> u] :
                              u \in v4[g].holders \ v4'[g].holders}
             ended == {permissions(r) : r \in ForAccess.Roles}
             left == {holders(g) : g \in ForAccess.Groups}
  <2>1. \A r \in ForAccess.Roles : permissions(r) \subseteq Access!Facts
    BY <1>2, FactForms
  <2>2. \A g \in ForAccess.Groups : holders(g) \subseteq Access!Facts
    BY <1>3, FactForms
  <2>3. {[fact |-> "role", user |-> u, role |-> v2[u].role] :
           u \in {v \in ForAccess.Users : v2[v].role \notin {None, v2'[v].role}}} \subseteq Access!Facts
    BY <1>1, FactForms
  <2>4. {[fact |-> "active", group |-> g] :
           g \in {h \in ForAccess.Groups : v4[h].active /\ ~v4'[h].active}} \subseteq Access!Facts
    BY FactForms
  <2>5. UNION ended \subseteq Access!Facts
    <3> HIDE DEF permissions
    <3> QED BY <2>1
  <2>6. UNION left \subseteq Access!Facts
    <3> HIDE DEF holders
    <3> QED BY <2>2
  <2> QED BY <2>3, <2>4, <2>5, <2>6 DEF Access!Lost
<1>5. v1 \in 1..ForAccess.MaxTime
  BY DEF AccessTables
<1> QED BY <1>4, <1>5 DEF Access!Remember, AccessTables, AccessNote

\* The operations by their kind.
LEMMA OpForms ==
  ASSUME NEW op \in Access!AllOps
  PROVE  /\ op.kind \in {"use", "assign", "add", "remove", "create", "delete", "duplicate",
                         "toggle", "grant", "revoke", "first"}
         /\ op.kind \in {"assign", "add", "remove", "create", "delete", "duplicate"} =>
              op.role \in ForAccess.Roles
         /\ op.kind \in {"use", "add", "remove"} => op.perm \in ForAccess.Perms
         /\ op.kind = "create" => op.perms \subseteq ForAccess.Perms
         /\ op.kind = "duplicate" => op.new \in ForAccess.Roles
         /\ op.kind \in {"toggle", "grant", "revoke"} => op.group \in ForAccess.Groups
         /\ op.kind = "toggle" => op.on \in BOOLEAN
         /\ op.kind \in {"assign", "grant", "revoke"} => op.user \in ForAccess.Users
<1>1. CASE op \in [kind : {"use"}, perm : ForAccess.Perms]
  BY <1>1
<1>2. CASE op \in [kind : {"assign"}, user : ForAccess.Users, role : ForAccess.Roles]
  BY <1>2
<1>3. CASE op \in [kind : {"add", "remove"}, role : ForAccess.Roles, perm : ForAccess.Perms]
  BY <1>3
<1>4. CASE op \in [kind : {"create"}, role : ForAccess.Roles, perms : SUBSET ForAccess.Perms]
  BY <1>4
<1>5. CASE op \in [kind : {"delete"}, role : ForAccess.Roles]
  BY <1>5
<1>6. CASE op \in [kind : {"duplicate"}, role : ForAccess.Roles, new : ForAccess.Roles]
  BY <1>6
<1>7. CASE op \in [kind : {"toggle"}, group : ForAccess.Groups, on : BOOLEAN]
  BY <1>7
<1>8. CASE op \in [kind : {"grant", "revoke"}, group : ForAccess.Groups, user : ForAccess.Users]
  BY <1>8
<1>9. CASE op \in [kind : {"first"}]
  BY <1>9
<1> QED BY <1>1, <1>2, <1>3, <1>4, <1>5, <1>6, <1>7, <1>8, <1>9 DEF Access!AllOps

-----------------------------------------------------------------------------
(* What a step may do to what others rely on *)

\* No role gains but what is within the authority, nobody's standing improves, and no
\* fact is forgotten.
AccessMoves ==
  /\ v1 <= v1' /\ v1 \in 1..ForAccess.MaxTime /\ v1' \in 1..ForAccess.MaxTime
  /\ v2 \in [ForAccess.Users -> AccessUser] /\ v2' \in [ForAccess.Users -> AccessUser]
  /\ \A r \in ForAccess.Roles : v3'[r].perms \subseteq v3[r].perms \cup Access!Authority
  /\ \A u \in ForAccess.Users : v2'[u].good => v2[u].good
  /\ \A f \in Access!Facts, t \in Int :
       t <= v1 /\ Access!Since(f, t) => Access!Since(f, t)'

\* What was founded since t is so still.
LEMMA FoundedStays ==
  ASSUME AccessMoves
  PROVE  /\ \A u \in ForAccess.Users, r \in ForAccess.Roles, t \in Int :
              t <= v1 /\ Access!RoleSince(u, r, t) => Access!RoleSince(u, r, t)'
         /\ \A g \in ForAccess.Groups, u \in ForAccess.Users, t \in Int :
              t <= v1 /\ Access!HeldSince(u, g, t) => Access!HeldSince(u, g, t)'
         /\ \A u \in ForAccess.Users, p \in ForAccess.Perms, t \in Int :
              t <= v1 /\ Access!FoundedSince(u, p, t) => Access!FoundedSince(u, p, t)'
<1>1. \A u \in ForAccess.Users, r \in ForAccess.Roles, t \in Int :
        t <= v1 /\ Access!RoleSince(u, r, t) => Access!RoleSince(u, r, t)'
  BY FactForms DEF AccessMoves, Access!RoleSince
<1>2. \A g \in ForAccess.Groups, u \in ForAccess.Users, t \in Int :
        t <= v1 /\ Access!HeldSince(u, g, t) => Access!HeldSince(u, g, t)'
  BY FactForms DEF AccessMoves, Access!HeldSince
<1>3. \A r \in ForAccess.Roles, p \in ForAccess.Perms, t \in Int :
        t <= v1 /\ Access!PermSince(r, p, t) => Access!PermSince(r, p, t)'
  BY FactForms DEF AccessMoves, Access!PermSince
<1>4. \A g \in ForAccess.Groups, t \in Int :
        t <= v1 /\ Access!ActiveSince(g, t) => Access!ActiveSince(g, t)'
  BY FactForms DEF AccessMoves, Access!ActiveSince
<1>5. ASSUME NEW u \in ForAccess.Users, NEW p \in ForAccess.Perms, NEW t \in Int, t <= v1,
             Access!FoundedSince(u, p, t)
      PROVE  Access!FoundedSince(u, p, t)'
  <2>1. ASSUME NEW r \in ForAccess.Roles, Access!RoleSince(u, r, t),
               NEW i \in {r} \cup ForAccess.Inherits[r], Access!PermSince(i, p, t)
        PROVE  Access!FoundedSince(u, p, t)'
    <3>1. i \in ForAccess.Roles
      BY <2>1, AccessConstantsFit
    <3>2. Access!RoleSince(u, r, t)' /\ Access!PermSince(i, p, t)'
      BY <1>1, <1>3, <1>5, <2>1, <3>1
    <3> QED BY <2>1, <3>2 DEF Access!FoundedSince
  <2>2. ASSUME NEW g \in ForAccess.Groups, p \in ForAccess.GroupPerms[g],
               Access!HeldSince(u, g, t), Access!ActiveSince(g, t)
        PROVE  Access!FoundedSince(u, p, t)'
    <3>1. Access!HeldSince(u, g, t)' /\ Access!ActiveSince(g, t)'
      BY <1>2, <1>4, <1>5, <2>2
    <3> QED BY <2>2, <3>1 DEF Access!FoundedSince
  <2> QED BY <1>5, <2>1, <2>2 DEF Access!FoundedSince
<1> QED BY <1>1, <1>2, <1>5

\* What is clean stays so.
LEMMA CleanStays ==
  ASSUME AccessMoves
  PROVE  /\ \A r \in ForAccess.Roles : Access!Clean(r) => Access!Clean(r)'
         /\ \A r \in ForAccess.Roles : Access!Usable(r) => Access!Usable(r)'
<1>1. \A r \in ForAccess.Roles : Access!Clean(r) => Access!Clean(r)'
  BY DEF AccessMoves, Access!Clean
<1>2. \A r \in ForAccess.Roles : \A i \in {r} \cup ForAccess.Inherits[r] : i \in ForAccess.Roles
  BY AccessConstantsFit
<1> QED BY <1>1, <1>2 DEF Access!Usable

\* What is kept of a request is kept by every step of the others.
LEMMA KeptStays ==
  ASSUME AccessMoves, NEW r \in AccessReq, AccessKept(r)
  PROVE  AccessKept(r)'
<1>1. AccessPlaced(r)'
  BY DEF AccessKept, AccessPlaced
<1>2. r.pc # "idle" => r.op \in Access!AllOps /\ r.op.kind \in Access!KindsAt(r.pc)
  BY DEF AccessKept, AccessPlaced
<1>3. AccessClean(r)'
  <2>1. r.pc \in {"direct", "inherited"} => Access!Usable(r.role)'
    BY CleanStays DEF AccessKept, AccessPlaced, AccessClean
  <2>2. r.pc \in {"audit", "write", "source"} /\ r.op.kind = "duplicate" => Access!Clean(r.op.role)'
    BY <1>2, CleanStays, OpForms DEF AccessKept, AccessClean
  <2>3. r.pc \in {"audit", "write"} /\ r.op.kind = "assign" => Access!Clean(r.op.role)'
    BY <1>2, CleanStays, OpForms DEF AccessKept, AccessClean
  <2>4. r.pc = "current" => v3'[r.op.role].perms \subseteq r.touched \cup Access!Authority
    <3>1. r.pc = "current" => r.op.kind = "assign"
      BY <1>2 DEF Access!KindsAt
    <3>2. r.pc = "current" => r.op.role \in ForAccess.Roles
      BY <1>2, <3>1, OpForms
    <3> QED BY <3>2 DEF AccessKept, AccessClean, AccessMoves
  <2> QED BY <2>1, <2>2, <2>3, <2>4 DEF AccessKept, AccessClean
<1>4. AccessGood(r)'
  BY DEF AccessKept, AccessGood, AccessPlaced, AccessMoves
<1>5. AccessFound(r)'
  <2> SUFFICES ASSUME r.pc \in {"user", "direct", "inherited", "grants", "groups"}
               PROVE  AccessFound(r)'
    BY DEF AccessFound
  <2>1. r.start \in 1..v1 /\ r.start \in Int /\ r.start <= v1 /\ r.start \in 1..v1'
    BY DEF AccessKept, AccessFound, AccessMoves
  <2>2. r.actor \in ForAccess.Users /\ r.perms \subseteq ForAccess.Perms /\ r.held \subseteq ForAccess.Groups
    BY DEF AccessKept, AccessPlaced, AccessReq
  <2>3. r.pc \in {"direct", "inherited"} => r.role \in ForAccess.Roles
    BY DEF AccessKept, AccessPlaced
  <2>4. \A p \in r.perms : Access!FoundedSince(r.actor, p, r.start)'
    BY <2>1, <2>2, FoundedStays DEF AccessKept, AccessFound
  <2>5. r.pc \in {"direct", "inherited"} => Access!RoleSince(r.actor, r.role, r.start)'
    BY <2>1, <2>2, <2>3, FoundedStays DEF AccessKept, AccessFound
  <2>6. r.pc = "groups" => \A g \in r.held : Access!HeldSince(r.actor, g, r.start)'
    BY <2>1, <2>2, FoundedStays DEF AccessKept, AccessFound
  <2> QED BY <2>1, <2>4, <2>5, <2>6 DEF AccessFound
<1> QED BY <1>1, <1>3, <1>4, <1>5 DEF AccessKept

\* And of a cache entry.
LEMMA CachedStays ==
  ASSUME AccessMoves, NEW u \in ForAccess.Users, NEW e \in AccessEntry, AccessCached(e, u)
  PROVE  AccessCached(e, u)'
<1>1. /\ e.until <= v1 + ForAccess.TTL /\ e.until \in Int /\ v1 \in Int /\ v1' \in Int
      /\ v1 <= v1' /\ ForAccess.TTL \in Int /\ e.perms \subseteq ForAccess.Perms
  BY AccessBounds DEF AccessCached, AccessEntry, AccessMoves
<1>2. e.until - ForAccess.TTL \in Int /\ e.until - ForAccess.TTL <= v1 /\ e.until <= v1' + ForAccess.TTL
  BY <1>1
<1> QED BY <1>1, <1>2, FoundedStays DEF AccessCached

\* The tables as they are move nowhere, but the clock may.
LEMMA TablesRest ==
  ASSUME AccessTables, UNCHANGED <<v2, v3, v4, v7>>, v8' \in 0..ForAccess.MaxCalls,
         v1' \in 1..ForAccess.MaxTime, v1 <= v1'
  PROVE  AccessMoves /\ AccessTables'
<1>1. v1 \in Nat
  BY DEF AccessTables
<1>2. AccessMoves
  BY <1>1, SinceStays DEF AccessTables, AccessMoves
<1>3. /\ Access!OnlyRolesThatExist' <=> Access!OnlyRolesThatExist
      /\ \A r : Access!Clean(r)' <=> Access!Clean(r)
      /\ \A r : Access!Usable(r)' <=> Access!Usable(r)
  BY DEF Access!OnlyRolesThatExist, Access!Clean, Access!Usable
<1> QED BY <1>2, <1>3 DEF AccessTables

\* A step that keeps the tables and the caches, and moves one request.
LEMMA RequestGoes ==
  ASSUME AccessMoves, AccessRequests, NEW q \in Calls, NEW r \in AccessReq, AccessKept(r),
         v6' = [v6 EXCEPT ![q] = r]
  PROVE  AccessRequests'
<1>1. v6' \in [Calls -> AccessReq]
  BY DEF AccessRequests
<1>2. ASSUME NEW p \in Calls, NEW x \in AccessReq, x = v6'[p] PROVE AccessKept(x)'
  <2>1. p # q => x = v6[p]
    BY <1>2 DEF AccessRequests
  <2>2. p = q => x = r
    BY <1>2 DEF AccessRequests
  <2>3. AccessKept(x)
    BY <2>1, <2>2 DEF AccessRequests
  <2> QED BY <2>3, KeptStays
<1> QED BY <1>1, <1>2 DEF AccessRequests

-----------------------------------------------------------------------------
(* The steps of a request that read *)

\* A step that only moves one request.
LEMMA RequestOnly ==
  ASSUME Access!IInv, NEW q \in Calls, NEW r \in AccessReq, AccessKept(r),
         v6' = [v6 EXCEPT ![q] = r], UNCHANGED <<v1, v2, v3, v4, v5, v7>>,
         v8' \in 0..ForAccess.MaxCalls
  PROVE  Access!IInv'
<1>1. AccessTables /\ AccessCaches /\ AccessRequests
  BY AccessParts
<1>2. AccessMoves /\ AccessTables'
  <2>1. v1' \in 1..ForAccess.MaxTime /\ v1 <= v1'
    BY <1>1 DEF AccessTables
  <2> QED BY <1>1, <2>1, TablesRest
<1>3. AccessCaches'
  <2>1. v5' = v5 /\ v5 \in [ForAccess.Servers -> [ForAccess.Users -> AccessEntry]]
    BY <1>1 DEF AccessCaches
  <2>2. ASSUME NEW s \in ForAccess.Servers, NEW u \in ForAccess.Users, NEW e \in AccessEntry,
               e = v5'[s][u]
        PROVE  AccessCached(e, u)'
    BY <1>1, <1>2, <2>1, <2>2, CachedStays DEF AccessCaches
  <2> QED BY <2>1, <2>2 DEF AccessCaches
<1>4. AccessRequests'
  BY <1>1, <1>2, RequestGoes
<1> QED BY <1>2, <1>3, <1>4, AccessParts

\* A request as a step finds it.
LEMMA RequestIs ==
  ASSUME Access!IInv, NEW q \in Calls
  PROVE  \E x \in AccessReq : x = v6[q] /\ AccessKept(x)
  BY AccessParts DEF AccessRequests

\* A request that is answered.
LEMMA AccessFinishes ==
  ASSUME Access!IInv, NEW q \in Calls, Access!Finish(q), UNCHANGED <<v1, v2, v3, v4, v5, v7, v8>>
  PROVE  Access!IInv'
<1>1. v8' \in 0..ForAccess.MaxCalls
  BY AccessParts DEF AccessTables
<1>2. v6' = [v6 EXCEPT ![q] = Access!Blank]
  BY DEF Access!Finish, Access!Set
<1>3. PICK b \in AccessReq : b = Access!Blank
  BY BlankKept
<1>4. AccessKept(b)
  BY <1>3, BlankKept DEF AccessKept, AccessPlaced, AccessClean, AccessGood, AccessFound, Access!Blank
<1> QED BY <1>1, <1>2, <1>3, <1>4, RequestOnly

\* A request that only goes on to another place.
LEMMA PlaceMoves ==
  ASSUME NEW x \in AccessReq, NEW pc \in Access!PC, NEW y, y = [x EXCEPT !.pc = pc]
  PROVE  /\ y \in AccessReq /\ y.pc = pc
         /\ y.actor = x.actor /\ y.server = x.server /\ y.op = x.op /\ y.start = x.start
         /\ y.role = x.role /\ y.perms = x.perms /\ y.held = x.held /\ y.target = x.target
         /\ y.touched = x.touched /\ y.good = x.good
  BY DEF AccessReq

\* The kinds of the operations, by where their requests are.
LEMMA Kinds ==
  ASSUME NEW x \in AccessReq, AccessPlaced(x), x.pc # "idle"
  PROVE  /\ x.op \in Access!AllOps /\ x.actor \in ForAccess.Users /\ x.server \in ForAccess.Servers
         /\ x.pc \in {"user", "direct", "inherited", "grants", "groups", "standing"} =>
              x.op.kind \in {"use", "assign", "add", "remove", "create", "delete", "duplicate", "toggle"}
         /\ x.pc = "new" =>
              x.op.kind \in {"assign", "add", "remove", "create", "delete", "duplicate", "toggle"}
         /\ x.pc \in {"target", "current"} => x.op.kind = "assign"
         /\ x.pc = "count" => x.op.kind = "delete"
         /\ x.pc = "source" => x.op.kind = "duplicate"
         /\ x.pc = "second" => x.op.kind \in {"create", "delete", "duplicate"}
         /\ x.pc \in {"row", "entry", "insert"} => x.op.kind = "first"
         /\ x.pc \in {"audit", "write"} => x.op.kind \notin {"use", "first"}
  BY DEF AccessPlaced, Access!KindsAt

\* A request whose permissions have been answered is checked, and refused or goes on.
LEMMA CheckedKept ==
  ASSUME Access!IInv, NEW q \in Calls, NEW x \in AccessReq, NEW perms,
         perms \subseteq ForAccess.Perms, perms \subseteq Access!Authority,
         x.actor \in ForAccess.Users, x.server \in ForAccess.Servers, x.op \in Access!AllOps,
         x.op.kind \in {"use", "assign", "add", "remove", "create", "delete", "duplicate", "toggle"},
         v2[x.actor].good => x.good
  PROVE  \E r \in AccessReq :
           AccessKept(r) /\ (Access!Checked(q, x, perms) => v6' = [v6 EXCEPT ![q] = r])
<1>1. PICK b \in AccessReq : b = Access!Blank
  BY BlankKept
<1>2. AccessKept(b)
  BY <1>1, BlankKept DEF AccessKept, AccessPlaced, AccessClean, AccessGood, AccessFound, Access!Blank
<1> DEFINE y == [x EXCEPT !.perms = perms, !.pc = "standing", !.role = None, !.held = {}, !.start = 0]
<1>3. /\ y \in AccessReq /\ y.pc = "standing" /\ y.perms = perms /\ y.actor = x.actor
      /\ y.server = x.server /\ y.op = x.op /\ y.good = x.good
  <2>1. 0 \in 0..ForAccess.MaxTime /\ "standing" \in Access!PC
    BY AccessBounds DEF Access!PC
  <2> QED BY <2>1 DEF AccessReq
<1> HIDE DEF y
<1>4. AccessKept(y)
  <2>1. AccessPlaced(y)
    BY <1>3 DEF AccessPlaced, Access!KindsAt
  <2> QED BY <1>3, <2>1 DEF AccessKept, AccessClean, AccessGood, AccessFound
<1>5. CASE Access!Needs(x.op) \in perms
  BY <1>3, <1>4, <1>5 DEF Access!Checked, Access!Set, y
<1>6. CASE Access!Needs(x.op) \notin perms
  BY <1>1, <1>2, <1>6 DEF Access!Checked, Access!Set
<1> QED BY <1>5, <1>6

\* A request arrives.
LEMMA AccessArrives ==
  ASSUME Access!IInv, NEW q \in Calls, NEW ask \in ForAccess.Asks, NEW s \in ForAccess.Servers,
         Access!Arrive(q, ask[1], s, ask[2])
  PROVE  Access!IInv'
<1> DEFINE u == ask[1]
           op == ask[2]
<1>1. u \in ForAccess.Users /\ op \in Access!AllOps
  BY AccessConstantsFit
<1> HIDE DEF u, op
<1> DEFINE z == [Access!Blank EXCEPT !.actor = u, !.server = s, !.op = op, !.start = v1,
                                     !.good = v2[u].good]
<1>2. AccessTables /\ AccessCaches
  BY AccessParts
<1>3. v8' \in 0..ForAccess.MaxCalls /\ UNCHANGED <<v1, v2, v3, v4, v5, v7>>
  BY <1>2, AccessBounds DEF Access!Arrive, Access!Tables, AccessTables
<1>4. v2[u].good \in BOOLEAN /\ v1 \in 1..ForAccess.MaxTime
  BY <1>1, <1>2 DEF AccessTables, AccessUser
<1>5. /\ z \in AccessReq /\ z.pc = "idle" /\ z.actor = u /\ z.server = s /\ z.op = op /\ z.start = v1
      /\ z.perms = {} /\ z.touched = {} /\ z.good = v2[u].good
  <2>1. /\ Access!Blank \in AccessReq /\ Access!Blank.pc = "idle" /\ Access!Blank.perms = {}
        /\ Access!Blank.touched = {}
    BY BlankKept DEF Access!Blank
  <2>2. v1 \in 0..ForAccess.MaxTime
    BY <1>4
  <2> QED BY <1>1, <1>4, <2>1, <2>2 DEF AccessReq
<1>6. /\ op.kind \in {"grant", "revoke"} => Access!Set(q, [z EXCEPT !.pc = "audit"])
      /\ op.kind = "first" => Access!Set(q, [z EXCEPT !.pc = "row"])
      /\ op.kind \notin {"grant", "revoke", "first"} =>
           \/ Access!Checked(q, z, v5[s][u].perms)
           \/ Access!Set(q, [z EXCEPT !.pc = "user"])
  <2>1. Access!Arrive(q, u, s, op)
    BY DEF u, op
  <2> QED BY <2>1 DEF Access!Arrive
<1> HIDE DEF z
<1>7. PICK x \in AccessReq : x = z
  BY <1>5
<1>8. ASSUME NEW pc \in {"audit", "row", "user"}, Access!Set(q, [z EXCEPT !.pc = pc]),
             pc = "audit" => op.kind \in {"grant", "revoke"},
             pc = "row" => op.kind = "first",
             pc = "user" => op.kind \notin {"grant", "revoke", "first"}
      PROVE  Access!IInv'
  <2>1. pc \in Access!PC
    BY DEF Access!PC
  <2>2. PICK y \in AccessReq : y = [x EXCEPT !.pc = pc]
    BY <2>1, PlaceMoves
  <2>3. /\ y.pc = pc /\ y.actor = u /\ y.server = s /\ y.op = op /\ y.start = v1
        /\ y.perms = {} /\ y.touched = {} /\ y.good = v2[u].good
    BY <1>5, <1>7, <2>1, <2>2, PlaceMoves
  <2>4. op.kind \in {"use", "assign", "add", "remove", "create", "delete", "duplicate",
                     "toggle", "grant", "revoke", "first"}
    BY <1>1, OpForms
  <2>5. AccessPlaced(y)
    BY <1>1, <1>8, <2>3, <2>4 DEF AccessPlaced, Access!KindsAt
  <2>6. AccessClean(y) /\ AccessGood(y)
    BY <1>8, <2>3 DEF AccessClean, AccessGood
  <2>7. AccessFound(y)
    BY <1>4, <2>3 DEF AccessFound
  <2>8. AccessKept(y)
    BY <2>3, <2>5, <2>6, <2>7 DEF AccessKept
  <2>9. v6' = [v6 EXCEPT ![q] = y]
    BY <1>7, <1>8, <2>2 DEF Access!Set
  <2> QED BY <1>3, <2>8, <2>9, RequestOnly
<1>9. CASE /\ op.kind \notin {"grant", "revoke", "first"}
           /\ Access!Checked(q, z, v5[s][u].perms)
  <2>1. PICK e \in AccessEntry : e = v5[s][u]
    BY <1>1, <1>2 DEF AccessCaches
  <2>2. e.perms \subseteq ForAccess.Perms /\ e.perms \subseteq Access!Authority
    BY <1>1, <1>2, <2>1 DEF AccessCaches, AccessCached, AccessEntry
  <2>3. PICK perms : perms = e.perms
    OBVIOUS
  <2>4. x.op.kind \in {"use", "assign", "add", "remove", "create", "delete", "duplicate", "toggle"}
    BY <1>1, <1>5, <1>7, <1>9, OpForms
  <2>5. PICK r \in AccessReq :
          AccessKept(r) /\ (Access!Checked(q, x, perms) => v6' = [v6 EXCEPT ![q] = r])
    BY <1>1, <1>5, <1>7, <2>2, <2>3, <2>4, CheckedKept
  <2>6. v6' = [v6 EXCEPT ![q] = r]
    BY <1>7, <1>9, <2>1, <2>3, <2>5
  <2> QED BY <1>3, <2>5, <2>6, RequestOnly
<1> QED BY <1>6, <1>8, <1>9

\* A step that a fault, or an answer, ends at once, or that moves on.
LEMMA AccessAnswers ==
  ASSUME Access!IInv, NEW q \in Calls, NEW x \in AccessReq, x = v6[q], NEW y \in AccessReq,
         AccessKept(x) => AccessKept(y),
         Access!Finish(q) \/ Access!Set(q, y),
         UNCHANGED <<v1, v2, v3, v4, v5, v7, v8>>
  PROVE  Access!IInv'
<1>1. CASE Access!Finish(q)
  BY <1>1, AccessFinishes
<1>2. CASE Access!Set(q, y)
  <2>1. AccessKept(y)
    BY RequestIs
  <2>2. v8' \in 0..ForAccess.MaxCalls
    BY AccessParts DEF AccessTables
  <2> QED BY <1>2, <2>1, <2>2, RequestOnly DEF Access!Set
<1> QED BY <1>1, <1>2

\* The user's row.
LEMMA AccessReadsUser ==
  ASSUME Access!IInv, NEW q \in Calls, Access!ReadUser(q)
  PROVE  Access!IInv'
<1>1. PICK x \in AccessReq : x = v6[q] /\ AccessKept(x)
  BY RequestIs
<1>2. x.pc = "user" /\ UNCHANGED <<v1, v2, v3, v4, v5, v7, v8>>
  BY <1>1 DEF Access!ReadUser, Access!At, Access!Tables
<1>3. CASE Access!Finish(q)
  BY <1>2, <1>3, AccessFinishes
<1>4. CASE /\ v2[x.actor].role # None
           /\ Access!Set(q, [x EXCEPT !.role = v2[x.actor].role, !.pc = "direct"])
  <2>1. AccessTables
    BY AccessParts
  <2>2. x.actor \in ForAccess.Users
    BY <1>1, <1>2 DEF AccessKept, AccessPlaced
  <2>3. PICK role \in ForAccess.Roles : role = v2[x.actor].role
    BY <1>4, <2>1, <2>2 DEF AccessTables, AccessUser
  <2>4. PICK y : y = [x EXCEPT !.role = role, !.pc = "direct"]
    OBVIOUS
  <2>5. /\ y \in AccessReq /\ y.pc = "direct" /\ y.actor = x.actor /\ y.server = x.server
        /\ y.op = x.op /\ y.start = x.start /\ y.role = role /\ y.perms = x.perms /\ y.good = x.good
    <3>1. "direct" \in Access!PC
      BY DEF Access!PC
    <3> QED BY <2>4, <3>1 DEF AccessReq
  <2>6. AccessPlaced(y)
    BY <1>1, <1>2, <2>5 DEF AccessKept, AccessPlaced, Access!KindsAt
  <2>7. AccessClean(y) /\ AccessGood(y)
    BY <1>1, <1>2, <2>1, <2>2, <2>3, <2>5 DEF AccessKept, AccessClean, AccessGood, AccessTables
  <2>8. AccessFound(y)
    <3>1. Access!RoleSince(x.actor, role, x.start)
      BY <2>3, TrueFacts DEF Access!RoleSince, Access!Since
    <3> QED BY <1>1, <1>2, <2>5, <3>1 DEF AccessKept, AccessFound
  <2>9. AccessKept(y)
    BY <1>1, <2>5, <2>6, <2>7, <2>8 DEF AccessKept
  <2> QED BY <1>1, <1>2, <1>4, <2>3, <2>4, <2>5, <2>9, AccessAnswers
<1> QED BY <1>1, <1>3, <1>4 DEF Access!ReadUser

\* Permissions that are read were so just now.
LEMMA AccessCollects ==
  ASSUME Access!IInv, NEW q \in Calls, NEW x \in AccessReq, x = v6[q],
         NEW found, NEW pc, <<x.pc, pc>> \in {<<"direct", "inherited">>, <<"inherited", "grants">>},
         found \subseteq ForAccess.Perms, found \subseteq Access!Authority,
         \A p \in found : Access!FoundedSince(x.actor, p, x.start),
         Access!Collect(q, found, pc), UNCHANGED <<v1, v2, v3, v4, v5, v7, v8>>
  PROVE  Access!IInv'
<1>1. AccessKept(x)
  BY RequestIs
<1>2. PICK got \in {found, {}} : Access!Set(q, [x EXCEPT !.perms = x.perms \cup got, !.pc = pc])
  BY DEF Access!Collect
<1>3. got \subseteq found
  BY <1>2
<1>4. pc \in Access!PC /\ x.pc \in {"direct", "inherited"} /\ pc \in {"inherited", "grants"}
  BY DEF Access!PC
<1>5. PICK y : y = [x EXCEPT !.perms = x.perms \cup got, !.pc = pc]
  OBVIOUS
<1>6. /\ y \in AccessReq /\ y.pc = pc /\ y.actor = x.actor /\ y.server = x.server
      /\ y.op = x.op /\ y.start = x.start /\ y.role = x.role /\ y.perms = x.perms \cup got
      /\ y.good = x.good
  <2>1. x.perms \cup got \subseteq ForAccess.Perms
    BY <1>3 DEF AccessReq
  <2> QED BY <1>4, <1>5, <2>1 DEF AccessReq
<1>7. AccessPlaced(y)
  <2>1. x.op.kind \in {"use", "assign", "add", "remove", "create", "delete", "duplicate", "toggle"}
    BY <1>1, <1>4, Kinds DEF AccessKept
  <2> QED BY <1>1, <1>4, <1>6, <2>1 DEF AccessKept, AccessPlaced, Access!KindsAt
<1>8. AccessClean(y) /\ AccessGood(y)
  BY <1>1, <1>4, <1>6 DEF AccessKept, AccessClean, AccessGood
<1>9. AccessFound(y)
  BY <1>1, <1>3, <1>4, <1>6 DEF AccessKept, AccessFound
<1>10. y.perms \subseteq Access!Authority
  BY <1>1, <1>3, <1>6 DEF AccessKept
<1>11. AccessKept(y)
  BY <1>7, <1>8, <1>9, <1>10 DEF AccessKept
<1> QED BY <1>2, <1>5, <1>6, <1>11, AccessAnswers

\* The permissions of the role, and of those it inherits from.
LEMMA AccessReadsRoles ==
  ASSUME Access!IInv, NEW q \in Calls, Access!ReadDirect(q) \/ Access!ReadInherited(q)
  PROVE  Access!IInv'
<1>1. PICK x \in AccessReq : x = v6[q] /\ AccessKept(x)
  BY RequestIs
<1>2. x.pc \in {"direct", "inherited"} /\ UNCHANGED <<v1, v2, v3, v4, v5, v7, v8>>
  BY <1>1 DEF Access!ReadDirect, Access!ReadInherited, Access!At, Access!Tables
<1>3. /\ x.role \in ForAccess.Roles /\ Access!Usable(x.role)
      /\ Access!RoleSince(x.actor, x.role, x.start)
      /\ ForAccess.Inherits[x.role] \subseteq ForAccess.Roles
  BY <1>1, <1>2, AccessConstantsFit DEF AccessKept, AccessPlaced, AccessClean, AccessFound
<1>4. ASSUME NEW i \in {x.role} \cup ForAccess.Inherits[x.role]
      PROVE  /\ v3[i].perms \subseteq ForAccess.Perms /\ v3[i].perms \subseteq Access!Authority
             /\ \A p \in v3[i].perms : Access!FoundedSince(x.actor, p, x.start)
  <2>1. i \in ForAccess.Roles /\ Access!Clean(i)
    BY <1>3 DEF Access!Usable
  <2>2. v3[i].perms \subseteq ForAccess.Perms
    BY <2>1, AccessParts DEF AccessTables, AccessRole
  <2>3. \A p \in v3[i].perms : Access!PermSince(i, p, x.start)
    BY TrueFacts DEF Access!PermSince, Access!Since
  <2> QED BY <1>3, <2>1, <2>2, <2>3 DEF Access!Clean, Access!FoundedSince
<1>5. CASE Access!ReadDirect(q)
  <2>1. Access!Collect(q, v3[x.role].perms, "inherited") /\ x.pc = "direct"
    BY <1>1, <1>5 DEF Access!ReadDirect, Access!At
  <2>2. PICK found : found = v3[x.role].perms
    OBVIOUS
  <2>3. found \subseteq ForAccess.Perms /\ found \subseteq Access!Authority
        /\ \A p \in found : Access!FoundedSince(x.actor, p, x.start)
    BY <1>4, <2>2
  <2> QED BY <1>1, <1>2, <2>1, <2>2, <2>3, AccessCollects
<1>6. CASE Access!ReadInherited(q)
  <2> DEFINE all == UNION {v3[r].perms : r \in ForAccess.Inherits[x.role]}
  <2>1. Access!Collect(q, all, "grants") /\ x.pc = "inherited"
    BY <1>1, <1>6 DEF Access!ReadInherited, Access!At
  <2>2. \A p \in all : \E i \in ForAccess.Inherits[x.role] : p \in v3[i].perms
    OBVIOUS
  <2> HIDE DEF all
  <2>3. PICK found : found = all
    OBVIOUS
  <2>4. found \subseteq ForAccess.Perms /\ found \subseteq Access!Authority
        /\ \A p \in found : Access!FoundedSince(x.actor, p, x.start)
    BY <1>4, <2>2, <2>3
  <2> QED BY <1>1, <1>2, <2>1, <2>3, <2>4, AccessCollects
<1> QED BY <1>5, <1>6

\* The groups held.
LEMMA AccessReadsGrants ==
  ASSUME Access!IInv, NEW q \in Calls, Access!ReadGrants(q)
  PROVE  Access!IInv'
<1>1. PICK x \in AccessReq : x = v6[q] /\ AccessKept(x)
  BY RequestIs
<1>2. /\ x.pc = "grants" /\ UNCHANGED <<v1, v2, v3, v4, v5, v7, v8>>
      /\ Access!Set(q, [x EXCEPT !.held = Access!HeldBy(x.actor), !.pc = "groups"])
  BY <1>1 DEF Access!ReadGrants, Access!At, Access!Tables
<1>3. PICK held : held = Access!HeldBy(x.actor)
  OBVIOUS
<1>4. held \subseteq ForAccess.Groups /\ \A g \in held : x.actor \in v4[g].holders
  BY <1>3 DEF Access!HeldBy
<1>5. PICK y : y = [x EXCEPT !.held = held, !.pc = "groups"]
  OBVIOUS
<1>6. /\ y \in AccessReq /\ y.pc = "groups" /\ y.actor = x.actor /\ y.server = x.server
      /\ y.op = x.op /\ y.start = x.start /\ y.held = held /\ y.perms = x.perms /\ y.good = x.good
  <2>1. "groups" \in Access!PC
    BY DEF Access!PC
  <2> QED BY <1>4, <1>5, <2>1 DEF AccessReq
<1>7. AccessPlaced(y) /\ AccessClean(y) /\ AccessGood(y)
  <2>1. x.op.kind \in {"use", "assign", "add", "remove", "create", "delete", "duplicate", "toggle"}
    BY <1>1, <1>2, Kinds DEF AccessKept
  <2> QED BY <1>1, <1>2, <1>6, <2>1
          DEF AccessKept, AccessPlaced, AccessClean, AccessGood, Access!KindsAt
<1>8. AccessFound(y)
  <2>1. \A g \in held : Access!HeldSince(x.actor, g, x.start)
    BY <1>4, TrueFacts DEF Access!HeldSince, Access!Since
  <2> QED BY <1>1, <1>2, <1>6, <2>1 DEF AccessKept, AccessFound
<1>9. AccessKept(y)
  BY <1>1, <1>6, <1>7, <1>8 DEF AccessKept
<1> QED BY <1>1, <1>2, <1>3, <1>5, <1>6, <1>9, AccessAnswers

\* The groups that are active, and the cache entry.
LEMMA AccessReadsGroups ==
  ASSUME Access!IInv, NEW q \in Calls, Access!ReadGroups(q)
  PROVE  Access!IInv'
<1>1. PICK x \in AccessReq : x = v6[q] /\ AccessKept(x)
  BY RequestIs
<1> DEFINE active == {g \in x.held : v4[g].active}
           all == x.perms \cup (UNION {ForAccess.GroupPerms[g] : g \in active})
<1>2. /\ x.pc = "groups" /\ UNCHANGED <<v1, v2, v3, v4, v7, v8>>
      /\ v5' = [v5 EXCEPT ![x.server][x.actor] = Access!CacheEntry(q, all)]
      /\ Access!Checked(q, x, all)
  BY <1>1 DEF Access!ReadGroups, Access!At, Access!Tables
<1>3. x.actor \in ForAccess.Users /\ x.server \in ForAccess.Servers /\ x.op \in Access!AllOps
      /\ x.op.kind \in {"use", "assign", "add", "remove", "create", "delete", "duplicate", "toggle"}
      /\ (v2[x.actor].good => x.good)
  BY <1>1, <1>2, Kinds DEF AccessKept, AccessGood
<1>4. \A g \in active : /\ g \in ForAccess.Groups /\ v4[g].active
                        /\ Access!HeldSince(x.actor, g, x.start)
  BY <1>1, <1>2 DEF AccessKept, AccessFound, AccessReq
<1>5. \A p \in all : p \in x.perms \/ \E g \in active : p \in ForAccess.GroupPerms[g]
  OBVIOUS
<1> HIDE DEF active, all
<1>6. PICK perms : perms = all
  OBVIOUS
<1>7. /\ perms \subseteq ForAccess.Perms /\ perms \subseteq Access!Authority
      /\ \A p \in perms : Access!FoundedSince(x.actor, p, x.start)
  <2> SUFFICES ASSUME NEW p \in perms
               PROVE  p \in ForAccess.Perms /\ p \in Access!Authority
                      /\ Access!FoundedSince(x.actor, p, x.start)
    OBVIOUS
  <2>1. CASE p \in x.perms
    BY <1>1, <1>2, <2>1 DEF AccessKept, AccessFound, AccessReq
  <2>2. ASSUME NEW g \in active, p \in ForAccess.GroupPerms[g]
        PROVE  p \in ForAccess.Perms /\ p \in Access!Authority
               /\ Access!FoundedSince(x.actor, p, x.start)
    <3>1. Access!ActiveSince(g, x.start)
      BY <1>4, TrueFacts DEF Access!ActiveSince, Access!Since
    <3>2. p \in ForAccess.Perms /\ p \in Access!Authority
      BY <1>4, <2>2, AccessConstantsFit, AuthorityBounds
    <3> QED BY <1>4, <2>2, <3>1, <3>2 DEF Access!FoundedSince
  <2> QED BY <1>5, <1>6, <2>1, <2>2
<1>8. PICK e : e = [perms |-> perms, until |-> x.start + ForAccess.TTL]
  OBVIOUS
<1>9. x.start \in 1..v1 /\ v1 \in 1..ForAccess.MaxTime
  BY <1>1, <1>2, AccessParts DEF AccessKept, AccessFound, AccessTables
<1>10. e \in AccessEntry /\ AccessCached(e, x.actor)
  <2>1. x.start \in Nat /\ x.start <= v1 /\ v1 \in Nat /\ ForAccess.TTL \in Nat
        /\ ForAccess.MaxTime \in Nat /\ v1 <= ForAccess.MaxTime
    BY <1>9, AccessBounds
  <2>2. /\ x.start + ForAccess.TTL \in 0..(ForAccess.MaxTime + ForAccess.TTL)
        /\ x.start + ForAccess.TTL <= v1 + ForAccess.TTL
        /\ x.start + ForAccess.TTL - ForAccess.TTL = x.start
    BY <2>1
  <2>3. e.perms = perms /\ e.until = x.start + ForAccess.TTL
    BY <1>8
  <2>4. e \in AccessEntry
    BY <1>7, <1>8, <2>2 DEF AccessEntry
  <2>5. e.until - ForAccess.TTL = x.start
    BY <2>1, <2>3
  <2>6. \A p \in e.perms : Access!FoundedSince(x.actor, p, e.until - ForAccess.TTL)
    BY <1>7, <2>3, <2>5
  <2>7. AccessCached(e, x.actor)
    BY <1>7, <2>2, <2>3, <2>6 DEF AccessCached
  <2> QED BY <2>4, <2>7
<1>11. PICK r \in AccessReq :
         AccessKept(r) /\ (Access!Checked(q, x, perms) => v6' = [v6 EXCEPT ![q] = r])
  BY <1>3, <1>7, CheckedKept
<1>12. AccessTables /\ AccessCaches /\ AccessRequests
  BY AccessParts
<1>13. AccessMoves /\ AccessTables'
  <2>1. v1' \in 1..ForAccess.MaxTime /\ v1 <= v1' /\ v8' \in 0..ForAccess.MaxCalls
    BY <1>2, <1>9, <1>12 DEF AccessTables
  <2> QED BY <1>2, <1>12, <2>1, TablesRest
<1>14. AccessRequests'
  BY <1>2, <1>6, <1>11, <1>12, <1>13, RequestGoes
<1>15. AccessCaches'
  <2>1. v5' = [v5 EXCEPT ![x.server][x.actor] = e]
    BY <1>1, <1>2, <1>6, <1>8 DEF Access!CacheEntry
  <2>2. /\ v5' \in [ForAccess.Servers -> [ForAccess.Users -> AccessEntry]]
        /\ \A s \in ForAccess.Servers, u \in ForAccess.Users :
             v5'[s][u] = IF s = x.server /\ u = x.actor THEN e ELSE v5[s][u]
    BY <1>3, <1>10, <1>12, <2>1 DEF AccessCaches
  <2>3. ASSUME NEW s \in ForAccess.Servers, NEW u \in ForAccess.Users, NEW f \in AccessEntry,
               f = v5'[s][u]
        PROVE  AccessCached(f, u)'
    <3>1. AccessCached(f, u)
      BY <1>10, <1>12, <2>2, <2>3 DEF AccessCaches
    <3> QED BY <1>13, <3>1, CachedStays
  <2> QED BY <2>2, <2>3 DEF AccessCaches
<1> QED BY <1>13, <1>14, <1>15, AccessParts

\* The standing of the account.
LEMMA AccessChecksStanding ==
  ASSUME Access!IInv, NEW q \in Calls, Access!CheckStanding(q)
  PROVE  Access!IInv'
<1>1. PICK x \in AccessReq : x = v6[q] /\ AccessKept(x)
  BY RequestIs
<1>2. /\ x.pc = "standing" /\ UNCHANGED <<v1, v2, v3, v4, v5, v7, v8>>
      /\ \/ Access!Finish(q)
         \/ v2[x.actor].good /\ x.op.kind # "use" /\ Access!Goto(q, Access!Handler(x.op))
  BY <1>1 DEF Access!CheckStanding, Access!At, Access!Tables, Access!InGoodStanding
<1>3. CASE v2[x.actor].good /\ x.op.kind # "use" /\ Access!Goto(q, Access!Handler(x.op))
  <2>1. PICK pc : pc = Access!Handler(x.op)
    OBVIOUS
  <2>2. pc \in Access!PC /\ pc \in {"target", "new"} /\ (pc = "target" <=> x.op.kind = "assign")
    BY <2>1 DEF Access!Handler, Access!PC
  <2>3. PICK y : y = [x EXCEPT !.pc = pc]
    OBVIOUS
  <2>4. /\ y \in AccessReq /\ y.pc = pc /\ y.actor = x.actor /\ y.server = x.server
        /\ y.op = x.op /\ y.perms = x.perms /\ y.good = x.good
    BY <2>2, <2>3, PlaceMoves
  <2>5. x.op.kind \in {"use", "assign", "add", "remove", "create", "delete", "duplicate", "toggle"}
    BY <1>1, <1>2, Kinds DEF AccessKept
  <2>6. AccessPlaced(y)
    BY <1>1, <1>2, <1>3, <2>2, <2>4, <2>5 DEF AccessKept, AccessPlaced, Access!KindsAt
  <2>7. x.good
    BY <1>1, <1>2, <1>3 DEF AccessKept, AccessGood
  <2>8. AccessClean(y) /\ AccessGood(y) /\ AccessFound(y)
    BY <2>2, <2>4, <2>7 DEF AccessClean, AccessGood, AccessFound
  <2>9. AccessKept(y)
    BY <1>1, <2>4, <2>6, <2>8 DEF AccessKept
  <2>10. Access!Set(q, y)
    BY <1>1, <1>3, <2>1, <2>3 DEF Access!Goto
  <2> QED BY <1>1, <1>2, <2>4, <2>9, <2>10, AccessAnswers
<1> QED BY <1>2, <1>3, AccessFinishes

\* The role of the user that is to change.
LEMMA AccessReadsTarget ==
  ASSUME Access!IInv, NEW q \in Calls, Access!ReadTarget(q)
  PROVE  Access!IInv'
<1>1. PICK x \in AccessReq : x = v6[q] /\ AccessKept(x)
  BY RequestIs
<1>2. /\ x.pc = "target" /\ UNCHANGED <<v1, v2, v3, v4, v5, v7, v8>>
      /\ \/ Access!Finish(q)
         \/ /\ v2[x.op.user].role # None
            /\ Access!Set(q, [x EXCEPT !.target = v2[x.op.user].role, !.pc = "new"])
  BY <1>1 DEF Access!ReadTarget, Access!At, Access!Tables
<1>3. CASE /\ v2[x.op.user].role # None
           /\ Access!Set(q, [x EXCEPT !.target = v2[x.op.user].role, !.pc = "new"])
  <2>1. x.op.kind = "assign" /\ x.op \in Access!AllOps /\ x.actor \in ForAccess.Users
        /\ x.server \in ForAccess.Servers
    BY <1>1, <1>2, Kinds DEF AccessKept
  <2>2. PICK role \in ForAccess.Roles : role = v2[x.op.user].role
    BY <1>3, <2>1, OpForms, AccessParts DEF AccessTables, AccessUser
  <2>3. PICK y : y = [x EXCEPT !.target = role, !.pc = "new"]
    OBVIOUS
  <2>4. /\ y \in AccessReq /\ y.pc = "new" /\ y.actor = x.actor /\ y.server = x.server
        /\ y.op = x.op /\ y.perms = x.perms /\ y.good = x.good /\ y.target \in ForAccess.Roles
    <3>1. "new" \in Access!PC
      BY DEF Access!PC
    <3> QED BY <2>3, <3>1 DEF AccessReq
  <2>5. AccessPlaced(y)
    BY <2>1, <2>4 DEF AccessPlaced, Access!KindsAt
  <2>6. AccessClean(y) /\ AccessGood(y) /\ AccessFound(y)
    BY <1>1, <1>2, <2>1, <2>4 DEF AccessKept, AccessClean, AccessGood, AccessFound
  <2>7. AccessKept(y)
    BY <1>1, <2>4, <2>5, <2>6 DEF AccessKept
  <2> QED BY <1>1, <1>2, <1>3, <2>2, <2>3, <2>4, <2>7, AccessAnswers
<1> QED BY <1>2, <1>3, AccessFinishes

\* The role or group named, and what it touches.
LEMMA AccessReadsNew ==
  ASSUME Access!IInv, NEW q \in Calls, Access!ReadNew(q)
  PROVE  Access!IInv'
<1>1. PICK x \in AccessReq : x = v6[q] /\ AccessKept(x)
  BY RequestIs
<1>2. x.pc = "new" /\ UNCHANGED <<v1, v2, v3, v4, v5, v7, v8>>
  BY <1>1 DEF Access!ReadNew, Access!At, Access!Tables
<1> DEFINE next == CASE x.op.kind = "assign" -> "current"
                     [] x.op.kind = "delete" -> "count"
                     [] OTHER -> "audit"
<1>3. \/ Access!Finish(q)
      \/ /\ Access!Named(x.op) /\ (x.op.kind # "assign" => Access!Grantable(q, Access!Touched(x.op)))
         /\ Access!Set(q, [x EXCEPT !.touched = Access!Touched(x.op), !.pc = next])
  BY <1>1 DEF Access!ReadNew
<1>4. CASE /\ Access!Named(x.op) /\ (x.op.kind # "assign" => Access!Grantable(q, Access!Touched(x.op)))
           /\ Access!Set(q, [x EXCEPT !.touched = Access!Touched(x.op), !.pc = next])
  <2>1. /\ x.op.kind \in {"assign", "add", "remove", "create", "delete", "duplicate", "toggle"}
        /\ x.op \in Access!AllOps /\ x.actor \in ForAccess.Users /\ x.server \in ForAccess.Servers
    BY <1>1, <1>2, Kinds DEF AccessKept
  <2>2. PICK pc : pc = next
    OBVIOUS
  <2>3. /\ pc \in Access!PC /\ pc \in {"current", "count", "audit"}
        /\ (pc = "current" <=> x.op.kind = "assign") /\ (pc = "count" <=> x.op.kind = "delete")
    BY <2>2 DEF Access!PC
  <2> HIDE DEF next
  <2>4. PICK touched : touched = Access!Touched(x.op)
    OBVIOUS
  <2>5. /\ x.op.kind = "toggle" => touched = ForAccess.GroupPerms[x.op.group]
        /\ x.op.kind = "create" => touched = x.op.perms
        /\ x.op.kind \in {"add", "remove"} => touched = {x.op.perm}
        /\ x.op.kind \in {"assign", "delete", "duplicate"} => touched = v3[x.op.role].perms
    BY <2>1, <2>4 DEF Access!Touched
  <2>6. touched \subseteq ForAccess.Perms
    <3>1. \A r \in ForAccess.Roles : v3[r].perms \subseteq ForAccess.Perms
      BY AccessParts DEF AccessTables, AccessRole
    <3> QED BY <2>1, <2>5, <3>1, OpForms, AccessConstantsFit
  <2>7. x.op.kind # "assign" => touched \subseteq x.perms /\ touched \subseteq Access!Authority
    BY <1>1, <1>4, <2>4 DEF Access!Grantable, AccessKept
  <2>8. PICK y : y = [x EXCEPT !.touched = touched, !.pc = pc]
    OBVIOUS
  <2>9. /\ y \in AccessReq /\ y.pc = pc /\ y.actor = x.actor /\ y.server = x.server
        /\ y.op = x.op /\ y.perms = x.perms /\ y.good = x.good /\ y.touched = touched
        /\ y.target = x.target
    BY <2>3, <2>6, <2>8 DEF AccessReq
  <2>10. x.op.kind = "assign" => x.op.role \notin ForAccess.Protected
    BY <1>4 DEF Access!Named
  <2>11. x.good
    BY <1>1, <1>2, <2>1 DEF AccessKept, AccessGood
  <2>12. AccessKept(y)
    <3>1. AccessPlaced(y)
      <4>1. pc = "current" => x.target \in ForAccess.Roles
        BY <1>1, <1>2, <2>3 DEF AccessKept, AccessPlaced
      <4> QED BY <2>1, <2>3, <2>9, <4>1 DEF AccessPlaced, Access!KindsAt
    <3>2. AccessClean(y)
      BY <2>3, <2>5, <2>7, <2>9, <2>10 DEF AccessClean, Access!Clean
    <3>3. AccessGood(y) /\ AccessFound(y)
      BY <2>3, <2>9, <2>11 DEF AccessGood, AccessFound
    <3> QED BY <1>1, <2>9, <3>1, <3>2, <3>3 DEF AccessKept
  <2> QED BY <1>1, <1>2, <1>4, <2>2, <2>4, <2>8, <2>9, <2>12, AccessAnswers
<1> QED BY <1>2, <1>3, <1>4, AccessFinishes

\* A step that lets a request pass to its next place, or ends it.
LEMMA AccessPasses ==
  ASSUME Access!IInv, NEW q \in Calls, NEW x \in AccessReq, x = v6[q], NEW pc \in Access!PC,
         \A y \in AccessReq : y = [x EXCEPT !.pc = pc] => AccessKept(y),
         Access!Finish(q) \/ Access!Goto(q, pc),
         UNCHANGED <<v1, v2, v3, v4, v5, v7, v8>>
  PROVE  Access!IInv'
<1>1. PICK y \in AccessReq : y = [x EXCEPT !.pc = pc]
  BY PlaceMoves
<1>2. Access!Finish(q) \/ Access!Set(q, y)
  BY <1>1 DEF Access!Goto
<1> QED BY <1>1, <1>2, AccessAnswers

\* The role the user has now is compared too.
LEMMA AccessReadsCurrent ==
  ASSUME Access!IInv, NEW q \in Calls, Access!ReadCurrent(q)
  PROVE  Access!IInv'
<1>1. PICK x \in AccessReq : x = v6[q] /\ AccessKept(x)
  BY RequestIs
<1>2. /\ x.pc = "current" /\ UNCHANGED <<v1, v2, v3, v4, v5, v7, v8>>
      /\ Access!Finish(q) \/ (Access!MayAssign(q) /\ Access!Goto(q, "audit"))
  BY <1>1 DEF Access!ReadCurrent, Access!At, Access!Tables
<1>3. CASE Access!MayAssign(q) /\ Access!Goto(q, "audit")
  <2>1. x.op.kind = "assign" /\ x.op \in Access!AllOps
    BY <1>1, <1>2, Kinds DEF AccessKept
  <2>2. x.touched \subseteq x.perms
    BY <1>1, <1>3 DEF Access!MayAssign, Access!Grantable
  <2>3. x.touched \subseteq Access!Authority /\ v3[x.op.role].perms \subseteq Access!Authority
    BY <1>1, <1>2, <2>2 DEF AccessKept, AccessClean
  <2>4. "audit" \in Access!PC
    BY DEF Access!PC
  <2>5. ASSUME NEW y \in AccessReq, y = [x EXCEPT !.pc = "audit"] PROVE AccessKept(y)
    <3>1. /\ y.pc = "audit" /\ y.actor = x.actor /\ y.server = x.server
          /\ y.op = x.op /\ y.perms = x.perms /\ y.good = x.good /\ y.touched = x.touched
      BY <2>4, <2>5, PlaceMoves
    <3>2. AccessPlaced(y)
      BY <1>1, <1>2, <2>1, <3>1 DEF AccessKept, AccessPlaced, Access!KindsAt
    <3>3. AccessClean(y)
      BY <1>1, <1>2, <2>1, <2>3, <3>1 DEF AccessKept, AccessClean, Access!Clean
    <3>4. AccessGood(y) /\ AccessFound(y)
      BY <1>1, <1>2, <2>1, <3>1 DEF AccessKept, AccessGood, AccessFound
    <3> QED BY <1>1, <3>1, <3>2, <3>3, <3>4 DEF AccessKept
  <2> QED BY <1>1, <1>2, <1>3, <2>4, <2>5, AccessPasses
<1> QED BY <1>2, <1>3, AccessFinishes

\* The users of a role are counted, and the audit entry is written.
LEMMA AccessCounts ==
  ASSUME Access!IInv, NEW q \in Calls, Access!CountUsers(q) \/ Access!Record(q)
  PROVE  Access!IInv'
<1>1. PICK x \in AccessReq : x = v6[q] /\ AccessKept(x)
  BY RequestIs
<1>2. PICK pc : pc = IF x.pc = "count" THEN "audit" ELSE "write"
  OBVIOUS
<1>3. /\ x.pc \in {"count", "audit"} /\ UNCHANGED <<v1, v2, v3, v4, v5, v7, v8>>
      /\ Access!Finish(q) \/ Access!Goto(q, pc)
  BY <1>1, <1>2 DEF Access!CountUsers, Access!Record, Access!At, Access!Tables
<1>4. pc \in Access!PC /\ pc \in {"audit", "write"} /\ (x.pc = "count" => x.op.kind = "delete")
      /\ x.op \in Access!AllOps /\ x.op.kind \in Access!KindsAt(x.pc)
  BY <1>1, <1>2, <1>3, Kinds DEF Access!PC, AccessKept, AccessPlaced
<1>5. ASSUME NEW y \in AccessReq, y = [x EXCEPT !.pc = pc] PROVE AccessKept(y)
  <2>1. /\ y.pc = pc /\ y.actor = x.actor /\ y.server = x.server
        /\ y.op = x.op /\ y.perms = x.perms /\ y.good = x.good /\ y.touched = x.touched
    BY <1>4, <1>5, PlaceMoves
  <2>2. AccessPlaced(y)
    <3>1. x.op.kind \in {"assign", "add", "remove", "create", "delete", "duplicate", "toggle",
                        "grant", "revoke"}
      BY <1>3, <1>4 DEF Access!KindsAt
    <3>2. y.pc \in {"audit", "write"} /\ y.op.kind \in Access!KindsAt(y.pc)
      BY <1>4, <2>1, <3>1 DEF Access!KindsAt
    <3>3. y.actor \in ForAccess.Users /\ y.server \in ForAccess.Servers /\ y.op \in Access!AllOps
      BY <1>1, <1>3, <2>1 DEF AccessKept, AccessPlaced
    <3> QED BY <3>2, <3>3 DEF AccessPlaced
  <2>3. AccessClean(y)
    BY <1>1, <1>3, <1>4, <2>1 DEF AccessKept, AccessClean
  <2>4. AccessGood(y) /\ AccessFound(y)
    BY <1>1, <1>3, <1>4, <2>1 DEF AccessKept, AccessGood, AccessFound
  <2> QED BY <1>1, <2>1, <2>2, <2>3, <2>4 DEF AccessKept
<1> QED BY <1>1, <1>3, <1>4, <1>5, AccessPasses

\* A duplicate reads its source.
LEMMA AccessReadsSource ==
  ASSUME Access!IInv, NEW q \in Calls, Access!ReadSource(q)
  PROVE  Access!IInv'
<1>1. PICK x \in AccessReq : x = v6[q] /\ AccessKept(x)
  BY RequestIs
<1>2. /\ x.pc = "source" /\ UNCHANGED <<v1, v2, v3, v4, v5, v7, v8>>
      /\ Access!Set(q, [x EXCEPT !.touched = v3[x.op.role].perms, !.pc = "second"])
  BY <1>1 DEF Access!ReadSource, Access!At, Access!Tables
<1>3. x.op.kind = "duplicate" /\ x.op \in Access!AllOps /\ x.op.role \in ForAccess.Roles
  BY <1>1, <1>2, Kinds, OpForms DEF AccessKept
<1>4. PICK touched : touched = v3[x.op.role].perms
  OBVIOUS
<1>5. touched \subseteq ForAccess.Perms /\ touched \subseteq Access!Authority
  <2>1. touched \subseteq ForAccess.Perms
    BY <1>3, <1>4, AccessParts DEF AccessTables, AccessRole
  <2> QED BY <1>1, <1>2, <1>3, <1>4, <2>1 DEF AccessKept, AccessClean, Access!Clean
<1>6. PICK y : y = [x EXCEPT !.touched = touched, !.pc = "second"]
  OBVIOUS
<1>7. /\ y \in AccessReq /\ y.pc = "second" /\ y.actor = x.actor /\ y.server = x.server
      /\ y.op = x.op /\ y.perms = x.perms /\ y.good = x.good /\ y.touched = touched
  <2>1. "second" \in Access!PC
    BY DEF Access!PC
  <2> QED BY <1>5, <1>6, <2>1 DEF AccessReq
<1>8. AccessPlaced(y)
  BY <1>1, <1>2, <1>3, <1>7 DEF AccessKept, AccessPlaced, Access!KindsAt
<1>9. AccessClean(y) /\ AccessGood(y) /\ AccessFound(y)
  BY <1>1, <1>2, <1>3, <1>5, <1>7 DEF AccessKept, AccessClean, AccessGood, AccessFound
<1>10. AccessKept(y)
  BY <1>1, <1>7, <1>8, <1>9 DEF AccessKept
<1> QED BY <1>1, <1>2, <1>4, <1>6, <1>7, <1>10, AccessAnswers

\* A first request looks for its user's row, and is recorded.
LEMMA AccessLooks ==
  ASSUME Access!IInv, NEW q \in Calls, Access!LookForRow(q) \/ Access!RecordRow(q)
  PROVE  Access!IInv'
<1>1. PICK x \in AccessReq : x = v6[q] /\ AccessKept(x)
  BY RequestIs
<1>2. PICK pc : pc = IF x.pc = "row" THEN "entry" ELSE "insert"
  OBVIOUS
<1>3. /\ x.pc \in {"row", "entry"} /\ UNCHANGED <<v1, v2, v3, v4, v5, v7, v8>>
      /\ Access!Finish(q) \/ Access!Goto(q, pc)
  BY <1>1, <1>2 DEF Access!LookForRow, Access!RecordRow, Access!At, Access!Tables
<1>4. pc \in Access!PC /\ pc \in {"entry", "insert"} /\ x.op.kind = "first"
  BY <1>1, <1>2, <1>3, Kinds DEF Access!PC, AccessKept
<1>5. ASSUME NEW y \in AccessReq, y = [x EXCEPT !.pc = pc] PROVE AccessKept(y)
  <2>1. /\ y.pc = pc /\ y.actor = x.actor /\ y.server = x.server
        /\ y.op = x.op /\ y.perms = x.perms /\ y.good = x.good
    BY <1>4, <1>5, PlaceMoves
  <2>2. AccessPlaced(y)
    BY <1>1, <1>3, <1>4, <2>1 DEF AccessKept, AccessPlaced, Access!KindsAt
  <2>3. AccessClean(y) /\ AccessGood(y) /\ AccessFound(y)
    BY <1>1, <1>3, <1>4, <2>1 DEF AccessKept, AccessClean, AccessGood, AccessFound
  <2> QED BY <1>1, <2>1, <2>2, <2>3 DEF AccessKept
<1> QED BY <1>1, <1>3, <1>4, <1>5, AccessPasses

-----------------------------------------------------------------------------
(* The steps that write *)

\* Caches that only forget are kept.
LEMMA CachesKept ==
  ASSUME AccessCaches, AccessMoves,
         v5' \in [ForAccess.Servers -> [ForAccess.Users -> AccessEntry]],
         \A s \in ForAccess.Servers, u \in ForAccess.Users :
           v5'[s][u] \in {v5[s][u], Access!NoEntry}
  PROVE  AccessCaches'
<1>1. ASSUME NEW s \in ForAccess.Servers, NEW u \in ForAccess.Users, NEW e \in AccessEntry,
             e = v5'[s][u]
      PROVE  AccessCached(e, u)'
  <2>1. CASE e = v5[s][u]
    BY <2>1, CachedStays DEF AccessCaches
  <2>2. CASE e = Access!NoEntry
    <3>1. v1 \in Nat
      BY DEF AccessMoves
    <3>2. e.perms = {} /\ e.until = 0
      BY <2>2, <3>1, NoEntryCached
    <3>3. AccessCached(e, u)
      BY <3>1, <3>2, AccessBounds DEF AccessCached
    <3> QED BY <3>3, CachedStays
  <2> QED BY <1>1, <2>1, <2>2
<1> QED BY <1>1 DEF AccessCaches

\* A step that moves the tables within what others rely on, one request, and forgets
\* cache entries.
LEMMA AccessWrites ==
  ASSUME Access!IInv, AccessMoves, AccessTables', NEW q \in Calls, NEW r \in AccessReq,
         AccessKept(r), v6' = [v6 EXCEPT ![q] = r],
         v5' \in [ForAccess.Servers -> [ForAccess.Users -> AccessEntry]],
         \A s \in ForAccess.Servers, u \in ForAccess.Users :
           v5'[s][u] \in {v5[s][u], Access!NoEntry}
  PROVE  Access!IInv'
<1>1. AccessCaches /\ AccessRequests
  BY AccessParts
<1>2. AccessRequests' /\ AccessCaches'
  BY <1>1, RequestGoes, CachesKept
<1> QED BY <1>2, AccessParts

\* A step that moves the tables, and neither requests nor caches.
LEMMA RequestsRest ==
  ASSUME Access!IInv, AccessMoves, AccessTables', UNCHANGED <<v5, v6>>
  PROVE  Access!IInv'
<1>1. AccessCaches /\ AccessRequests
  BY AccessParts
<1>2. AccessCaches'
  BY <1>1, CachesKept DEF AccessCaches
<1>3. ASSUME NEW q \in Calls, NEW r \in AccessReq, r = v6'[q] PROVE AccessKept(r)'
  <2>1. AccessKept(r)
    BY <1>1, <1>3 DEF AccessRequests
  <2> QED BY <2>1, KeptStays
<1>4. AccessRequests'
  BY <1>1, <1>3 DEF AccessRequests
<1> QED BY <1>2, <1>4, AccessParts

\* And one that leaves the caches.
LEMMA CachesRest ==
  ASSUME Access!IInv, v5' = v5
  PROVE  /\ v5' \in [ForAccess.Servers -> [ForAccess.Users -> AccessEntry]]
         /\ \A s \in ForAccess.Servers, u \in ForAccess.Users :
              v5'[s][u] \in {v5[s][u], Access!NoEntry}
  BY AccessParts DEF AccessCaches

\* And one that forgets what a server has cached of some users.
LEMMA CachesForget ==
  ASSUME Access!IInv, NEW s \in ForAccess.Servers, NEW us, Access!Forget(s, us)
  PROVE  /\ v5' \in [ForAccess.Servers -> [ForAccess.Users -> AccessEntry]]
         /\ \A t \in ForAccess.Servers, u \in ForAccess.Users :
              v5'[t][u] \in {v5[t][u], Access!NoEntry}
<1>1. v5 \in [ForAccess.Servers -> [ForAccess.Users -> AccessEntry]] /\ v1 \in Nat
  BY AccessParts DEF AccessCaches, AccessTables
<1>2. PICK n \in AccessEntry : n = Access!NoEntry
  BY <1>1, NoEntryCached
<1>3. PICK f : f = [u \in ForAccess.Users |-> IF u \in us THEN n ELSE v5[s][u]]
  OBVIOUS
<1>4. f \in [ForAccess.Users -> AccessEntry] /\ \A u \in ForAccess.Users : f[u] \in {n, v5[s][u]}
  BY <1>1, <1>3
<1>5. v5' = [v5 EXCEPT ![s] = f]
  BY <1>2, <1>3 DEF Access!Forget
<1> QED BY <1>1, <1>2, <1>4, <1>5

\* A step that ends with the write.
LEMMA AccessWritten ==
  ASSUME Access!IInv, AccessMoves, AccessTables', NEW q \in Calls, Access!Finish(q),
         v5' \in [ForAccess.Servers -> [ForAccess.Users -> AccessEntry]],
         \A s \in ForAccess.Servers, u \in ForAccess.Users :
           v5'[s][u] \in {v5[s][u], Access!NoEntry}
  PROVE  Access!IInv'
<1>1. PICK b \in AccessReq : b = Access!Blank
  BY BlankKept
<1>2. AccessKept(b)
  BY <1>1, BlankKept DEF AccessKept, AccessPlaced, AccessClean, AccessGood, AccessFound, Access!Blank
<1>3. v6' = [v6 EXCEPT ![q] = b]
  BY <1>1 DEF Access!Finish, Access!Set
<1> QED BY <1>2, <1>3, AccessWrites

\* Roles change, and gain nothing beyond the authority.
LEMMA RolesChange ==
  ASSUME AccessTables, Access!Remember, UNCHANGED <<v1, v2, v4, v8>>,
         v3' \in [ForAccess.Roles -> AccessRole],
         \A r \in ForAccess.Roles : v3'[r].perms \subseteq v3[r].perms \cup Access!Authority,
         \A r \in ForAccess.Roles : v3'[r].is # "there" =>
           v3'[r].perms = {} /\ \A u \in ForAccess.Users : v2[u].role # r
  PROVE  AccessMoves /\ AccessTables'
<1>1. v1 \in Nat /\ v1 <= v1'
  BY DEF AccessTables
<1>2. AccessMoves
  BY <1>1, SinceStays DEF AccessTables, AccessMoves
<1>3. v7' \subseteq AccessNote
  BY RememberTyped
<1>4. Access!OnlyRolesThatExist'
  BY DEF Access!OnlyRolesThatExist
<1>5. \A u \in ForAccess.Users, r \in ForAccess.Roles : r = v2'[u].role => Access!Usable(r)'
  BY <1>2, CleanStays DEF AccessTables
<1>6. /\ Access!Clean(ForAccess.Free)'
      /\ \A r \in ForAccess.Roles \ ForAccess.Protected :
           \A i \in ForAccess.Inherits[r] : Access!Clean(i)'
  BY <1>2, CleanStays, AccessConstantsFit DEF AccessTables
<1>7. /\ v1' \in 1..ForAccess.MaxTime /\ v8' \in 0..ForAccess.MaxCalls
      /\ v2' \in [ForAccess.Users -> AccessUser] /\ v3' \in [ForAccess.Roles -> AccessRole]
      /\ v4' \in [ForAccess.Groups -> AccessGroup]
      /\ \A u \in ForAccess.Users : v2'[u].role = None => v2'[u].good
  BY DEF AccessTables
<1>8. AccessTables'
  BY <1>3, <1>4, <1>5, <1>6, <1>7 DEF AccessTables
<1> QED BY <1>2, <1>8

\* The permissions of one role change.
LEMMA OneRoleChanges ==
  ASSUME AccessTables, Access!Remember, UNCHANGED <<v1, v2, v4, v8>>,
         NEW r \in ForAccess.Roles, NEW perms, v3' = [v3 EXCEPT ![r].perms = perms],
         perms \subseteq ForAccess.Perms, perms \subseteq v3[r].perms \cup Access!Authority,
         v3[r].is # "there" => perms \subseteq v3[r].perms
  PROVE  AccessMoves /\ AccessTables'
<1>1. PICK new : new = [v3[r] EXCEPT !.perms = perms]
  OBVIOUS
<1>2. v3 \in [ForAccess.Roles -> AccessRole]
  BY DEF AccessTables
<1>3. new \in AccessRole /\ new.is = v3[r].is /\ new.perms = perms
  BY <1>1, <1>2 DEF AccessRole
<1>4. v3' = [v3 EXCEPT ![r] = new]
  BY <1>1, <1>2
<1>5. v3' \in [ForAccess.Roles -> AccessRole]
      /\ \A i \in ForAccess.Roles : v3'[i] = IF i = r THEN new ELSE v3[i]
  BY <1>2, <1>3, <1>4
<1>6. \A i \in ForAccess.Roles : v3'[i].perms \subseteq v3[i].perms \cup Access!Authority
  BY <1>3, <1>5
<1>7. \A i \in ForAccess.Roles : v3'[i].is # "there" =>
        v3'[i].perms = {} /\ \A u \in ForAccess.Users : v2[u].role # i
  BY <1>3, <1>5 DEF AccessTables, Access!OnlyRolesThatExist
<1> QED BY <1>5, <1>6, <1>7, RolesChange

\* Users change: one comes to a role that exists and is usable, or loses its standing.
LEMMA UsersChange ==
  ASSUME AccessTables, Access!Remember, UNCHANGED <<v1, v3, v4, v8>>,
         v2' \in [ForAccess.Users -> AccessUser],
         \A u \in ForAccess.Users : v2'[u].good => v2[u].good,
         \A u \in ForAccess.Users : v2'[u].role = None => v2'[u].good,
         \A u \in ForAccess.Users, r \in ForAccess.Roles :
           r = v2'[u].role => v2[u].role = r \/ (v3[r].is = "there" /\ Access!Usable(r))
  PROVE  AccessMoves /\ AccessTables'
<1>1. v1 \in Nat /\ v1 <= v1'
  BY DEF AccessTables
<1>2. AccessMoves
  BY <1>1, SinceStays DEF AccessTables, AccessMoves
<1>3. v7' \subseteq AccessNote
  BY RememberTyped
<1>4. Access!OnlyRolesThatExist'
  BY DEF AccessTables, Access!OnlyRolesThatExist
<1>5. \A u \in ForAccess.Users, r \in ForAccess.Roles : r = v2'[u].role => Access!Usable(r)'
  BY <1>2, CleanStays DEF AccessTables
<1>6. /\ Access!Clean(ForAccess.Free)'
      /\ \A r \in ForAccess.Roles \ ForAccess.Protected :
           \A i \in ForAccess.Inherits[r] : Access!Clean(i)'
  BY <1>2, CleanStays, AccessConstantsFit DEF AccessTables
<1>7. /\ v1' \in 1..ForAccess.MaxTime /\ v8' \in 0..ForAccess.MaxCalls
      /\ v2' \in [ForAccess.Users -> AccessUser] /\ v3' \in [ForAccess.Roles -> AccessRole]
      /\ v4' \in [ForAccess.Groups -> AccessGroup]
      /\ \A u \in ForAccess.Users : v2'[u].role = None => v2'[u].good
  BY DEF AccessTables
<1>8. AccessTables'
  BY <1>3, <1>4, <1>5, <1>6, <1>7 DEF AccessTables
<1> QED BY <1>2, <1>8

\* Groups change.
LEMMA GroupsChange ==
  ASSUME AccessTables, Access!Remember, UNCHANGED <<v1, v2, v3, v8>>,
         v4' \in [ForAccess.Groups -> AccessGroup]
  PROVE  AccessMoves /\ AccessTables'
<1>1. v1 \in Nat /\ v1 <= v1'
  BY DEF AccessTables
<1>2. AccessMoves
  BY <1>1, SinceStays DEF AccessTables, AccessMoves
<1>3. v7' \subseteq AccessNote
  BY RememberTyped
<1>4. /\ Access!OnlyRolesThatExist' <=> Access!OnlyRolesThatExist
      /\ \A r : Access!Clean(r)' <=> Access!Clean(r)
      /\ \A r : Access!Usable(r)' <=> Access!Usable(r)
  BY DEF Access!OnlyRolesThatExist, Access!Clean, Access!Usable
<1> QED BY <1>2, <1>3, <1>4 DEF AccessTables

\* An assignment.
LEMMA AccessAssigns ==
  ASSUME Access!IInv, NEW q \in Calls, Access!WriteAssign(q)
  PROVE  Access!IInv'
<1>1. PICK x \in AccessReq : x = v6[q] /\ AccessKept(x)
  BY RequestIs
<1>2. /\ x.pc = "write" /\ x.op.kind = "assign" /\ Access!Finish(q) /\ Access!Remember
      /\ UNCHANGED <<v1, v3, v4, v8>>
      /\ \/ /\ Access!Exists(x.op.role)
            /\ v2' = [v2 EXCEPT ![x.op.user].role = x.op.role]
            /\ Access!Forget(x.server, {x.op.user})
         \/ v2' = v2 /\ v5' = v5
  BY <1>1 DEF Access!WriteAssign, Access!At
<1>3. AccessTables /\ AccessCaches
  BY AccessParts
<1>4. PICK op \in Access!AllOps : op = x.op
  BY <1>1, <1>2, Kinds DEF AccessKept
<1>5. /\ op.user \in ForAccess.Users /\ op.role \in ForAccess.Roles /\ op.role # None
      /\ op.kind = "assign" /\ x.server \in ForAccess.Servers
  BY <1>1, <1>2, <1>4, OpForms, Kinds, AccessConstantsFit DEF AccessKept
<1>6. Access!Usable(op.role)
  <2>1. Access!Clean(op.role) /\ op.role \notin ForAccess.Protected
    BY <1>1, <1>2, <1>4 DEF AccessKept, AccessClean
  <2> QED BY <1>3, <1>5, <2>1 DEF AccessTables, Access!Usable
<1>7. /\ v2' \in [ForAccess.Users -> AccessUser]
      /\ \A u \in ForAccess.Users : v2'[u].good = v2[u].good
      /\ \A u \in ForAccess.Users :
           v2'[u].role = v2[u].role \/ (v2'[u].role = op.role /\ Access!Exists(op.role))
  <2>1. CASE v2' = v2
    BY <1>3, <2>1 DEF AccessTables
  <2>2. CASE Access!Exists(x.op.role) /\ v2' = [v2 EXCEPT ![x.op.user].role = x.op.role]
    <3>1. PICK new : new = [v2[op.user] EXCEPT !.role = op.role]
      OBVIOUS
    <3>2. new \in AccessUser /\ new.role = op.role /\ new.good = v2[op.user].good
      BY <1>3, <1>5, <3>1 DEF AccessTables, AccessUser
    <3>3. v2' = [v2 EXCEPT ![op.user] = new]
      BY <1>3, <1>4, <1>5, <2>2, <3>1 DEF AccessTables
    <3>4. \A u \in ForAccess.Users : v2'[u] = IF u = op.user THEN new ELSE v2[u]
      BY <1>3, <3>3 DEF AccessTables
    <3>5. v2' \in [ForAccess.Users -> AccessUser]
      BY <1>3, <3>2, <3>3 DEF AccessTables
    <3> QED BY <1>4, <2>2, <3>2, <3>4, <3>5
  <2> QED BY <1>2, <2>1, <2>2
<1>8. AccessMoves /\ AccessTables'
  <2>1. \A u \in ForAccess.Users : v2'[u].role = None => v2'[u].good
    BY <1>3, <1>5, <1>7 DEF AccessTables
  <2>2. \A u \in ForAccess.Users, r \in ForAccess.Roles :
          r = v2'[u].role => v2[u].role = r \/ (v3[r].is = "there" /\ Access!Usable(r))
    <3> SUFFICES ASSUME NEW u \in ForAccess.Users, NEW r \in ForAccess.Roles, r = v2'[u].role,
                        v2[u].role # r
                 PROVE  v3[r].is = "there" /\ Access!Usable(r)
      BY Zenon
    <3>1. r = op.role /\ Access!Exists(op.role)
      BY <1>7
    <3>2. PICK o : o = op.role
      OBVIOUS
    <3> QED BY <1>6, <3>1 DEF Access!Exists
  <2> QED BY <1>2, <1>3, <1>7, <2>1, <2>2, UsersChange
<1>9. /\ v5' \in [ForAccess.Servers -> [ForAccess.Users -> AccessEntry]]
      /\ \A s \in ForAccess.Servers, u \in ForAccess.Users :
           v5'[s][u] \in {v5[s][u], Access!NoEntry}
  <2>1. CASE v5' = v5
    BY <2>1, CachesRest
  <2>2. CASE Access!Forget(x.server, {x.op.user})
    BY <1>5, <2>2, CachesForget
  <2> QED BY <1>2, <2>1, <2>2
<1> QED BY <1>2, <1>8, <1>9, AccessWritten

\* A role gains or loses a permission.
LEMMA AccessEdits ==
  ASSUME Access!IInv, NEW q \in Calls, Access!WriteEdit(q)
  PROVE  Access!IInv'
<1>1. PICK x \in AccessReq : x = v6[q] /\ AccessKept(x)
  BY RequestIs
<1>2. PICK op : op = x.op
  OBVIOUS
<1>3. /\ x.pc = "write" /\ op.kind \in {"add", "remove"} /\ Access!Finish(q) /\ Access!Remember
      /\ UNCHANGED <<v1, v2, v4, v5, v8>>
      /\ v3' = [v3 EXCEPT ![op.role].perms =
                  IF ~Access!Exists(op.role) THEN v3[op.role].perms
                  ELSE IF op.kind = "add" THEN v3[op.role].perms \cup {op.perm}
                  ELSE v3[op.role].perms \ {op.perm}]
  BY <1>1, <1>2 DEF Access!WriteEdit, Access!At
<1>4. AccessTables
  BY AccessParts
<1>5. op \in Access!AllOps /\ op.role \in ForAccess.Roles /\ op.perm \in ForAccess.Perms
      /\ op.perm \in Access!Authority
  BY <1>1, <1>2, <1>3, Kinds, OpForms DEF AccessKept, AccessClean
<1>6. PICK perms : perms = IF ~Access!Exists(op.role) THEN v3[op.role].perms
                           ELSE IF op.kind = "add" THEN v3[op.role].perms \cup {op.perm}
                           ELSE v3[op.role].perms \ {op.perm}
  OBVIOUS
<1>7. /\ perms \subseteq ForAccess.Perms /\ perms \subseteq v3[op.role].perms \cup Access!Authority
      /\ ~Access!Exists(op.role) => perms = v3[op.role].perms
  BY <1>4, <1>5, <1>6 DEF AccessTables, AccessRole
<1>8. v3' = [v3 EXCEPT ![op.role].perms = perms]
  BY <1>3, <1>6
<1>9. AccessMoves /\ AccessTables'
  BY <1>3, <1>4, <1>5, <1>7, <1>8, OneRoleChanges DEF Access!Exists
<1> QED BY <1>3, <1>9, CachesRest, AccessWritten

\* A role appears, empty.
LEMMA AccessCreates ==
  ASSUME Access!IInv, NEW q \in Calls, Access!WriteCreate(q)
  PROVE  Access!IInv'
<1>1. PICK x \in AccessReq : x = v6[q] /\ AccessKept(x)
  BY RequestIs
<1>2. PICK op : op = x.op
  OBVIOUS
<1>3. PICK new : new = IF op.kind = "create" THEN op.role ELSE op.new
  OBVIOUS
<1>4. PICK pc : pc = IF op.kind = "create" THEN "second" ELSE "source"
  OBVIOUS
<1>5. /\ x.pc = "write" /\ op.kind \in {"create", "duplicate"} /\ Access!Remember
      /\ UNCHANGED <<v1, v2, v4, v5, v8>>
      /\ \/ /\ v3' = [v3 EXCEPT ![new] = [is |-> "there", perms |-> {}]]
            /\ Access!Goto(q, pc)
         \/ v3' = v3 /\ Access!Finish(q)
  BY <1>1, <1>2, <1>3, <1>4 DEF Access!WriteCreate, Access!At
<1>6. AccessTables
  BY AccessParts
<1>7. op \in Access!AllOps /\ op.role \in ForAccess.Roles /\ new \in ForAccess.Roles
  BY <1>1, <1>2, <1>3, <1>5, Kinds, OpForms DEF AccessKept
<1>8. v3 \in [ForAccess.Roles -> AccessRole]
  BY <1>6 DEF AccessTables
<1>9. AccessMoves /\ AccessTables'
  <2>1. PICK row : row = [is |-> "there", perms |-> {}]
    OBVIOUS
  <2>2. row \in AccessRole /\ row.is = "there" /\ row.perms = {}
    BY <2>1 DEF AccessRole
  <2>3. v3' \in [ForAccess.Roles -> AccessRole]
        /\ \A r \in ForAccess.Roles : v3'[r] = v3[r] \/ v3'[r] = row
    BY <1>5, <1>8, <2>1, <2>2
  <2>4. \A r \in ForAccess.Roles : v3'[r].perms \subseteq v3[r].perms \cup Access!Authority
    BY <2>2, <2>3
  <2>5. \A r \in ForAccess.Roles : v3'[r].is # "there" =>
          v3'[r].perms = {} /\ \A u \in ForAccess.Users : v2[u].role # r
    BY <1>6, <2>2, <2>3 DEF AccessTables, Access!OnlyRolesThatExist
  <2> QED BY <1>5, <1>6, <2>3, <2>4, <2>5, RolesChange
<1>10. CASE Access!Finish(q)
  BY <1>5, <1>9, <1>10, CachesRest, AccessWritten
<1>11. CASE Access!Goto(q, pc)
  <2>1. pc \in Access!PC /\ pc \in {"second", "source"} /\ (pc = "source" => op.kind = "duplicate")
    BY <1>4, <1>5 DEF Access!PC
  <2>2. PICK y \in AccessReq : y = [x EXCEPT !.pc = pc]
    BY <2>1, PlaceMoves
  <2>3. /\ y.pc = pc /\ y.actor = x.actor /\ y.server = x.server
        /\ y.op = op /\ y.perms = x.perms /\ y.good = x.good /\ y.touched = x.touched
    BY <1>2, <2>1, <2>2, PlaceMoves
  <2>4. AccessPlaced(y)
    <3>1. x.actor \in ForAccess.Users /\ x.server \in ForAccess.Servers
      BY <1>1, <1>5, Kinds DEF AccessKept
    <3> QED BY <1>5, <1>7, <2>1, <2>3, <3>1 DEF AccessPlaced, Access!KindsAt
  <2>5. AccessClean(y)
    BY <1>1, <1>2, <1>5, <2>1, <2>3 DEF AccessKept, AccessClean
  <2>6. AccessGood(y) /\ AccessFound(y)
    BY <1>1, <1>2, <1>5, <2>1, <2>3 DEF AccessKept, AccessGood, AccessFound
  <2>7. AccessKept(y)
    BY <1>1, <2>3, <2>4, <2>5, <2>6 DEF AccessKept
  <2>8. v6' = [v6 EXCEPT ![q] = y]
    BY <1>1, <1>11, <2>2 DEF Access!Goto, Access!Set
  <2> QED BY <1>5, <1>9, <2>7, <2>8, CachesRest, AccessWrites
<1> QED BY <1>5, <1>10, <1>11

\* The permissions of the new role follow.
LEMMA AccessFills ==
  ASSUME Access!IInv, NEW q \in Calls, Access!WritePerms(q)
  PROVE  Access!IInv'
<1>1. PICK x \in AccessReq : x = v6[q] /\ AccessKept(x)
  BY RequestIs
<1>2. PICK op : op = x.op
  OBVIOUS
<1>3. PICK new : new = IF op.kind = "create" THEN op.role ELSE op.new
  OBVIOUS
<1>4. PICK perms : perms = IF Access!Exists(new) THEN v3[new].perms \cup x.touched ELSE v3[new].perms
  OBVIOUS
<1>5. /\ x.pc = "second" /\ op.kind \in {"create", "duplicate"} /\ Access!Remember /\ Access!Finish(q)
      /\ UNCHANGED <<v1, v2, v4, v5, v8>> /\ v3' = [v3 EXCEPT ![new].perms = perms]
  BY <1>1, <1>2, <1>3, <1>4 DEF Access!WritePerms, Access!At
<1>6. op \in Access!AllOps /\ new \in ForAccess.Roles
  BY <1>1, <1>2, <1>3, <1>5, Kinds, OpForms DEF AccessKept
<1>7. AccessTables
  BY AccessParts
<1>8. /\ perms \subseteq ForAccess.Perms /\ perms \subseteq v3[new].perms \cup Access!Authority
      /\ v3[new].is # "there" => perms \subseteq v3[new].perms
  BY <1>1, <1>4, <1>5, <1>6, <1>7
     DEF AccessTables, AccessRole, AccessReq, AccessKept, AccessClean, Access!Exists
<1>9. AccessMoves /\ AccessTables'
  BY <1>5, <1>6, <1>7, <1>8, OneRoleChanges
<1> QED BY <1>5, <1>9, CachesRest, AccessWritten

\* A role that is deleted loses its permissions first.
LEMMA AccessDeletes ==
  ASSUME Access!IInv, NEW q \in Calls, Access!WriteDelete(q)
  PROVE  Access!IInv'
<1>1. PICK x \in AccessReq : x = v6[q] /\ AccessKept(x)
  BY RequestIs
<1>2. PICK op : op = x.op
  OBVIOUS
<1>3. /\ x.pc = "write" /\ op.kind = "delete" /\ Access!Remember /\ Access!Goto(q, "second")
      /\ UNCHANGED <<v1, v2, v4, v5, v8>> /\ v3' = [v3 EXCEPT ![op.role].perms = {}]
  BY <1>1, <1>2 DEF Access!WriteDelete, Access!At
<1>4. op \in Access!AllOps /\ op.role \in ForAccess.Roles
  BY <1>1, <1>2, <1>3, Kinds, OpForms DEF AccessKept
<1>5. AccessTables
  BY AccessParts
<1>6. PICK perms : perms = {}
  OBVIOUS
<1>7. AccessMoves /\ AccessTables'
  <2>1. v3' = [v3 EXCEPT ![op.role].perms = perms]
    BY <1>3, <1>6
  <2>2. /\ perms \subseteq ForAccess.Perms /\ perms \subseteq v3[op.role].perms
        /\ perms \subseteq v3[op.role].perms \cup Access!Authority
    BY <1>6
  <2> QED BY <1>3, <1>4, <1>5, <2>1, <2>2, OneRoleChanges
<1>8. "second" \in Access!PC
  BY DEF Access!PC
<1>9. PICK y \in AccessReq : y = [x EXCEPT !.pc = "second"]
  BY <1>8, PlaceMoves
<1>10. /\ y.pc = "second" /\ y.actor = x.actor /\ y.server = x.server
       /\ y.op = op /\ y.perms = x.perms /\ y.good = x.good /\ y.touched = x.touched
  BY <1>2, <1>8, <1>9, PlaceMoves
<1>11. AccessPlaced(y)
  BY <1>1, <1>2, <1>3, <1>10 DEF AccessKept, AccessPlaced, Access!KindsAt
<1>12. AccessClean(y) /\ AccessGood(y) /\ AccessFound(y)
  BY <1>1, <1>2, <1>3, <1>10 DEF AccessKept, AccessClean, AccessGood, AccessFound
<1>13. AccessKept(y)
  BY <1>1, <1>10, <1>11, <1>12 DEF AccessKept
<1>14. v6' = [v6 EXCEPT ![q] = y]
  BY <1>1, <1>3, <1>9 DEF Access!Goto, Access!Set
<1> QED BY <1>3, <1>7, <1>13, <1>14, CachesRest, AccessWrites

\* And goes itself, unless it has got a user meanwhile.
LEMMA AccessDeletesRole ==
  ASSUME Access!IInv, NEW q \in Calls, Access!DeleteRole(q)
  PROVE  Access!IInv'
<1>1. PICK x \in AccessReq : x = v6[q] /\ AccessKept(x)
  BY RequestIs
<1>2. PICK op : op = x.op
  OBVIOUS
<1>3. PICK gone : gone = [is |-> "deleted", perms |-> {}]
  OBVIOUS
<1>4. /\ x.pc = "second" /\ op.kind = "delete" /\ Access!Remember /\ Access!Finish(q)
      /\ UNCHANGED <<v1, v2, v4, v5, v8>>
      /\ v3' = [v3 EXCEPT ![op.role] =
                  IF \E u \in ForAccess.Users : v2[u].role = op.role THEN v3[op.role] ELSE gone]
  BY <1>1, <1>2, <1>3 DEF Access!DeleteRole, Access!At
<1>5. op \in Access!AllOps /\ op.role \in ForAccess.Roles
  BY <1>1, <1>2, <1>4, Kinds, OpForms DEF AccessKept
<1>6. AccessTables
  BY AccessParts
<1>7. gone \in AccessRole /\ gone.perms = {} /\ gone.is = "deleted"
  BY <1>3 DEF AccessRole
<1>8. v3 \in [ForAccess.Roles -> AccessRole]
  BY <1>6 DEF AccessTables
<1>9. /\ v3' \in [ForAccess.Roles -> AccessRole]
      /\ \A r \in ForAccess.Roles :
           \/ v3'[r] = v3[r]
           \/ v3'[r] = gone /\ \A u \in ForAccess.Users : v2[u].role # r
  <2>1. CASE \E u \in ForAccess.Users : v2[u].role = op.role
    BY <1>4, <1>5, <1>8, <2>1
  <2>2. CASE \A u \in ForAccess.Users : v2[u].role # op.role
    <3>1. v3' = [v3 EXCEPT ![op.role] = gone]
      BY <1>4, <2>2
    <3>2. \A r \in ForAccess.Roles : v3'[r] = IF r = op.role THEN gone ELSE v3[r]
      BY <1>5, <1>8, <3>1
    <3>3. v3' \in [ForAccess.Roles -> AccessRole]
      BY <1>7, <1>8, <3>1
    <3> QED BY <2>2, <3>2, <3>3
  <2> QED BY <2>1, <2>2
<1>10. \A r \in ForAccess.Roles : v3'[r].perms \subseteq v3[r].perms \cup Access!Authority
  BY <1>7, <1>9
<1>11. \A r \in ForAccess.Roles : v3'[r].is # "there" =>
         v3'[r].perms = {} /\ \A u \in ForAccess.Users : v2[u].role # r
  BY <1>6, <1>7, <1>9 DEF AccessTables, Access!OnlyRolesThatExist
<1>12. AccessMoves /\ AccessTables'
  BY <1>4, <1>6, <1>9, <1>10, <1>11, RolesChange
<1> QED BY <1>4, <1>12, CachesRest, AccessWritten

\* A group is switched, granted or revoked.
LEMMA AccessGroups ==
  ASSUME Access!IInv, NEW q \in Calls, Access!WriteToggle(q) \/ Access!WriteGrant(q)
  PROVE  Access!IInv'
<1>1. PICK x \in AccessReq : x = v6[q] /\ AccessKept(x)
  BY RequestIs
<1>2. PICK op : op = x.op
  OBVIOUS
<1>3. /\ x.pc = "write" /\ op.kind \in {"toggle", "grant", "revoke"} /\ Access!Remember
      /\ Access!Finish(q) /\ UNCHANGED <<v1, v2, v3, v8>>
  BY <1>1, <1>2 DEF Access!WriteToggle, Access!WriteGrant, Access!At
<1>4. op \in Access!AllOps /\ op.group \in ForAccess.Groups /\ x.server \in ForAccess.Servers
      /\ (op.kind = "toggle" => op.on \in BOOLEAN)
      /\ (op.kind # "toggle" => op.user \in ForAccess.Users)
  BY <1>1, <1>2, <1>3, Kinds, OpForms DEF AccessKept
<1>5. AccessTables
  BY AccessParts
<1>6. PICK old \in AccessGroup : old = v4[op.group]
  BY <1>4, <1>5 DEF AccessTables
<1>7. v4 \in [ForAccess.Groups -> AccessGroup]
  BY <1>5 DEF AccessTables
<1>8. v4' \in [ForAccess.Groups -> AccessGroup]
  <2>1. CASE Access!WriteToggle(q)
    <3>1. op.kind = "toggle" /\ v4' = [v4 EXCEPT ![op.group].active = op.on]
      BY <1>1, <1>2, <2>1 DEF Access!WriteToggle
    <3>2. PICK on \in BOOLEAN : on = op.on
      BY <1>4, <3>1
    <3>3. PICK new : new = [old EXCEPT !.active = on]
      OBVIOUS
    <3>4. new \in AccessGroup
      BY <3>3 DEF AccessGroup
    <3>5. v4' = [v4 EXCEPT ![op.group] = new]
      BY <1>6, <1>7, <3>1, <3>2, <3>3
    <3> QED BY <1>7, <3>4, <3>5
  <2>2. CASE Access!WriteGrant(q)
    <3>1. PICK holders : holders = IF op.kind = "grant" THEN v4[op.group].holders \cup {op.user}
                                   ELSE v4[op.group].holders \ {op.user}
      OBVIOUS
    <3>2. op.kind \in {"grant", "revoke"} /\ v4' = [v4 EXCEPT ![op.group].holders = holders]
      BY <1>1, <1>2, <2>2, <3>1 DEF Access!WriteGrant
    <3>3. holders \subseteq ForAccess.Users
      BY <1>4, <1>6, <3>1, <3>2 DEF AccessGroup
    <3>4. PICK new : new = [old EXCEPT !.holders = holders]
      OBVIOUS
    <3>5. new \in AccessGroup
      BY <3>3, <3>4 DEF AccessGroup
    <3>6. v4' = [v4 EXCEPT ![op.group] = new]
      BY <1>6, <1>7, <3>2, <3>4
    <3> QED BY <1>7, <3>5, <3>6
  <2> QED BY <2>1, <2>2
<1>9. AccessMoves /\ AccessTables'
  BY <1>3, <1>5, <1>8, GroupsChange
<1>10. /\ v5' \in [ForAccess.Servers -> [ForAccess.Users -> AccessEntry]]
       /\ \A s \in ForAccess.Servers, u \in ForAccess.Users :
            v5'[s][u] \in {v5[s][u], Access!NoEntry}
  <2>1. CASE Access!WriteToggle(q)
    <3>1. Access!Forget(x.server, ForAccess.Users)
      BY <1>1, <2>1 DEF Access!WriteToggle
    <3> QED BY <1>4, <3>1, CachesForget
  <2>2. CASE Access!WriteGrant(q)
    <3>1. v5' = v5
      BY <2>2 DEF Access!WriteGrant
    <3> QED BY <3>1, CachesRest
  <2> QED BY <2>1, <2>2
<1> QED BY <1>3, <1>9, <1>10, AccessWritten

\* A user's first request inserts its row.
LEMMA AccessInserts ==
  ASSUME Access!IInv, NEW q \in Calls, Access!InsertRow(q)
  PROVE  Access!IInv'
<1>1. PICK x \in AccessReq : x = v6[q] /\ AccessKept(x)
  BY RequestIs
<1>2. /\ x.pc = "insert" /\ Access!Remember /\ Access!Finish(q) /\ UNCHANGED <<v1, v3, v4, v5, v8>>
      /\ v2' = [v2 EXCEPT ![x.actor] =
                  IF Access!Exists(ForAccess.Free) THEN Access!NewRow(x.actor) ELSE v2[x.actor]]
  BY <1>1 DEF Access!InsertRow, Access!At
<1>3. AccessTables
  BY AccessParts
<1>4. x.actor \in ForAccess.Users
  BY <1>1, <1>2, Kinds DEF AccessKept
<1>5. PICK row : row = [role |-> ForAccess.Free, good |-> TRUE]
  OBVIOUS
<1>6. row \in AccessUser /\ row.role = ForAccess.Free /\ row.good /\ ForAccess.Free # None
  BY <1>5, AccessConstantsFit DEF AccessUser
<1>7. v2 \in [ForAccess.Users -> AccessUser]
  BY <1>3 DEF AccessTables
<1>8. /\ v2' \in [ForAccess.Users -> AccessUser]
      /\ \A u \in ForAccess.Users :
           \/ v2'[u] = v2[u]
           \/ v2'[u] = row /\ Access!Exists(ForAccess.Free) /\ v2[u].role = None
  <2>1. CASE Access!Exists(ForAccess.Free) /\ v2[x.actor].role = None
    <3>1. v2' = [v2 EXCEPT ![x.actor] = row]
      BY <1>2, <1>5, <2>1 DEF Access!NewRow
    <3> QED BY <1>4, <1>6, <1>7, <2>1, <3>1
  <2>2. CASE ~(Access!Exists(ForAccess.Free) /\ v2[x.actor].role = None)
    <3>1. v2' = v2
      BY <1>2, <1>4, <1>7, <2>2 DEF Access!NewRow
    <3> QED BY <1>7, <3>1
  <2> QED BY <2>1, <2>2
<1>9. Access!Usable(ForAccess.Free)
  BY <1>3, AccessConstantsFit DEF AccessTables, Access!Usable
<1>10. PICK free \in ForAccess.Roles : free = ForAccess.Free
  BY AccessConstantsFit
<1>11. AccessMoves /\ AccessTables'
  <2>1. \A u \in ForAccess.Users :
          (v2'[u].good => v2[u].good) /\ (v2'[u].role = None => v2'[u].good)
    BY <1>3, <1>6, <1>8 DEF AccessTables
  <2>2. Access!Usable(free) /\ (Access!Exists(ForAccess.Free) <=> v3[free].is = "there")
    BY <1>9, <1>10 DEF Access!Exists
  <2>3. \A u \in ForAccess.Users, r \in ForAccess.Roles :
          r = v2'[u].role => v2[u].role = r \/ (v3[r].is = "there" /\ Access!Usable(r))
    <3> SUFFICES ASSUME NEW u \in ForAccess.Users, NEW r \in ForAccess.Roles, r = v2'[u].role,
                        v2[u].role # r
                 PROVE  v3[r].is = "there" /\ Access!Usable(r)
      BY Zenon
    <3>1. r = free /\ Access!Exists(ForAccess.Free)
      BY <1>6, <1>8, <1>10
    <3> QED BY <2>2, <3>1
  <2> QED BY <1>2, <1>3, <1>8, <2>1, <2>3, UsersChange
<1> QED BY <1>2, <1>11, CachesRest, AccessWritten

-----------------------------------------------------------------------------
(* The world around, and every step *)

\* Time passes.
LEMMA AccessTicks ==
  ASSUME Access!IInv, Access!Tick
  PROVE  Access!IInv'
<1>1. AccessTables /\ AccessCaches /\ AccessRequests
  BY AccessParts
<1>2. UNCHANGED <<v2, v3, v4, v5, v6, v7, v8>> /\ v1 < ForAccess.MaxTime /\ v1' = v1 + 1
  BY DEF Access!Tick, Access!Tables
<1>3. AccessMoves /\ AccessTables'
  <2>1. v1 \in 1..ForAccess.MaxTime /\ v8' \in 0..ForAccess.MaxCalls
    BY <1>1, <1>2 DEF AccessTables
  <2>2. v1' \in 1..ForAccess.MaxTime /\ v1 <= v1'
    BY <1>2, <2>1, AccessBounds
  <2> QED BY <1>1, <1>2, <2>1, <2>2, TablesRest
<1> QED BY <1>1, <1>2, <1>3, RequestsRest

\* An account is banned.
LEMMA AccessBans ==
  ASSUME Access!IInv, NEW u \in ForAccess.Users, Access!Ban(u)
  PROVE  Access!IInv'
<1>1. AccessTables /\ AccessCaches /\ AccessRequests
  BY AccessParts
<1>2. /\ v2[u].role # None /\ v2' = [v2 EXCEPT ![u].good = FALSE] /\ Access!Remember
      /\ UNCHANGED <<v1, v3, v4, v5, v6, v8>>
  BY DEF Access!Ban
<1>3. PICK row : row = [v2[u] EXCEPT !.good = FALSE]
  OBVIOUS
<1>4. v2 \in [ForAccess.Users -> AccessUser]
  BY <1>1 DEF AccessTables
<1>5. row \in AccessUser /\ row.role = v2[u].role /\ ~row.good
  BY <1>3, <1>4 DEF AccessUser
<1>6. v2' = [v2 EXCEPT ![u] = row]
  BY <1>2, <1>3, <1>4
<1>7. /\ v2' \in [ForAccess.Users -> AccessUser]
      /\ \A w \in ForAccess.Users : v2'[w] = IF w = u THEN row ELSE v2[w]
  BY <1>4, <1>5, <1>6
<1>8. \A w \in ForAccess.Users : v2'[w].role = v2[w].role /\ (v2'[w].good => v2[w].good)
                                 /\ (v2'[w].role = None => v2'[w].good)
  BY <1>1, <1>2, <1>5, <1>7 DEF AccessTables
<1>9. AccessMoves /\ AccessTables'
  <2>1. \A w \in ForAccess.Users, r \in ForAccess.Roles :
          r = v2'[w].role => v2[w].role = r \/ (v3[r].is = "there" /\ Access!Usable(r))
    BY <1>8
  <2> QED BY <1>1, <1>2, <1>7, <1>8, <2>1, UsersChange
<1> QED BY <1>1, <1>2, <1>9, RequestsRest

\* A server restarts.
LEMMA AccessRestarts ==
  ASSUME Access!IInv, NEW s \in ForAccess.Servers, Access!Restart(s)
  PROVE  Access!IInv'
<1>1. AccessTables /\ AccessCaches /\ AccessRequests
  BY AccessParts
<1>2. /\ v5' = [v5 EXCEPT ![s] = [u \in ForAccess.Users |-> Access!NoEntry]]
      /\ v6' = [q \in Calls |-> IF v6[q].server = s THEN Access!Blank ELSE v6[q]]
      /\ UNCHANGED <<v1, v2, v3, v4, v7, v8>>
  BY DEF Access!Restart, Access!Tables
<1>3. AccessMoves /\ AccessTables'
  <2>1. v1' \in 1..ForAccess.MaxTime /\ v1 <= v1' /\ v8' \in 0..ForAccess.MaxCalls
    BY <1>1, <1>2 DEF AccessTables
  <2> QED BY <1>1, <1>2, <2>1, TablesRest
<1>4. AccessRequests'
  <2>1. PICK b \in AccessReq : b = Access!Blank
    BY BlankKept
  <2>2. AccessKept(b)
    BY <2>1, BlankKept DEF AccessKept, AccessPlaced, AccessClean, AccessGood, AccessFound, Access!Blank
  <2>3. v6 \in [Calls -> AccessReq]
    BY <1>1 DEF AccessRequests
  <2>4. v6' \in [Calls -> AccessReq] /\ \A q \in Calls : v6'[q] \in {b, v6[q]}
    BY <1>2, <2>1, <2>3
  <2>5. ASSUME NEW q \in Calls, NEW r \in AccessReq, r = v6'[q] PROVE AccessKept(r)'
    <3>1. AccessKept(r)
      BY <1>1, <2>2, <2>4, <2>5 DEF AccessRequests
    <3> QED BY <1>3, <3>1, KeptStays
  <2> QED BY <2>4, <2>5 DEF AccessRequests
<1>5. AccessCaches'
  <2>1. Access!Forget(s, ForAccess.Users)
    BY <1>2 DEF Access!Forget
  <2> QED BY <1>1, <1>3, <2>1, CachesForget, CachesKept
<1> QED BY <1>3, <1>4, <1>5, AccessParts

\* Every step keeps the invariant.
LEMMA AccessInductive ==
  ASSUME Access!IInv, [Access!Next]_(Access!vars)
  PROVE  Access!IInv'
<1>1. CASE UNCHANGED Access!vars
  <2>1. UNCHANGED <<v1, v2, v3, v4, v5, v6, v7, v8>>
    BY <1>1 DEF Access!vars
  <2>2. AccessTables
    BY AccessParts
  <2>3. v1' \in 1..ForAccess.MaxTime /\ v1 <= v1' /\ v8' \in 0..ForAccess.MaxCalls
    BY <2>1, <2>2 DEF AccessTables
  <2> QED BY <2>1, <2>2, <2>3, TablesRest, RequestsRest
<1>2. ASSUME NEW q \in Calls, Access!Step(q) PROVE Access!IInv'
  <2>1. ASSUME NEW ask \in ForAccess.Asks, NEW s \in ForAccess.Servers,
               Access!Arrive(q, ask[1], s, ask[2])
        PROVE  Access!IInv'
    BY <2>1, AccessArrives
  <2>2. CASE \/ Access!ReadUser(q) \/ Access!ReadDirect(q) \/ Access!ReadInherited(q)
             \/ Access!ReadGrants(q) \/ Access!ReadGroups(q) \/ Access!CheckStanding(q)
    BY <2>2, AccessReadsUser, AccessReadsRoles, AccessReadsGrants, AccessReadsGroups,
       AccessChecksStanding
  <2>3. CASE \/ Access!ReadTarget(q) \/ Access!ReadNew(q) \/ Access!ReadCurrent(q)
             \/ Access!CountUsers(q) \/ Access!Record(q) \/ Access!ReadSource(q)
             \/ Access!LookForRow(q) \/ Access!RecordRow(q)
    BY <2>3, AccessReadsTarget, AccessReadsNew, AccessReadsCurrent, AccessCounts,
       AccessReadsSource, AccessLooks
  <2>4. CASE \/ Access!WriteAssign(q) \/ Access!WriteEdit(q) \/ Access!WriteCreate(q)
             \/ Access!WritePerms(q) \/ Access!WriteDelete(q) \/ Access!DeleteRole(q)
             \/ Access!WriteToggle(q) \/ Access!WriteGrant(q) \/ Access!InsertRow(q)
    BY <2>4, AccessAssigns, AccessEdits, AccessCreates, AccessFills, AccessDeletes,
       AccessDeletesRole, AccessGroups, AccessInserts
  <2> QED BY <1>2, <2>1, <2>2, <2>3, <2>4 DEF Access!Step
<1>3. CASE Access!Tick
  BY <1>3, AccessTicks
<1>4. ASSUME NEW u \in ForAccess.Banned, Access!Ban(u) PROVE Access!IInv'
  <2>1. u \in ForAccess.Users
    BY ServicesAssumption DEF Access!AccessAssumption
  <2> QED BY <1>4, <2>1, AccessBans
<1>5. ASSUME NEW s \in ForAccess.Servers, Access!Restart(s) PROVE Access!IInv'
  BY <1>5, AccessRestarts
<1> QED BY <1>1, <1>2, <1>3, <1>4, <1>5 DEF Access!Next

\* What is clean confines what users may do.
LEMMA AccessConfined == Access!IInv => Access!Confined
<1> SUFFICES ASSUME Access!IInv PROVE Access!Confined
  OBVIOUS
<1>1. AccessTables
  BY AccessParts
<1>2. ASSUME NEW u \in ForAccess.Users PROVE Access!Effective(u) \subseteq Access!Authority
  <2>1. CASE v2[u].role = None
    BY <2>1 DEF Access!Effective
  <2>2. CASE v2[u].role # None
    <3>1. PICK r \in ForAccess.Roles : r = v2[u].role
      BY <1>1, <2>2 DEF AccessTables, AccessUser
    <3>2. \A i \in {r} \cup ForAccess.Inherits[r] : v3[i].perms \subseteq Access!Authority
      BY <1>1, <3>1 DEF AccessTables, Access!Usable, Access!Clean
    <3> DEFINE direct == v3[r].perms
               inherited == UNION {v3[i].perms : i \in ForAccess.Inherits[r]}
               granted == UNION {ForAccess.GroupPerms[g] :
                                   g \in {h \in Access!HeldBy(u) : v4[h].active}}
    <3>3. Access!Effective(u) = (direct \cup inherited) \cup granted
      BY <2>2, <3>1 DEF Access!Effective
    <3>4. direct \subseteq Access!Authority
      BY <3>2
    <3>5. inherited \subseteq Access!Authority
      BY <3>2
    <3>6. granted \subseteq Access!Authority
      BY AuthorityBounds DEF Access!HeldBy
    <3> HIDE DEF direct, inherited, granted
    <3> QED BY <3>3, <3>4, <3>5, <3>6
  <2> QED BY <2>1, <2>2
<1> QED BY <1>2 DEF Access!Confined, Access!IInv

\* What was so since a resolution began was so less than a cache life ago.
LEMMA AccessAgesOut == Access!IInv => Access!PermissionsAgeOut
<1> SUFFICES ASSUME Access!IInv PROVE Access!PermissionsAgeOut
  OBVIOUS
<1>1. v1 \in Int /\ ForAccess.TTL \in Int /\ v7 \subseteq AccessNote /\ AccessCaches
  BY AccessParts, AccessBounds DEF AccessTables
<1>2. \A e \in v7 : e.at \in Int
  BY <1>1 DEF AccessNote
<1>3. ASSUME NEW s \in ForAccess.Servers, NEW u \in ForAccess.Users, v5[s][u].until > v1,
             NEW p \in v5[s][u].perms
      PROVE  Access!Founded(u, p, v1 + 1)
  <2>1. PICK t : t = v5[s][u].until - ForAccess.TTL
    OBVIOUS
  <2>2. t \in Int /\ t + ForAccess.TTL > v1
    BY <1>1, <1>3, <2>1 DEF AccessCaches, AccessEntry
  <2>3. Access!FoundedSince(u, p, t)
    BY <1>3, <2>1 DEF Access!IInv, Access!FoundSinceStart
  <2>4. \A f : Access!Since(f, t) => Access!Recent(f, v1 + 1)
    BY <1>1, <1>2, <2>2 DEF Access!Since, Access!Recent
  <2> QED BY <2>3, <2>4 DEF Access!FoundedSince, Access!Founded, Access!RoleSince, Access!PermSince,
                            Access!HeldSince, Access!ActiveSince
<1>4. ASSUME NEW q \in Calls, v6[q].pc \in {"direct", "inherited", "grants", "groups"},
             NEW p \in v6[q].perms
      PROVE  Access!Founded(v6[q].actor, p, v6[q].start)
  <2>1. PICK t : t = v6[q].start
    OBVIOUS
  <2>2. Access!FoundedSince(v6[q].actor, p, t)
    BY <1>4, <2>1 DEF Access!IInv, Access!FoundSinceStart
  <2>3. \A f : Access!Since(f, t) => Access!Recent(f, t)
    BY DEF Access!Since, Access!Recent
  <2> QED BY <2>1, <2>2, <2>3 DEF Access!FoundedSince, Access!Founded, Access!RoleSince,
                                  Access!PermSince, Access!HeldSince, Access!ActiveSince
<1> QED BY <1>3, <1>4 DEF Access!PermissionsAgeOut

\* A step changes a row that exists only as an assignment or a decision may.
LEMMA AccessRowsKept ==
  ASSUME Access!IInv, [Access!Next]_(Access!vars)
  PROVE  Access!WritesInGoodStanding /\ Access!RowIsKept
<1>1. Access!WritesInGoodStanding
  BY DEF Access!WritesInGoodStanding, Access!IInv, Access!StandingIsKept
<1>2. Access!RowIsKept
  <2> SUFFICES ASSUME NEW u \in ForAccess.Users, v2[u].role # None, v2'[u] # v2[u]
               PROVE  \/ Access!Ban(u)
                      \/ \E q \in Calls : /\ Access!At(q, "write") /\ v6[q].op.kind = "assign"
                                          /\ v6[q].op.user = u /\ v2'[u].role = v6[q].op.role
                                          /\ v2'[u].good = v2[u].good
    BY DEF Access!RowIsKept
  <2>1. v2 \in [ForAccess.Users -> AccessUser]
    BY AccessParts DEF AccessTables
  <2>2. v2' # v2
    OBVIOUS
  <2>3. ASSUME NEW q \in Calls, Access!WriteAssign(q)
        PROVE  /\ Access!At(q, "write") /\ v6[q].op.kind = "assign"
               /\ v6[q].op.user = u /\ v2'[u].role = v6[q].op.role
               /\ v2'[u].good = v2[u].good
    <3>1. /\ Access!At(q, "write") /\ v6[q].op.kind = "assign"
          /\ v2' = [v2 EXCEPT ![v6[q].op.user].role = v6[q].op.role]
      BY <2>2, <2>3 DEF Access!WriteAssign
    <3>2. v6[q].op.user = u
      BY <2>1, <3>1
    <3>3. v2'[u] = [v2[u] EXCEPT !.role = v6[q].op.role]
      BY <2>1, <3>1, <3>2
    <3>4. v2[u] \in AccessUser
      BY <2>1
    <3> QED BY <3>1, <3>2, <3>3, <3>4 DEF AccessUser
  <2>4. ASSUME NEW q \in Calls, Access!InsertRow(q) PROVE FALSE
    <3>1. v2' = [v2 EXCEPT ![v6[q].actor] =
                   IF Access!Exists(ForAccess.Free) THEN Access!NewRow(v6[q].actor)
                   ELSE v2[v6[q].actor]]
      BY <2>4 DEF Access!InsertRow
    <3> QED BY <2>1, <3>1 DEF Access!NewRow
  <2>5. ASSUME NEW w \in ForAccess.Banned, Access!Ban(w) PROVE Access!Ban(u)
    <3>1. v2' = [v2 EXCEPT ![w].good = FALSE]
      BY <2>5 DEF Access!Ban
    <3>2. u = w
      BY <2>1, <3>1
    <3> QED BY <2>5, <3>2
  <2>6. ASSUME NEW q \in Calls, Access!Step(q) PROVE Access!WriteAssign(q) \/ Access!InsertRow(q)
    <3>1. ASSUME NEW ask \in ForAccess.Asks, NEW s \in ForAccess.Servers,
                 Access!Arrive(q, ask[1], s, ask[2])
          PROVE  FALSE
      BY <2>2, <3>1 DEF Access!Arrive, Access!Tables
    <3>2. ~(\/ Access!ReadUser(q) \/ Access!ReadDirect(q) \/ Access!ReadInherited(q)
            \/ Access!ReadGrants(q) \/ Access!ReadGroups(q) \/ Access!CheckStanding(q))
      BY <2>2 DEF Access!ReadUser, Access!ReadDirect, Access!ReadInherited, Access!ReadGrants,
                  Access!ReadGroups, Access!CheckStanding, Access!Tables
    <3>3. ~(\/ Access!ReadTarget(q) \/ Access!ReadNew(q) \/ Access!ReadCurrent(q)
            \/ Access!CountUsers(q) \/ Access!Record(q) \/ Access!ReadSource(q)
            \/ Access!LookForRow(q) \/ Access!RecordRow(q))
      BY <2>2 DEF Access!ReadTarget, Access!ReadNew, Access!ReadCurrent, Access!CountUsers,
                  Access!Record, Access!ReadSource, Access!LookForRow, Access!RecordRow, Access!Tables
    <3>4. ~(\/ Access!WriteEdit(q) \/ Access!WriteCreate(q) \/ Access!WritePerms(q)
            \/ Access!WriteDelete(q) \/ Access!DeleteRole(q) \/ Access!WriteToggle(q)
            \/ Access!WriteGrant(q))
      BY <2>2 DEF Access!WriteEdit, Access!WriteCreate, Access!WritePerms, Access!WriteDelete,
                  Access!DeleteRole, Access!WriteToggle, Access!WriteGrant
    <3> QED BY <2>6, <3>1, <3>2, <3>3, <3>4 DEF Access!Step
  <2>7. ~Access!Tick /\ ~(UNCHANGED Access!vars)
    BY <2>2 DEF Access!Tick, Access!Tables, Access!vars
  <2>8. ASSUME NEW s \in ForAccess.Servers PROVE ~Access!Restart(s)
    BY <2>2 DEF Access!Restart, Access!Tables
  <2>9. CASE \E w \in ForAccess.Banned : Access!Ban(w)
    BY <2>5, <2>9
  <2>10. CASE \E q \in Calls : Access!Step(q)
    BY <2>3, <2>4, <2>6, <2>10
  <2> QED BY <2>7, <2>8, <2>9, <2>10 DEF Access!Next
<1> QED BY <1>1, <1>2

\* The invariant holds of every state of the access service.
LEMMA AccessAlways == Services => [](running = "access" => Access!IInv)
<1> DEFINE Kept == running = "access" => Access!IInv
<1>1. ServicesInit => Kept
  BY AccessAlone, AccessFirst
<1>2. Kept /\ [ServicesNext]_<<running, vars, slots>> => Kept'
  <2> SUFFICES ASSUME Kept, [ServicesNext]_<<running, vars, slots>>, running' = "access"
               PROVE  Access!IInv'
    OBVIOUS
  <2>1. running = "access"
    BY DEF ServicesNext, In
  <2> QED BY <2>1, AccessAlone, AccessInductive
<1> QED BY <1>1, <1>2, PTL DEF Services

\* A permission that is used rests on rows that were so less than a cache life ago, and
\* nobody comes to hold one that nobody held and no entitlement, inheritance or new
\* account gives.
THEOREM PermissionsFollowTheTables == Services => []PermissionsAgeOut
<1>1. (running = "access" => Access!IInv) => PermissionsAgeOut
  BY AccessConfined, AccessAgesOut DEF PermissionsAgeOut
<1> QED BY <1>1, AccessAlways, PTL

\* An administrator's request that writes arrived in good standing, and a row that
\* exists changes only by an assignment or a decision, whatever runs at once.
THEOREM RowsOnlyChangeLawfully == Services => RowsChangeLawfully
<1>1. /\ (running = "access" => Access!IInv)
      /\ [ServicesNext]_<<running, vars, slots>>
      => [running = "access" => Access!WritesInGoodStanding /\ Access!RowIsKept]_slots
  BY AccessAlone, AccessRowsKept
<1> QED BY <1>1, AccessAlways, PTL DEF Services, RowsChangeLawfully
=============================================================================
